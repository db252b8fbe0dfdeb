---------------------------- MODULE ActivityGroup ----------------------------
(***************************************************************************)
(* The producer of the combined activity records: the two programs of      *)
(* agent_activity.bpf.c, one at the completion of a JSON message and one   *)
(* at the HTTP handler, and the exchange key that activity_scope adds to   *)
(* their records.                                                          *)
(*                                                                         *)
(* The traffic is HTTP/1 on a few client connections.  A request is a      *)
(* client JSON message, a request-header event (142), the server's JSON    *)
(* message, a response-header event (28) and a response-done event (29).   *)
(* The programs never see which request an event is about: they look up    *)
(* the client connection in activity_exchanges_v2.  The model tags every   *)
(* record with its request, which only the properties read.                *)
(*                                                                         *)
(* One worker: an invocation is one step.  Connections whose flow memory   *)
(* cannot be read or linked are left out; all message ids are equal, so    *)
(* that they cannot tell two exchanges apart.                              *)
(***************************************************************************)
EXTENDS Integers, Sequences, FiniteSets, TLC

CONSTANTS
  Conns,       \* client connections
  AdmitMax,    \* connections activity_exchanges_v2 admits (127)
  RequestMax,  \* bound: requests in a behaviour
  FaultMax,    \* bound: anomalies and faults in a behaviour
  Losses,      \* which of the four records of a JSON message the ring may refuse
  Backlog      \* bound: journal rows left unread when an invocation begins

ASSUME GroupAssumption ==
  /\ AdmitMax \in Nat \ {0} /\ RequestMax \in Nat /\ FaultMax \in Nat /\ Backlog \in Nat
  /\ Losses \subseteq 1 .. 4

VARIABLES
  wire,    \* wire[c]: requests in progress on connection c, oldest first
  made,    \* requests made
  entry,   \* activity_exchanges_v2, by client connection
  count,   \* its reserved entry 0: connections admitted
  others,  \* connections beside Conns that hold an entry all along
  prog,    \* the two programs: configuration and counters
  source,  \* source_id of the journal rows: one for each TMM process
  stream,  \* journal rows the exporter has not read
  drops,   \* the ring refused a record and the reader has not said so yet
  faults,  \* anomalies and faults so far
  calm,    \* ghost: requests that nothing has disturbed
  dirty    \* ghost: connections with an anomaly since they were set up

groupVars ==
  <<wire, made, entry, count, others, prog, source, stream, drops, faults, calm,
    dirty>>

Programs == {"json", "http"}
JsonParts == <<"method", "operation_target", "message_id", "reply">>

\* No address in the map.
NoEntry == [run |-> 0, owner |-> 0, number |-> 0, state |-> 0]

\* A program as it is bound by a load: its configuration instance, revision and
\* run token, its output counter and its failed outputs.
Bound(i) == [inst |-> i, rev |-> 1, run |-> 1, calls |-> 0, fails |-> 0]
Pair(i) == [p \in Programs |-> Bound(IF p = "json" THEN i ELSE i + 1)]

------------------------------------------------------------------------------
(* activity_scope *)

\* The machine an invocation works on: the map, the counters and its output.
Machine == [entry |-> entry, count |-> count, prog |-> prog, rows |-> <<>>]

\* A frame without and with an exchange key.
Bare(ev, status) ==
  [side |-> ev.side, owner |-> 0, exchange |-> 0, status |-> status,
   phase |-> 0, invocation |-> ev.inv]
Keyed(ev, e, status, phase) ==
  [side |-> ev.side, owner |-> e.owner, exchange |-> e.number, status |-> status,
   phase |-> phase, invocation |-> ev.inv]

\* What activity_scope leaves behind: a frame, the map and its count.
Scoped(frame, m) == [frame |-> frame, entry |-> m.entry, count |-> m.count]
With(m, c, e) == [m EXCEPT !.entry[c] = e]

\* activity_forget: the count follows the deletion.
Forget(m, c) ==
  IF m.count > 0 /\ m.entry[c] # NoEntry
  THEN [m EXCEPT !.entry[c] = NoEntry, !.count = @ - 1]
  ELSE m

\* The exchange that a client JSON message begins.
Fresh(ev) == [run |-> ev.run, owner |-> ev.inst, number |-> ev.seq, state |-> 1]

\* Mutated: a second request takes the place of the one in progress.
ScopeStartReplaces(m, ev) ==
  IF m.entry[ev.c] = NoEntry /\ m.count >= AdmitMax
  THEN Scoped(Bare(ev, 5), m)
  ELSE Scoped(Keyed(ev, Fresh(ev), 1, 1),
              [With(m, ev.c, Fresh(ev)) EXCEPT
                 !.count = IF m.entry[ev.c] = NoEntry THEN @ + 1 ELSE @])

\* A client JSON message begins an exchange, or overlaps the one in progress
\* and poisons it.  The host map evicts when it is full: stop before that.
ScopeStart(m, ev) ==
  LET e == m.entry[ev.c]
  IN IF e # NoEntry /\ e.run = ev.run /\ e.owner = ev.inst /\ e.state > 0
     THEN Scoped(Keyed(ev, e, 4, 4), With(m, ev.c, [e EXCEPT !.state = 3]))
     ELSE IF e = NoEntry /\ m.count >= AdmitMax
     THEN Scoped(Bare(ev, 5), m)
     ELSE Scoped(Keyed(ev, Fresh(ev), 1, 1),
                 [With(m, ev.c, Fresh(ev)) EXCEPT
                    !.count = IF e = NoEntry THEN @ + 1 ELSE @])

\* The request headers confirm the exchange; anything else that looks like them
\* (a trailer, a second request) invalidates it.
ScopeHeaders(m, ev) ==
  LET e == m.entry[ev.c]
  IN IF e.state = 1 /\ ev.good
     THEN Scoped(Keyed(ev, e, 1, 2), With(m, ev.c, [e EXCEPT !.state = 2]))
     ELSE Scoped(Keyed(ev, e, 2, 4), With(m, ev.c, [e EXCEPT !.state = 3]))

Scope(m, ev) ==
  LET e == m.entry[ev.c]
      mine == e # NoEntry /\ e.run = ev.run /\ e.number > 0
  IN CASE ev.fails > 0 ->
            Scoped([Bare(ev, 6) EXCEPT !.side = 0, !.invocation = 0], m)
       [] ev.fails = 0 /\ ev.code = 57 /\ ev.side = 1 ->
            Scoped(IF mine THEN Keyed(ev, e, 1, 4) ELSE Bare(ev, 0), Forget(m, ev.c))
       [] ev.fails = 0 /\ ev.part = "method" /\ ev.side = 1 -> ScopeStart(m, ev)
       [] OTHER ->
            IF ~mine \/ (ev.part # "http_response" /\ e.owner # ev.inst)
            THEN Scoped(Bare(ev, 0), m)
            ELSE IF ev.code \in {1, 5} THEN Scoped(Keyed(ev, e, 1, 4), Forget(m, ev.c))
            ELSE IF e.state = 3 THEN Scoped(Bare(ev, 4), m)
            ELSE IF ev.code = 142 /\ ev.side = 1 THEN ScopeHeaders(m, ev)
            ELSE IF ev.side = 2 /\ e.state # 2 THEN Scoped(Bare(ev, 0), m)
            ELSE IF ev.code = 29 /\ ev.side = 1
            THEN Scoped(Keyed(ev, e, 1, 3), Forget(m, ev.c))
            ELSE Scoped(Keyed(ev, e, 1, 2), m)

\* The event as the record of a reader tells it: who saw it, as the how manyth, and
\* in which invocation.
Stamped(ev, p, q) ==
  [c |-> ev.c, req |-> ev.req, hidden |-> ev.hidden, side |-> ev.side, part |-> ev.part,
   code |-> ev.code, good |-> ev.good, inst |-> q.inst, rev |-> q.rev, run |-> q.run,
   fails |-> q.fails, seq |-> q.calls + 1,
   inv |-> IF p = "http" THEN q.calls + 1 ELSE q.calls \div 4 + 1]

\* One reader: it numbers its record, scopes it and emits it.  A record that the
\* ring refuses is gone, and counted for the records that follow.
Reader(m, p, ev, lost) ==
  LET full == Stamped(ev, p, m.prog[p])
      s == Scope(m, full)
  IN [entry |-> s.entry, count |-> s.count,
      prog |-> [m.prog EXCEPT ![p].calls = full.seq, ![p].fails = IF lost THEN @ + 1 ELSE @],
      rows |-> IF lost THEN m.rows
               ELSE Append(m.rows, [type |-> "record", source |-> source,
                                    ev |-> full, frame |-> s.frame])]

\* The map holds c for the programs that run now.
Held(c) ==
  entry[c] # NoEntry /\ entry[c].owner = prog["json"].inst /\ entry[c].run = prog["json"].run

\* What the traffic says of an event; whether it is good, which for a JSON message
\* means that the fields the exporter asks for are complete, and for an event 142
\* that it is about request headers; and whether it comes while c has a request
\* in progress that the programs have not seen begin.
Event(c, req, side, part, code, good) ==
  [c |-> c, req |-> req, side |-> side, part |-> part, code |-> code, good |-> good,
   hidden |-> wire[c] # <<>> /\ ~Held(c)]

\* activity_json runs four readers in turn; a record is lost at most once.
JsonCall(c, req, side, good, lost) ==
  LET read(m, i) == Reader(m, "json", Event(c, req, side, JsonParts[i], 0, good), lost = i)
  IN read(read(read(read(Machine, 1), 2), 3), 4)
HttpCall(c, req, side, code, good, lost) ==
  Reader(Machine, "http", Event(c, req, side, "http_response", code, good), lost = 1)

------------------------------------------------------------------------------
(* The traffic and what may happen to it *)

Cost(b) == IF b THEN 1 ELSE 0
Spend(n) == faults + n <= FaultMax /\ faults' = faults + n

\* An invocation: the map, the counters and the journal rows it leaves.
Invoke(m, lost) ==
  /\ Len(stream) <= Backlog
  /\ entry' = m.entry /\ count' = m.count /\ prog' = m.prog
  /\ stream' = stream \o m.rows
  /\ drops' = (drops \/ lost > 0)
  /\ UNCHANGED <<others, source>>

\* Requests of c, and the calm ones left when only c is disturbed, or by a loss.
Requests(c) == {wire[c][i].req : i \in 1 .. Len(wire[c])}
Disturb(c, odd, lost) == IF lost > 0 THEN {} ELSE IF odd THEN calm \ Requests(c) ELSE calm

\* A new request on c can become an exchange: the programs agree on the run and
\* have lost nothing, and the map has room.
Able(c) ==
  /\ c \notin dirty
  /\ prog["json"].run = prog["http"].run
  /\ \A p \in Programs : prog[p].fails = 0
  /\ \/ entry[c] # NoEntry
     \/ Cardinality({d \in Conns : entry[d] # NoEntry}) + others < AdmitMax

\* A client JSON message: a new request, pipelined behind another or not.
ClientJson(c, good, lost) ==
  LET overlap == wire[c] # <<>>
      req == made + 1
      mixed == prog["json"].run # prog["http"].run
  IN /\ made < RequestMax /\ Len(wire[c]) < 2
     /\ Spend(Cost(overlap) + Cost(~good) + Cost(lost > 0))
     /\ Invoke(JsonCall(c, req, 1, good, lost), lost)
     /\ made' = req
     /\ wire' = [wire EXCEPT ![c] = Append(@, [req |-> req, asked |-> FALSE,
                                                answered |-> FALSE, headed |-> FALSE])]
     /\ calm' = Disturb(c, overlap, lost) \union
                  (IF lost = 0 /\ good /\ ~overlap /\ Able(c) THEN {req} ELSE {})
     /\ dirty' = IF overlap \/ mixed THEN dirty \union {c} ELSE dirty

\* The request-header event of a request; a second one, or one that is not a
\* request header, is an anomaly.
Headers(c, good, lost) ==
  LET i == IF wire[c][1].asked THEN Len(wire[c]) ELSE 1
      odd == wire[c][i].asked \/ ~good
  IN /\ wire[c] # <<>>
     /\ Spend(Cost(odd) + Cost(lost > 0))
     /\ Invoke(HttpCall(c, wire[c][i].req, 1, 142, good, lost), lost)
     /\ wire' = [wire EXCEPT ![c][i].asked = TRUE]
     /\ calm' = Disturb(c, odd, lost)
     /\ dirty' = IF odd THEN dirty \union {c} ELSE dirty
     /\ UNCHANGED made

\* The server's JSON message answers the oldest request of the connection; one
\* before the request headers or after the answer is an anomaly.
ServerJson(c, good, lost) ==
  LET r == wire[c][1]
      odd == ~r.asked \/ r.answered
  IN /\ wire[c] # <<>>
     /\ Spend(Cost(odd) + Cost(~good) + Cost(lost > 0))
     /\ Invoke(JsonCall(c, r.req, 2, good, lost), lost)
     /\ wire' = [wire EXCEPT ![c][1].answered = TRUE]
     /\ calm' = Disturb(c, odd \/ ~good, lost)
     /\ UNCHANGED <<made, dirty>>

\* The response-header event, on the client side.
ResponseHeaders(c, lost) ==
  /\ wire[c] # <<>> /\ wire[c][1].answered /\ ~wire[c][1].headed
  /\ Spend(Cost(lost > 0))
  /\ Invoke(HttpCall(c, wire[c][1].req, 1, 28, TRUE, lost), lost)
  /\ wire' = [wire EXCEPT ![c][1].headed = TRUE]
  /\ calm' = Disturb(c, FALSE, lost)
  /\ UNCHANGED <<made, dirty>>

\* The response-done event ends the oldest request; a response without an answer
\* is an anomaly.
ResponseDone(c, lost) ==
  LET odd == ~wire[c][1].headed
  IN /\ wire[c] # <<>>
     /\ Spend(Cost(odd) + Cost(lost > 0))
     /\ Invoke(HttpCall(c, wire[c][1].req, 1, 29, TRUE, lost), lost)
     /\ wire' = [wire EXCEPT ![c] = Tail(@)]
     /\ calm' = Disturb(c, odd, lost)
     /\ UNCHANGED <<made, dirty>>

\* Initialization (on the server side, say), abort and teardown end whatever is in
\* progress.
Breaks == {<<1, 2>>, <<5, 1>>, <<57, 1>>}
Break(c, how, lost) ==
  /\ wire[c] # <<>> \/ c \in dirty
  /\ Spend(1 + Cost(lost > 0))
  /\ Invoke(HttpCall(c, 0, how[2], how[1], TRUE, lost), lost)
  /\ wire' = [wire EXCEPT ![c] = <<>>]
  /\ calm' = Disturb(c, TRUE, lost)
  /\ dirty' = IF how[1] = 57 \/ prog["json"].run = prog["http"].run
              THEN dirty \ {c} ELSE dirty
  /\ UNCHANGED made

\* Any other event of the HTTP handler, on either side.
OtherEvent(c, side, lost) ==
  /\ wire[c] # <<>>
  /\ Spend(1 + Cost(lost > 0))
  /\ Invoke(HttpCall(c, wire[c][1].req, side, 0, TRUE, lost), lost)
  /\ calm' = Disturb(c, FALSE, lost)
  /\ UNCHANGED <<wire, made, dirty>>

Traffic ==
  \E c \in Conns :
    \/ \E lost \in Losses \union {0}, good \in BOOLEAN :
         ClientJson(c, good, lost) \/ ServerJson(c, good, lost)
    \/ \E lost \in 0 .. 1 :
         \/ \E good \in BOOLEAN : Headers(c, good, lost)
         \/ ResponseHeaders(c, lost)
         \/ ResponseDone(c, lost)
         \/ \E how \in Breaks : Break(c, how, lost)
         \/ \E side \in {1, 2} : OtherEvent(c, side, lost)

\* Rows of the journal that are not records of an exchange: the padding of a ring
\* wrap, the gap the reader reports when it finds that records were refused, and
\* a record of a program that found no configuration.
Diagnostic(type) == stream' = Append(stream, [type |-> type, source |-> source])
Padding ==
  /\ Len(stream) <= Backlog /\ Spend(1) /\ Diagnostic("discard")
  /\ UNCHANGED <<wire, made, entry, count, others, prog, source, drops, calm, dirty>>
Unqualified ==
  /\ Len(stream) <= Backlog /\ Spend(1) /\ Diagnostic("unqualified_record") /\ calm' = {}
  /\ UNCHANGED <<wire, made, entry, count, others, prog, source, drops, dirty>>
Gap ==
  /\ Len(stream) <= Backlog /\ drops /\ Diagnostic("observation_gap")
  /\ drops' = FALSE /\ calm' = {}
  /\ UNCHANGED <<wire, made, entry, count, others, prog, source, faults, dirty>>

\* A publish for one of the programs, with the same run token or a new one.
Publish(p, run) ==
  /\ Spend(1)
  /\ prog' = [prog EXCEPT ![p].rev = @ + 1, ![p].run = run]
  /\ calm' = {}
  /\ UNCHANGED <<wire, made, entry, count, others, source, stream, drops, dirty>>

\* The programs are loaded again: new instances, which count from the beginning,
\* with the old map or a new one.
Reload(keep) ==
  /\ Spend(1)
  /\ prog' = Pair(prog["http"].inst + 1)
  /\ entry' = IF keep THEN entry ELSE [c \in Conns |-> NoEntry]
  /\ count' = (IF keep THEN count ELSE 0) /\ others' = (IF keep THEN others ELSE 0)
  /\ calm' = {} /\ dirty' = {}
  /\ UNCHANGED <<wire, made, source, stream, drops>>

\* TMM starts again: everything is as after the first load, the connections are
\* gone, and the collector journals a source boundary.
Restart ==
  /\ Len(stream) <= Backlog /\ Spend(1)
  /\ source' = source + 1
  /\ stream' = Append(stream, [type |-> "source_boundary", source |-> source + 1])
  /\ prog' = Pair(1) /\ entry' = [c \in Conns |-> NoEntry]
  /\ count' = 0 /\ others' = 0
  /\ wire' = [c \in Conns |-> <<>>] /\ drops' = FALSE
  /\ calm' = {} /\ dirty' = {}
  /\ UNCHANGED made

GroupInit ==
  /\ wire = [c \in Conns |-> <<>>] /\ made = 0
  /\ entry = [c \in Conns |-> NoEntry] /\ others \in 0 .. AdmitMax - 1 /\ count = others
  /\ prog = Pair(1) /\ source = 1
  /\ stream = <<>> /\ drops = FALSE /\ faults = 0
  /\ calm = {} /\ dirty = {}

GroupNext ==
  \/ Traffic
  \/ Padding \/ Unqualified \/ Gap
  \/ \E p \in Programs, more \in 0 .. 1 : Publish(p, prog[p].run + more)
  \/ \E keep \in BOOLEAN : Reload(keep)
  \/ Restart
==============================================================================
