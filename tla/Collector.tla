----------------------------- MODULE Collector ------------------------------
(***************************************************************************)
(* Continuous collection: the stream reader of substrate/drain/ls_stream.c *)
(* on an egress ring, the journal and the replay service of                *)
(* env/ai-traffic/stream_collector.py, their container supervisor, and a   *)
(* client that pages through the replay with a cursor of its own.          *)
(*                                                                         *)
(* The reader offers one frame at a time and moves the ring's cursor only  *)
(* after the collector has committed the frame and acknowledged it.  The   *)
(* journal's events and its checkpoints change in one transaction.  Any    *)
(* process may die between any two steps; the operator starts the          *)
(* container again, on the same journal or on a new one.                   *)
(*                                                                         *)
(* `log' keeps every event ever inserted, across expiry and journals;      *)
(* rows oldest..newest of the current journal are what a client can see.   *)
(* A TMM restart may fall between the reader's identity check and what the *)
(* reader does next; `crossed' remembers that it did.                      *)
(***************************************************************************)
EXTENDS EgressRing

CONSTANTS
  Retain,    \* Journal.retain
  PageMax,   \* rows in a replay page
  FaultMax   \* bound: crashes, restarts and new journals in one behaviour

ASSUME CollectorAssumption ==
  /\ Retain \in Nat /\ Retain >= 2 /\ PageMax \in Nat \ {0} /\ FaultMax \in Nat

VARIABLES
  inc,       \* the running TMM: pid and start time
  rpc, rd,   \* the reader: where it is, its locals
  frame,     \* the frame on its stdout, not yet taken
  ack,       \* the acknowledgement on its stdin
  cpc,       \* the collector process
  bound,     \* the TMM named by source.json, as checked at start
  journal,   \* the state table: checkpoints, and the range of retained rows
  log,       \* all events inserted so far
  client,    \* the client: journal and cursor; it was given rows past a hole
  faults, crossed

procVars == <<rpc, rd, frame, ack, cpc, bound>>
vars     == <<ringVars, inc, procVars, journal, log, client, faults, crossed>>

-----------------------------------------------------------------------------
None      == [kind |-> "none"]
Unset     == -1                    \* UINT64_MAX in last_drops; a missing row of the state table
NoReader  == [src |-> 0, last |-> Unset, cons |-> 0, prod |-> 0, step |-> 0, drops |-> 0]
NoCheck   == [pos |-> Unset, print |-> None]
NewJournalState(n) ==
  [id |-> n, source |-> 0, epoch |-> 0, ring |-> NoCheck, drops |-> NoCheck,
   oldest |-> Len(log) + 1]

\* Rows are numbered by their place in log; the journal's own ids count from
\* its first row, which shifts a cursor and nothing else.
Newest     == Len(log)
Retained   == journal.oldest .. Newest

Init ==
  /\ RingInit /\ inc = 1
  /\ rpc = "off" /\ rd = NoReader /\ frame = None /\ ack = None
  /\ cpc = "down" /\ bound = 0
  /\ log = << >>
  /\ journal = [id |-> 1, source |-> 0, epoch |-> 0, ring |-> NoCheck, drops |-> NoCheck,
                oldest |-> 1]
  /\ client = [journal |-> 1, after |-> 0, skipped |-> FALSE]
  /\ faults = 0 /\ crossed = FALSE

-----------------------------------------------------------------------------
(* The supervisor and the collector's start.                               *)

\* The operator writes source.json for the running TMM and starts the
\* container; source_check passes.
Start ==
  /\ cpc = "down"
  /\ cpc' = "checked" /\ bound' = inc
  /\ UNCHANGED <<ringVars, inc, rpc, rd, frame, ack, journal, log, client, faults, crossed>>

\* collect opens the journal, finds the segment and starts the reader, which
\* compares the producer's start time and prints its source frame.
Spawn ==
  /\ cpc = "checked"
  /\ cpc' = "read" /\ ack' = None
  /\ rd' = [NoReader EXCEPT !.src = bound]
  /\ IF bound = inc THEN rpc' = "hello" /\ frame' = [kind |-> "source", src |-> bound]
                    ELSE rpc' = "failed" /\ frame' = None
  /\ UNCHANGED <<ringVars, inc, bound, journal, log, client, faults, crossed>>

\* The end of the collector ends the reader (PDEATHSIG, terminate), and a
\* component that exits ends the container.
Down == cpc' = "down" /\ bound' = 0 /\ rpc' = "off" /\ rd' = NoReader /\ frame' = None /\ ack' = None

\* The collector reads end-of-file from a reader that failed.
ReaderGone ==
  /\ cpc = "read" /\ rpc = "failed" /\ frame.kind = "none"
  /\ Down
  /\ UNCHANGED <<ringVars, inc, journal, log, client, faults, crossed>>

-----------------------------------------------------------------------------
(* The reader.                                                             *)

Fails == rpc' = "failed" /\ UNCHANGED <<rd, frame, ack>>

\* same_source: the pinned producer still runs.
SameSource == inc = rd.src

\* Mutated form: the count is sampled again when the frame was acknowledged.
AcknowledgedResamples ==
  /\ rpc \in {"hello", "health", "wait"} /\ ack = [kind |-> "ack"]
  /\ IF ~SameSource THEN Fails
     ELSE /\ ack' = None /\ UNCHANGED frame
          /\ rpc' = CASE rpc = "hello" -> "poll" [] rpc = "health" -> "pos" [] rpc = "wait" -> "store"
          /\ rd' = IF rpc = "health" THEN [rd EXCEPT !.last = drops] ELSE rd
  /\ UNCHANGED <<ringVars, inc, cpc, bound, journal, log, client, faults, crossed>>

\* acknowledge: the matching line arrived and the source is still the same.
Acknowledged ==
  /\ rpc \in {"hello", "health", "wait"} /\ ack = [kind |-> "ack"]
  /\ IF ~SameSource THEN Fails
     ELSE /\ ack' = None /\ UNCHANGED frame
          /\ rpc' = CASE rpc = "hello" -> "poll" [] rpc = "health" -> "pos" [] rpc = "wait" -> "store"
          /\ rd' = IF rpc = "health" THEN [rd EXCEPT !.last = rd.drops] ELSE rd
  /\ UNCHANGED <<ringVars, inc, cpc, bound, journal, log, client, faults, crossed>>

\* The top of the loop, and the drop count of the ring.
Poll ==
  /\ rpc = "poll"
  /\ IF ~SameSource THEN Fails ELSE rpc' = "drops" /\ UNCHANGED <<rd, frame, ack>>
  /\ UNCHANGED <<ringVars, inc, cpc, bound, journal, log, client, faults, crossed>>

LoadDrops ==
  /\ rpc = "drops"
  /\ rd' = [rd EXCEPT !.drops = drops]
  /\ IF drops = rd.last THEN rpc' = "pos" /\ UNCHANGED frame
     ELSE rpc' = "health" /\ frame' = [kind |-> "ring_health", drops |-> drops]
  /\ UNCHANGED <<ringVars, inc, ack, cpc, bound, journal, log, client, faults, crossed>>

\* cons is loaded before prod: only this reader moves cons.
LoadPositions ==
  /\ rpc = "pos"
  /\ IF cons > prod \/ prod - cons > Size THEN Fails
     ELSE /\ rpc' = IF cons = prod THEN "poll" ELSE "header"
          /\ rd' = [rd EXCEPT !.cons = cons, !.prod = prod]
          /\ UNCHANGED <<frame, ack>>
  /\ UNCHANGED <<ringVars, inc, cpc, bound, journal, log, client, faults, crossed>>

\* Mutated form: the cursor moves as the frame is printed, as in the legacy drain.
LoadHeaderConsumes ==
  /\ rpc = "header"
  /\ LET h == cell[Off(rd.cons)] IN
     /\ rpc' = "wait" /\ cons' = rd.cons + h.len
     /\ rd' = [rd EXCEPT !.cons = rd.cons + h.len, !.step = 0]
     /\ frame' = [kind |-> IF h.discard THEN "discard" ELSE "record",
                  begin |-> rd.cons, end |-> rd.cons + h.len, id |-> h.id]
  /\ UNCHANGED <<prod, drops, cell, epc, emit, emitted, overrun, inc, ack, cpc, bound, journal,
                 log, client, faults, crossed>>

\* The header at cons, its checks, and the frame.
LoadHeader ==
  /\ rpc = "header"
  /\ LET h == cell[Off(rd.cons)] IN
     IF h.busy THEN rpc' = "poll" /\ UNCHANGED <<rd, frame, ack>>
     ELSE IF h.len > Size - Off(rd.cons) \/ h.len > rd.prod - rd.cons \/ h.len = 0 THEN Fails
     ELSE /\ rpc' = "wait" /\ UNCHANGED ack
          /\ rd' = [rd EXCEPT !.step = h.len]
          /\ frame' = [kind |-> IF h.discard THEN "discard" ELSE "record",
                       begin |-> rd.cons, end |-> rd.cons + h.len, id |-> h.id]
  /\ UNCHANGED <<ringVars, inc, cpc, bound, journal, log, client, faults, crossed>>

\* Nobody else moved the cursor; it is moved past the record.
StoreCons ==
  /\ rpc = "store"
  /\ IF cons # rd.cons THEN Fails /\ UNCHANGED cons
     ELSE cons' = rd.cons + rd.step /\ rpc' = "poll" /\ UNCHANGED <<rd, frame, ack>>
  /\ UNCHANGED <<prod, drops, cell, epc, emit, emitted, overrun, inc, cpc, bound, journal, log,
                 client, faults, crossed>>

Reader == Acknowledged \/ Poll \/ LoadDrops \/ LoadPositions \/ LoadHeader \/ StoreCons

-----------------------------------------------------------------------------
(* Journal.accept and the acknowledgement.                                 *)

\* Journal.insert: expire down to retain - 1 rows, then add one.
Insert(j, event) ==
  /\ log' = Append(log, event)
  /\ journal' = [j EXCEPT !.oldest = IF Newest - j.oldest + 1 > Retain - 1
                                     THEN Newest - Retain + 2 ELSE j.oldest]

\* A source the journal does not know starts a new epoch without checkpoints.
AcceptSource ==
  /\ frame.kind = "source"
  /\ IF journal.source = frame.src THEN UNCHANGED <<journal, log>>
     ELSE LET e == Len(log) + 1 IN
          Insert([journal EXCEPT !.source = frame.src, !.epoch = e,
                                 !.ring = NoCheck, !.drops = NoCheck],
                 [kind |-> "source_boundary", epoch |-> e, src |-> frame.src])

Position == IF frame.kind = "ring_health" THEN frame.drops ELSE frame.end
Previous == IF frame.kind = "ring_health" THEN journal.drops ELSE journal.ring

\* The frame is the one at the checkpoint, offered again.
Repeated == Position = Previous.pos /\ Previous.print = frame

\* Mutated form: a repeated frame is refused as well.
RefusedRepeats ==
  /\ Previous.pos # Unset
  /\ \/ Position <= Previous.pos
     \/ Position > Previous.pos /\ frame.kind # "ring_health" /\ frame.begin # Previous.pos

\* What accept raises on: a position that went back, other bytes at the
\* checkpoint, a gap before the record.
Refused ==
  /\ Previous.pos # Unset
  /\ \/ Position < Previous.pos
     \/ Position = Previous.pos /\ Previous.print # frame
     \/ Position > Previous.pos /\ frame.kind # "ring_health" /\ frame.begin # Previous.pos

\* Mutated form: the checkpoint is left to a later transaction.
CheckpointedLater == journal

\* The state after the frame: its checkpoint belongs to the same transaction.
Checkpointed ==
  LET c == [pos |-> Position, print |-> frame] IN
  IF frame.kind = "ring_health" THEN [journal EXCEPT !.drops = c] ELSE [journal EXCEPT !.ring = c]

AcceptFrame ==
  /\ frame.kind \in {"record", "discard", "ring_health"}
  /\ ~Refused
  /\ IF Repeated THEN UNCHANGED <<journal, log>>
     ELSE Insert(Checkpointed, [frame |-> frame, kind |-> frame.kind, epoch |-> journal.epoch,
                                src |-> journal.source])

\* One frame is taken and committed.
Commit ==
  /\ cpc = "read" /\ frame.kind # "none"
  /\ AcceptSource \/ AcceptFrame
  /\ cpc' = "ack" /\ frame' = None
  /\ UNCHANGED <<ringVars, inc, rpc, rd, ack, bound, client, faults, crossed>>

\* accept raises; collect ends without an acknowledgement.
Refuse ==
  /\ cpc = "read" /\ frame.kind \in {"record", "discard", "ring_health"} /\ Refused
  /\ Down
  /\ UNCHANGED <<ringVars, inc, journal, log, client, faults, crossed>>

SendAck ==
  /\ cpc = "ack"
  /\ ack' = [kind |-> "ack"] /\ cpc' = "read"
  /\ UNCHANGED <<ringVars, inc, rpc, rd, frame, bound, journal, log, client, faults, crossed>>

-----------------------------------------------------------------------------
(* The replay service and its client.                                      *)

\* Mutated form: an old cursor is not told.
GapNever(after) == FALSE

\* The request's cursor lies before the retained rows.
Gap(after) == after < journal.oldest - 1

\* A cursor of another journal, or one whose successor is no longer there,
\* is refused; the client then asks without a cursor, which starts before the
\* oldest row.
ClientRefused ==
  /\ client.journal # journal.id \/ Gap(client.after)
  /\ client' = [client EXCEPT !.journal = journal.id, !.after = journal.oldest - 1]
  /\ UNCHANGED <<ringVars, inc, procVars, journal, log, faults, crossed>>

\* A page of rows after the cursor.
ClientPage ==
  /\ client.journal = journal.id /\ ~Gap(client.after)
  /\ LET rows == {i \in Retained : i > client.after}
         page == {i \in rows : Cardinality({k \in rows : k < i}) < PageMax} IN
     /\ page # {}
     /\ client' = [client EXCEPT
                     !.after = CHOOSE i \in page : \A k \in page : k <= i,
                     !.skipped = @ \/ client.after + 1 \notin page]
  /\ UNCHANGED <<ringVars, inc, procVars, journal, log, faults, crossed>>

Client == ClientRefused \/ ClientPage

-----------------------------------------------------------------------------
(* The environment.                                                        *)

Fault == faults < FaultMax /\ faults' = faults + 1

\* SIGKILL, a commit that fails for want of pages, a reader that dies: the
\* container ends.
Crash ==
  /\ cpc # "down" /\ Fault /\ Down
  /\ UNCHANGED <<ringVars, inc, journal, log, client, crossed>>

\* The volume is replaced while the container is stopped.
ReplaceJournal ==
  /\ cpc = "down" /\ Fault
  /\ journal' = NewJournalState(journal.id + 1)
  /\ UNCHANGED <<ringVars, inc, procVars, log, client, crossed>>

\* The places between an identity check and the last use it protects.
Window == {"drops", "pos", "header", "store"}

TmmRestart ==
  /\ Fault
  /\ inc' = inc + 1 /\ RingReset
  /\ crossed' = (crossed \/ rpc \in Window)
  /\ UNCHANGED <<procVars, journal, log, client>>

Producer == Emit /\ UNCHANGED <<inc, procVars, journal, log, client, faults, crossed>>

Next ==
  \/ Producer \/ Start \/ Spawn \/ ReaderGone \/ Reader
  \/ Commit \/ Refuse \/ SendAck \/ Client
  \/ Crash \/ ReplaceJournal \/ TmmRestart

Spec == Init /\ [][Next]_vars

\* The processes run while they are up, an emit ends, and the operator starts
\* a stopped container again.  The client may never come back.
Finishes == EmitOn /\ UNCHANGED <<inc, procVars, journal, log, client, faults, crossed>>
FairSpec ==
  /\ Spec
  /\ WF_vars(Finishes) /\ WF_vars(Start) /\ WF_vars(Spawn) /\ WF_vars(ReaderGone)
  /\ WF_vars(Reader) /\ WF_vars(Commit) /\ WF_vars(Refuse) /\ WF_vars(SendAck)

-----------------------------------------------------------------------------
(* Properties.                                                             *)

\* The frames of the reader, the checkpoints and the events of the journal.
RingFrames   == [kind : {"record", "discard"}, begin : Nat, end : Nat, id : Nat]
HealthFrames == [kind : {"ring_health"}, drops : Nat]
Frames == [kind : {"source"}, src : Nat] \union HealthFrames \union RingFrames
Checks == [pos : Nat \union {Unset}, print : Frames \union {None}]
Events == [kind : {"source_boundary"}, epoch : Nat, src : Nat]
            \union [kind : {"ring_health"}, frame : HealthFrames, epoch : Nat, src : Nat]
            \union [kind : {"record", "discard"}, frame : RingFrames, epoch : Nat, src : Nat]

ProcTypes ==
  /\ rpc \in {"off", "hello", "poll", "drops", "health", "pos", "header", "wait", "store", "failed"}
  /\ rd \in [src : Nat, last : Nat \union {Unset}, cons : Nat, prod : Nat, step : Nat, drops : Nat]
  /\ frame \in Frames \union {None} /\ ack \in {None, [kind |-> "ack"]}
  /\ cpc \in {"down", "checked", "read", "ack"} /\ bound \in Nat
JournalTypes ==
  /\ journal \in [id : Nat \ {0}, source : Nat, epoch : Nat, ring : Checks, drops : Checks, oldest : Nat]
  /\ log \in Seq(Events) /\ journal.oldest \in 1 .. Newest + 1

\* The type of every variable.
TypeOK ==
  /\ RingTypeOK /\ ProcTypes /\ JournalTypes
  /\ inc \in 1 .. FaultMax + 1 /\ faults \in 0 .. FaultMax /\ crossed \in BOOLEAN
  /\ client \in [journal : Nat, after : Nat, skipped : BOOLEAN]

\* The places in the log of the records of incarnation k, journalled by all
\* journals together.
Journalled(k) == {i \in 1 .. Len(log) : log[i].kind = "record" /\ log[i].src = k}
InJournal(r)  == \E i \in Journalled(inc) : log[i].frame.id = r.id

\* The k-th record of the ring, as the reader frames it.
RecordFrame(k) == [kind |-> "record", begin |-> emitted[k].begin, end |-> emitted[k].end,
                   id |-> emitted[k].id]

\* The records of the running TMM appear in the journal once each, from the
\* first one on, in the order they were emitted and with the positions they
\* were emitted at, whatever crashed between commit and acknowledgement.  A
\* replaced journal may see the record at the cursor again.
JournalExact ==
  ~crossed /\ ~overrun =>
    \A i \in Journalled(inc) :
      \E k \in 1 .. Len(emitted) :
        /\ log[i].frame = RecordFrame(k)
        /\ (\A h \in Journalled(inc) : h >= i) => k = 1
        /\ \A h \in Journalled(inc) :
             h < i /\ (\A g \in Journalled(inc) : g <= h \/ g >= i) =>
               \/ k > 1 /\ log[h].frame = RecordFrame(k - 1)
               \/ journal.id > 1 /\ log[h].frame = RecordFrame(k)

\* The cursor of the ring never passes a record that is not in a journal: what
\* the producer may overwrite has been committed.
ConsumedIsJournalled ==
  ~crossed /\ ~overrun =>
    \A k \in 1 .. Len(emitted) : emitted[k].end <= cons => InJournal(emitted[k])

\* What ls_tp_ring.h promises of a full ring: a counted gap, never a silent
\* one.  The same statement without the proviso about the padding.
NeverSilentGap ==
  ~crossed => \A k \in 1 .. Len(emitted) : emitted[k].end <= cons => InJournal(emitted[k])

\* A client that reads on is never given rows behind ones it has not seen: it
\* is told of the gap first.
ReplayHonest == ~client.skipped

\* A record that was emitted is journalled in the end, unless its TMM is
\* replaced first, or the padding damaged the ring.
EmittedIsJournalled ==
  \A n \in 1 .. EmitMax :
    (\E i \in 1 .. Len(emitted) : emitted[i].id = n) ~>
      \/ overrun \/ crossed
      \/ \A i \in 1 .. Len(emitted) : emitted[i].id # n
      \/ InJournal([id |-> n])

\* A count of dropped records comes to the journal in the end, or a higher one.
DropsAreJournalled ==
  \A n \in 1 .. EmitMax :
    drops = n ~> \/ overrun \/ crossed \/ drops < n
                 \/ \E i \in 1 .. Len(log) : log[i].kind = "ring_health"
                      /\ log[i].src = inc /\ log[i].frame.drops >= n

\* Nothing that happens on the ring is lost to the journal without a trace.
EverythingJournalled == EmittedIsJournalled /\ DropsAreJournalled
=============================================================================
