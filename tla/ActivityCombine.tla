--------------------------- MODULE ActivityCombine ---------------------------
(***************************************************************************)
(* ActivityCombiner of activity_combine.py, fed with the rows that the     *)
(* programs of ActivityGroup leave in the journal.  It groups the records  *)
(* of an exchange by their explicit key and says of every group whether it *)
(* is an observed exchange or what keeps it from being one.                *)
(*                                                                         *)
(* The collector hands out consecutive rows, once each (JournalExact and   *)
(* ReplayHonest of Collector), so the cursor checks of feed never fire.    *)
(* The timing fields, which never change the status of a group, and the    *)
(* client TLS readings are left out.                                       *)
(***************************************************************************)
EXTENDS ActivityGroup

CONSTANTS
  Capacity,    \* pending groups, and producers, the exporter keeps
  MaxRecords   \* rows of a group

ASSUME CombineAssumption == Capacity \in Nat \ {0} /\ MaxRecords \in Nat \ {0}

VARIABLES
  pending,    \* groups, oldest first
  sequences,  \* last sequence number by producer
  ended,      \* ghost: requests whose end was in the page fed last
  out         \* what that page made the exporter print

combineVars == <<pending, sequences, ended, out>>
vars == <<groupVars, combineVars>>

Rows(s) == {s[i] : i \in 1 .. Len(s)}
Http(row) == row.ev.part = "http_response"

\* What finish looks at in a row of a group.
Kept(row) ==
  [req |-> row.ev.req, hidden |-> row.ev.hidden, part |-> row.ev.part, code |-> row.ev.code,
   good |-> row.ev.good, side |-> row.frame.side, producer |-> <<row.ev.inst, row.ev.rev>>,
   invocation |-> IF Http(row) THEN 0 ELSE row.frame.invocation]

------------------------------------------------------------------------------
(* finish *)

\* The rows of a group that come from the JSON program, and those of one field.
Json(rows) == {i \in 1 .. Len(rows) : rows[i].part # "http_response"}
Field(rows, side, part) == {i \in Json(rows) : rows[i].side = side /\ rows[i].part = part}
Response(rows, code) ==
  {i \in 1 .. Len(rows) : i \notin Json(rows) /\ rows[i].side = 1 /\ rows[i].code = code}

\* The JSON messages of one side, and the instances and revisions of a program.
Calls(rows, side) ==
  {<<rows[i].producer, rows[i].invocation>> : i \in {j \in Json(rows) : rows[j].side = side}}
Producers(rows, set) == {rows[i].producer : i \in set}

Fields == {1, 2} \X Rows(JsonParts)
If(b, name) == IF b THEN {name} ELSE {}

\* Why a group is not an observed exchange.
Issues(rows) ==
  LET json == Json(rows)
      http == 1 .. Len(rows) \ json
  IN If(\E f \in Fields : Cardinality(Field(rows, f[1], f[2])) > 1, "duplicate_field")
     \union If(\E side \in {1, 2} : Cardinality(Calls(rows, side)) # 1,
               "missing_or_multiple_json_messages")
     \union If(\E f \in Fields : Field(rows, f[1], f[2]) = {}, "missing_field")
     \union If(Cardinality(Producers(rows, json)) # 1, "json_producer_changed")
     \union If(Cardinality(Producers(rows, http)) # 1 \/ Cardinality(Response(rows, 142)) # 1,
               "missing_or_conflicting_http_confirmation")
     \union If(\E i \in json : ~rows[i].good, "incomplete_field")
     \union If(Response(rows, 28) = {} \/ Response(rows, 29) = {}, "incomplete_http")

Finish(group, reason) ==
  [event_type |-> "agent.activity.combined", key |-> group.key, rows |-> group.rows,
   issues |-> group.issues \union Issues(group.rows) \union
              (IF reason = "" THEN {} ELSE {reason})]
Observed(record) == record.event_type = "agent.activity.combined" /\ record.issues = {}

------------------------------------------------------------------------------
(* feed *)

\* What feed works on, and its two ways to print.
State == [pending |-> pending, sequences |-> sequences, out |-> {}]
Say(st, why) == [st EXCEPT !.out = @ \union {[event_type |-> why]}]
Close(st, i, reason) ==
  [st EXCEPT !.out = @ \union {Finish(st.pending[i], reason)},
             !.pending = SubSeq(@, 1, i - 1) \o SubSeq(@, i + 1, Len(@))]

\* Every group is closed, and the sequence numbers are forgotten.
Flush(st, reason) ==
  [pending |-> <<>>, sequences |-> << >>,
   out |-> st.out \union {Finish(g, reason) : g \in Rows(st.pending)}]

\* The frame agrees with the record inside it.
Valid(row) ==
  LET ev == row.ev
      f == row.frame
      expected == IF Http(row) THEN ev.seq ELSE (ev.seq - 1) \div 4 + 1
  IN /\ f.invocation \in {0, expected}
     /\ f.exchange # 0 =>
          /\ f.invocation = expected
          /\ Http(row) \/ f.owner = ev.inst
          /\ CASE f.phase = 1 -> /\ ev.part = "method" /\ f.side = 1
                                 /\ f.exchange = ev.seq /\ f.status = 1
               [] f.phase = 3 -> Http(row) /\ f.side = 1 /\ ev.code = 29 /\ f.status = 1
               [] f.phase = 4 -> \/ Http(row) /\ ev.code \in {1, 5, 57, 142}
                                 \/ ev.part = "method" /\ f.side = 1 /\ f.status = 4
               [] OTHER -> \/ Http(row)
                           \/ /\ JsonParts[((ev.seq - 1) % 4) + 1] = ev.part
                              /\ ev.part = "message_id" => ev.side = f.side

\* Mutated: the program that emits, whichever instance of it.
ProducerByProgram(row) == <<row.source, row.ev.inst % 2, row.ev.run>>

Producer(row) == <<row.source, row.ev.inst, row.ev.run>>
Key(row) == <<row.source, row.ev.run, row.frame.owner, row.frame.exchange>>
Pending(st, key) == {i \in 1 .. Len(st.pending) : st.pending[i].key = key}

\* Sequence numbers of a producer follow each other, or all groups are closed.
CheckSequence(st, row) ==
  LET p == Producer(row)
      known == p \in DOMAIN st.sequences
      gap == (known /\ row.ev.seq # st.sequences[p] + 1) \/ row.ev.fails > 0
      s1 == IF gap THEN Flush(st, "producer_gap") ELSE st
      s2 == IF Cardinality(DOMAIN s1.sequences) >= Capacity /\ p \notin DOMAIN s1.sequences
            THEN Flush(s1, "producer_capacity") ELSE s1
  IN [s2 EXCEPT !.sequences = [x \in DOMAIN @ \union {p} |-> IF x = p THEN row.ev.seq ELSE @[x]]]

\* A start makes a group, and takes the place of the oldest when there is none.
Begin(st, row) ==
  LET s1 == IF Len(st.pending) >= Capacity THEN Close(st, 1, "capacity") ELSE st
  IN [s1 EXCEPT !.pending = Append(@, [key |-> Key(row), rows |-> <<>>, issues |-> {},
                                       confirmed |-> FALSE])]

\* A row of a pending group, which an end, an invalidation or a limit closes.
Extend(st, row, i) ==
  LET g == st.pending[i]
      f == row.frame
      confirmed == g.confirmed \/ (Http(row) /\ row.ev.code = 142 /\ f.side = 1 /\ f.status = 1)
      issues == g.issues
                \union If(~Http(row) /\ f.side = 2 /\ ~confirmed, "reply_before_http_confirmation")
                \union If(f.status # 1, "invalid_group")
      s1 == [st EXCEPT !.pending[i] = [key |-> g.key, rows |-> Append(g.rows, Kept(row)),
                                       issues |-> issues, confirmed |-> confirmed]]
  IN IF f.phase \in {3, 4} THEN Close(s1, i, IF f.phase = 4 THEN "invalidated" ELSE "")
     ELSE IF Len(g.rows) + 1 >= MaxRecords THEN Close(s1, i, "record_capacity")
     ELSE s1

Group(st, row) ==
  LET starts == row.frame.phase = 1
      there == Pending(st, Key(row)) # {}
      s1 == IF starts THEN Begin(st, row) ELSE st
  IN IF starts /\ there
     THEN Say(Close(st, CHOOSE i \in Pending(st, Key(row)) : TRUE, "duplicate_start"),
              "agent.activity")
     ELSE IF ~starts /\ ~there THEN Say(st, "unobserved_start")
     ELSE Extend(s1, row, CHOOSE i \in Pending(s1, Key(row)) : TRUE)

\* unwrap: the parts of a frame agree with each other.
Unwraps(f) ==
  /\ f.side \in 0 .. 2 /\ f.status \in 0 .. 6 /\ f.phase \in 0 .. 4
  /\ (f.owner # 0) = (f.exchange # 0) /\ (f.phase # 0) = (f.exchange # 0)
  /\ f.exchange # 0 => f.side # 0 /\ f.invocation # 0
  /\ f.status = 1 => f.exchange # 0

\* project_event: what the exporter takes a row of the journal for.
Projected(row) ==
  IF row.type # "record" THEN row.type
  ELSE IF Unwraps(row.frame) THEN "agent.activity" ELSE "malformed_record"

\* Mutated: a discard closes the groups too.
DiagnoseDiscards(st, row) ==
  Say(Flush(st, "diagnostic_or_unqualified_record"), Projected(row))

\* A row that is not a record.  A discard may be the padding of a ring wrap and
\* closes nothing (nor does the ring_health row of a ring without drops, which the
\* journal holds once and the model leaves out); every other diagnostic does.
Diagnose(st, row) ==
  Say(IF row.type = "discard" THEN st ELSE Flush(st, "diagnostic_or_unqualified_record"),
      Projected(row))

FeedRow(st, row) ==
  IF Projected(row) # "agent.activity" THEN Diagnose(st, row)
  ELSE IF ~Valid(row) THEN Say(Flush(st, "invalid_frame_binding"), "invalid_frame_binding")
  ELSE LET p == Producer(row)
           regressed == p \in DOMAIN st.sequences /\ row.ev.seq <= st.sequences[p]
           s1 == CheckSequence(st, row)
       IN IF regressed
          THEN [Say(Flush(st, "duplicate_or_regressed_sequence"),
                    "duplicate_or_regressed_sequence")
                  EXCEPT !.sequences = [x \in {p} |-> st.sequences[x]]]
          ELSE IF row.frame.exchange = 0 THEN Say(s1, "agent.activity")
          ELSE Group(s1, row)

\* The requests whose groups a limit of the exporter closes at this row.
Limits == {"capacity", "producer_capacity", "record_capacity"}
Squeezed(st) ==
  UNION {{r.req : r \in Rows(o.rows)} :
           o \in {x \in st.out : x.event_type = "agent.activity.combined"
                                 /\ x.issues \intersect Limits # {}}}

------------------------------------------------------------------------------
(* The exporter *)

\* What feed has come to after n rows of a page.
Fed(page, n) ==
  LET st[i \in 0 .. n] == IF i = 0 THEN State ELSE FeedRow(st[i - 1], page[i])
  IN st[n]

\* A page of n rows.  One that leaves rows behind counts against FaultMax.
Feed(n) ==
  LET page == SubSeq(stream, 1, n)
      st == Fed(page, n)
  IN /\ Spend(Cost(n < Len(stream)))
     /\ stream' = SubSeq(stream, n + 1, Len(stream))
     /\ pending' = st.pending /\ sequences' = st.sequences
     /\ ended' = {r.ev.req : r \in {x \in Rows(page) : x.type = "record" /\ x.ev.code = 29}}
     /\ out' = st.out
     /\ calm' = calm \ Squeezed(st)
     /\ UNCHANGED <<wire, made, entry, count, others, prog, source, drops, dirty>>

\* The exporter ends, which closes its groups, and is started again after the
\* last row it has read.
RestartExporter ==
  /\ Spend(1)
  /\ pending' = <<>> /\ sequences' = << >>
  /\ ended' = {} /\ out' = Flush(State, "end_of_input").out
  /\ calm' = {}
  /\ UNCHANGED <<wire, made, entry, count, others, prog, source, stream, drops, dirty>>

Init ==
  /\ GroupInit
  /\ pending = <<>> /\ sequences = << >>
  /\ ended = {} /\ out = {}

Next ==
  \/ GroupNext /\ UNCHANGED <<pending, sequences>> /\ ended' = {} /\ out' = {}
  \/ \E n \in 1 .. Len(stream) : Feed(n)
  \/ RestartExporter

Spec == Init /\ [][Next]_vars

------------------------------------------------------------------------------
(* Properties *)

\* The order of the records in an observed exchange.
Whole(rows) ==
  \E start, headers, answer, done \in 1 .. Len(rows) :
    /\ start < headers /\ headers < answer /\ answer + 3 < done /\ done = Len(rows)
    /\ rows[headers].code = 142 /\ rows[done].code = 29
    /\ \A i \in 1 .. 4 :
         /\ rows[start + i - 1].part = JsonParts[i] /\ rows[start + i - 1].side = 1
         /\ rows[answer + i - 1].part = JsonParts[i] /\ rows[answer + i - 1].side = 2

\* A record that says observed_exchange is about one request: all its rows belong
\* to it, among them one whole client message, then the request headers, then one
\* whole server message, then the end.  Neither pipelined requests, connections
\* used again, lost records, reloads nor an exporter that starts late mix two.
\* Only a request pipelined behind one that the programs did not see begin is out
\* of their reach.
OneExchange ==
  \A record \in {o \in out : Observed(o)} :
    /\ Whole(record.rows)
    /\ record.rows[1].hidden \/
         \A r \in Rows(record.rows) : r.req = record.rows[1].req

\* An undisturbed request is reported: when its end is read, the exporter prints
\* the observed exchange, whatever happens on the other connections.
Reported ==
  \A req \in ended \intersect calm :
    \E record \in out : Observed(record) /\ record.rows[1].req = req

\* The programs and the exporter agree on the frame: no row that the programs
\* emit is refused as a frame that contradicts itself, that does not fit its record
\* or that was seen before.
FramesAccepted ==
  \A o \in out :
    o.event_type \notin
      {"malformed_record", "invalid_frame_binding", "duplicate_or_regressed_sequence"}
==============================================================================
