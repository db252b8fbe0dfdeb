------------------------ MODULE ActivityGroup_proofs ------------------------
(***************************************************************************)
(* What the activity programs leave for the exporter, for every number of  *)
(* connections, requests and faults: the lemmas that the theorems of       *)
(* ActivityCombine_proofs rest on.  GroupNextDoes sums them up.            *)
(*                                                                         *)
(* Producing says what holds between two invocations.  Log: the rows in the*)
(* stream are well formed, their sequence numbers grow and are ahead of the*)
(* ones that the exporter knows, and the fields of a message follow each   *)
(* other.  Traced: the records of an exchange, in the stream or in a pending*)
(* group, have numbers behind the counters of the programs, and those with *)
(* an answer are about the request that the connection in the map carries. *)
(***************************************************************************)
EXTENDS ActivityCombine, SequenceTheorems, FiniteSetTheorems, WellFoundedInduction, TLAPS

-----------------------------------------------------------------------------
(* What an invocation works on.                                            *)

Pos    == Nat \ {0}
Parts  == {"method", "operation_target", "message_id", "reply", "http_response"}
Entry  == {NoEntry} \union [run : Pos, owner : Pos, number : Pos, state : 1 .. 3]
Bind   == [inst : Pos, rev : Nat, run : Pos, calls : Nat, fails : Nat]
Happens == [c : Conns, req : Nat, side : {1, 2}, part : Parts, code : Nat, good : BOOLEAN,
            hidden : BOOLEAN]
Ev     == [c : Conns, req : Nat, hidden : BOOLEAN, side : {1, 2}, part : Parts, code : Nat,
           good : BOOLEAN, inst : Pos, rev : Nat, run : Pos, fails : Nat, seq : Pos, inv : Pos]
Frame  == [side : 0 .. 2, owner : Nat, exchange : Nat, status : 0 .. 6, phase : 0 .. 4,
           invocation : Nat]
Record == [type : {"record"}, source : Nat, ev : Ev, frame : Frame]
Notice == [type : {"discard", "unqualified_record", "observation_gap", "source_boundary"},
           source : Nat]
Row    == Record \union Notice

Machines == [entry : [Conns -> Entry], count : Nat, prog : [Programs -> Bind], rows : Seq(Row)]
Entries(m) == {c \in Conns : m.entry[c] # NoEntry}
MapOk(m) ==
  /\ m.entry \in [Conns -> Entry] /\ m.count \in Nat
  /\ IsFiniteSet(Entries(m)) /\ Cardinality(Entries(m)) <= m.count

\* What a reader tells of an event.
Told(ev) ==
  /\ ev \in Ev
  /\ ev.part = "http_response" => ev.inv = ev.seq
  /\ ev.part # "http_response" =>
       /\ ev.code = 0 /\ ev.inv = (ev.seq - 1) \div 4 + 1
       /\ ev.part = JsonParts[((ev.seq - 1) % 4) + 1]

-----------------------------------------------------------------------------
(* What activity_scope makes of an event, by the entry of its connection.  *)

Mine(m, ev) ==
  /\ m.entry[ev.c] # NoEntry /\ m.entry[ev.c].run = ev.run /\ ev.fails = 0
  /\ ev.part # "http_response" => m.entry[ev.c].owner = ev.inst
Keeps(m, s) == s.entry = m.entry /\ s.count = m.count
Forgets(m, ev, s) ==
  /\ s.entry = [m.entry EXCEPT ![ev.c] = NoEntry]
  /\ s.count = IF m.entry[ev.c] # NoEntry THEN m.count - 1 ELSE m.count
Turns(m, ev, s, n) ==
  /\ s.entry = [m.entry EXCEPT ![ev.c] = [m.entry[ev.c] EXCEPT !.state = n]]
  /\ s.count = m.count

IsBare(m, ev, s) ==
  /\ s.frame \in Frame /\ s.frame.owner = 0 /\ s.frame.exchange = 0 /\ s.frame.phase = 0
  /\ s.frame.status # 1 /\ s.frame.invocation \in {0, ev.inv}
  /\ Keeps(m, s) \/ (ev.code = 57 /\ Forgets(m, ev, s))
  /\ Mine(m, ev) => m.entry[ev.c].state = 3 \/ (ev.side = 2 /\ m.entry[ev.c].state # 2)
  /\ ev.part = "method" /\ ev.side = 1 /\ ev.fails = 0 => m.entry[ev.c] = NoEntry
IsStart(m, ev, s) ==
  /\ ev.part = "method" /\ ev.side = 1 /\ ev.fails = 0 /\ ~Mine(m, ev)
  /\ s.frame = Keyed(ev, Fresh(ev), 1, 1) /\ s.entry = [m.entry EXCEPT ![ev.c] = Fresh(ev)]
  /\ s.count = IF m.entry[ev.c] = NoEntry THEN m.count + 1 ELSE m.count
IsPoison(m, ev, s) ==
  /\ ev.part = "method" /\ ev.side = 1 /\ Mine(m, ev)
  /\ s.frame = Keyed(ev, m.entry[ev.c], 4, 4) /\ Turns(m, ev, s, 3)
IsConfirm(m, ev, s) ==
  /\ Mine(m, ev) /\ ev.part = "http_response" /\ ev.code = 142 /\ ev.side = 1
  /\ m.entry[ev.c].state = 1
  /\ s.frame = Keyed(ev, m.entry[ev.c], 1, 2) /\ Turns(m, ev, s, 2)
IsInvalid(m, ev, s) ==
  /\ Mine(m, ev) /\ ev.part = "http_response" /\ ev.code = 142
  /\ s.frame = Keyed(ev, m.entry[ev.c], 2, 4) /\ Turns(m, ev, s, 3)
IsBreak(m, ev, s) ==
  /\ Mine(m, ev) /\ ev.part = "http_response" /\ ev.code \in {1, 5, 57}
  /\ s.frame = Keyed(ev, m.entry[ev.c], 1, 4) /\ Forgets(m, ev, s)
IsDone(m, ev, s) ==
  /\ Mine(m, ev) /\ ev.part = "http_response" /\ ev.code = 29 /\ ev.side = 1
  /\ m.entry[ev.c].state # 3
  /\ s.frame = Keyed(ev, m.entry[ev.c], 1, 3) /\ Forgets(m, ev, s)
IsOther(m, ev, s) ==
  /\ Mine(m, ev) /\ m.entry[ev.c].state # 3 /\ (ev.side = 2 => m.entry[ev.c].state = 2)
  /\ ~(ev.side = 1 /\ (ev.part = "method" \/ ev.code \in {29, 57, 142})) /\ ev.code \notin {1, 5}
  /\ s.frame = Keyed(ev, m.entry[ev.c], 1, 2) /\ Keeps(m, s)

Outcome(m, ev, s) ==
  \/ IsBare(m, ev, s) \/ IsStart(m, ev, s) \/ IsPoison(m, ev, s) \/ IsConfirm(m, ev, s)
  \/ IsInvalid(m, ev, s) \/ IsBreak(m, ev, s) \/ IsDone(m, ev, s) \/ IsOther(m, ev, s)

\* activity_scope_delete clears the slot of a connection and counts it.
LEMMA ForgetDoes ==
  ASSUME NEW m \in Machines, MapOk(m), NEW c \in Conns
  PROVE  /\ Forget(m, c).entry = [m.entry EXCEPT ![c] = NoEntry]
         /\ Forget(m, c).count = IF m.entry[c] # NoEntry THEN m.count - 1 ELSE m.count
<1>1. CASE m.entry[c] # NoEntry
  <2>1. c \in Entries(m) BY <1>1 DEF Entries
  <2>2. Cardinality(Entries(m)) # 0 BY <2>1, FS_EmptySet DEF MapOk
  <2>3. Cardinality(Entries(m)) \in Nat BY FS_CardinalityType DEF MapOk
  <2>4. m.count > 0 BY <2>2, <2>3 DEF MapOk
  <2> QED BY <1>1, <2>4 DEF Forget, Machines
<1>2. CASE m.entry[c] = NoEntry
  <2>1. m.entry = [m.entry EXCEPT ![c] = NoEntry] BY <1>2 DEF MapOk
  <2> QED BY <1>2, <2>1 DEF Forget, Machines
<1> QED BY <1>1, <1>2

\* activity_scope ends in one of the outcomes above.
LEMMA ScopeCases ==
  ASSUME NEW m \in Machines, MapOk(m), NEW ev, Told(ev)
  PROVE  Outcome(m, ev, Scope(m, ev))
<1> DEFINE s == Scope(m, ev)
           e == m.entry[ev.c]
           mine == e # NoEntry /\ e.run = ev.run /\ e.number > 0
<1>1. ev \in Ev BY DEF Told
<1>2. e \in Entry /\ ev.c \in Conns BY <1>1 DEF MapOk, Ev
<1>3. e # NoEntry => e.number > 0 /\ e.state \in 1 .. 3 /\ e.number \in Nat /\ e.owner \in Nat
  BY <1>2 DEF Entry, Pos
<1>4. ev.fails \in Nat /\ ev.side \in {1, 2} /\ ev.inv \in Nat BY <1>1 DEF Ev, Pos
<1>5. /\ Bare(ev, 6).invocation = ev.inv /\ \A n : Scoped(n, m).entry = m.entry /\ Scoped(n, m).frame = n
  BY DEF Bare, Scoped
<1>6. \A n \in 0 .. 6 : Bare(ev, n) \in Frame /\ Bare(ev, n).owner = 0 /\ Bare(ev, n).exchange = 0
        /\ Bare(ev, n).phase = 0 /\ Bare(ev, n).status = n /\ Bare(ev, n).invocation = ev.inv
  BY <1>4 DEF Bare, Frame
<1>7. CASE ev.fails > 0
  <2>1. s = Scoped([Bare(ev, 6) EXCEPT !.side = 0, !.invocation = 0], m) BY <1>7 DEF Scope
  <2> DEFINE b == Bare(ev, 6)
             f == [b EXCEPT !.side = 0, !.invocation = 0]
  <2>a. b \in Frame /\ b.owner = 0 /\ b.exchange = 0 /\ b.phase = 0 /\ b.status = 6 BY <1>6
  <2> HIDE DEF b
  <2>b. f = [[b EXCEPT !.side = 0] EXCEPT !.invocation = 0] OBVIOUS
  <2>c. [b EXCEPT !.side = 0] \in Frame BY <2>a DEF Frame
  <2>d. f \in Frame BY <2>b, <2>c DEF Frame
  <2>2. /\ f \in Frame /\ f.owner = 0 /\ f.exchange = 0 /\ f.phase = 0 /\ f.status = 6
        /\ f.invocation = 0
    BY <2>a, <2>d DEF Frame
  <2>3. s.frame = f /\ Keeps(m, s) BY <2>1 DEF Scoped, b, Keeps
  <2> HIDE DEF f, s
  <2>4. IsBare(m, ev, s) BY <1>4, <1>7, <2>2, <2>3 DEF IsBare, Frame, Mine
  <2> QED BY <2>4 DEF Outcome, s
<1>8. CASE ev.fails = 0 /\ ev.code = 57 /\ ev.side = 1
  <2>3. ev.part = "http_response" BY <1>8 DEF Told
  <2>1. s = Scoped(IF mine THEN Keyed(ev, e, 1, 4) ELSE Bare(ev, 0), Forget(m, ev.c))
    <3>1. ~(ev.fails > 0) BY <1>8
    <3> QED BY <1>8, <2>3, <3>1 DEF Scope
  <2>2. /\ s.frame = IF mine THEN Keyed(ev, e, 1, 4) ELSE Bare(ev, 0)
        /\ Forgets(m, ev, s)
    BY <1>2, <2>1, ForgetDoes DEF Scoped, Forgets
  <2> HIDE DEF s
  <2>4. CASE mine
    <3>1. IsBreak(m, ev, s) BY <1>8, <2>2, <2>3, <2>4 DEF IsBreak, Mine
    <3> QED BY <3>1 DEF Outcome, s
  <2>5. CASE ~mine
    <3>1. IsBare(m, ev, s) BY <1>3, <1>6, <1>8, <2>2, <2>3, <2>5 DEF IsBare, Mine
    <3> QED BY <3>1 DEF Outcome, s
  <2> QED BY <2>4, <2>5
<1>9. CASE ev.fails = 0 /\ ev.part = "method" /\ ev.side = 1
  <2>0. ev.code # 57 BY <1>9 DEF Told
  <2>1. s = ScopeStart(m, ev) BY <1>9, <2>0 DEF Scope
  <2>2. CASE e # NoEntry /\ e.run = ev.run /\ e.owner = ev.inst /\ e.state > 0
    <3>1. s.frame = Keyed(ev, e, 4, 4) /\ Turns(m, ev, s, 3)
      BY <2>1, <2>2 DEF ScopeStart, Scoped, With, Turns, Machines
    <3>2. IsPoison(m, ev, s) BY <1>9, <2>2, <3>1 DEF IsPoison, Mine
    <3> QED BY <3>2 DEF Outcome
  <2>3. CASE ~(e # NoEntry /\ e.run = ev.run /\ e.owner = ev.inst /\ e.state > 0)
    <3>1. ~Mine(m, ev) BY <1>3, <1>9, <2>3 DEF Mine
    <3>2. CASE e = NoEntry /\ m.count >= AdmitMax
      <4>1. s.frame = Bare(ev, 5) /\ Keeps(m, s) BY <2>1, <2>3, <3>2 DEF ScopeStart, Scoped, Keeps
      <4>2. IsBare(m, ev, s) BY <1>6, <3>1, <3>2, <4>1 DEF IsBare
      <4> QED BY <4>2 DEF Outcome
    <3>3. CASE ~(e = NoEntry /\ m.count >= AdmitMax)
      <4>1. /\ s.frame = Keyed(ev, Fresh(ev), 1, 1)
            /\ s.entry = [With(m, ev.c, Fresh(ev)) EXCEPT
                            !.count = IF e = NoEntry THEN @ + 1 ELSE @].entry
            /\ s.count = IF e = NoEntry THEN m.count + 1 ELSE m.count
        <5> DEFINE M == [With(m, ev.c, Fresh(ev)) EXCEPT !.count = IF e = NoEntry THEN @ + 1 ELSE @]
        <5>1. s = Scoped(Keyed(ev, Fresh(ev), 1, 1), M) BY <2>1, <2>3, <3>3 DEF ScopeStart
        <5>2. M.count = IF e = NoEntry THEN m.count + 1 ELSE m.count BY DEF With, Machines
        <5> QED BY <5>1, <5>2 DEF Scoped
      <4>2. s.entry = With(m, ev.c, Fresh(ev)).entry BY <4>1 DEF With, Machines
      <4>3. With(m, ev.c, Fresh(ev)).entry = [m.entry EXCEPT ![ev.c] = Fresh(ev)]
        BY DEF With, Machines
      <4>4. IsStart(m, ev, s) BY <1>9, <3>1, <4>1, <4>2, <4>3 DEF IsStart
      <4> QED BY <4>4 DEF Outcome
    <3> QED BY <3>2, <3>3
  <2> QED BY <2>2, <2>3
<1>10. CASE ev.fails = 0 /\ ~(ev.code = 57 /\ ev.side = 1) /\ ~(ev.part = "method" /\ ev.side = 1)
  <2> DEFINE rest ==
        IF ~mine \/ (ev.part # "http_response" /\ e.owner # ev.inst)
        THEN Scoped(Bare(ev, 0), m)
        ELSE IF ev.code \in {1, 5} THEN Scoped(Keyed(ev, e, 1, 4), Forget(m, ev.c))
        ELSE IF e.state = 3 THEN Scoped(Bare(ev, 4), m)
        ELSE IF ev.code = 142 /\ ev.side = 1 THEN ScopeHeaders(m, ev)
        ELSE IF ev.side = 2 /\ e.state # 2 THEN Scoped(Bare(ev, 0), m)
        ELSE IF ev.code = 29 /\ ev.side = 1
        THEN Scoped(Keyed(ev, e, 1, 3), Forget(m, ev.c))
        ELSE Scoped(Keyed(ev, e, 1, 2), m)
  <2>1. s = rest
    <3>1. ~(ev.fails > 0) BY <1>10
    <3> QED BY <1>10, <3>1, Zenon DEF Scope
  <2>2. CASE ~mine \/ (ev.part # "http_response" /\ e.owner # ev.inst)
    <3>1. s.frame = Bare(ev, 0) /\ Keeps(m, s) BY <2>1, <2>2 DEF Scoped, Keeps
    <3>2. IsBare(m, ev, s) BY <1>3, <1>6, <1>10, <2>2, <3>1 DEF IsBare, Mine
    <3> QED BY <3>2 DEF Outcome
  <2>3. CASE mine /\ (ev.part # "http_response" => e.owner = ev.inst)
    <3>0. Mine(m, ev) BY <1>10, <2>3 DEF Mine
    <3>1. CASE ev.code \in {1, 5}
      <4>1. s.frame = Keyed(ev, e, 1, 4) /\ Forgets(m, ev, s)
        BY <1>2, <2>1, <2>3, <3>1, ForgetDoes DEF Scoped, Forgets
      <4>2. ev.part = "http_response" BY <3>1 DEF Told
      <4>3. IsBreak(m, ev, s) BY <3>0, <3>1, <4>1, <4>2 DEF IsBreak
      <4> QED BY <4>3 DEF Outcome
    <3>2. CASE ev.code \notin {1, 5} /\ e.state = 3
      <4>1. s.frame = Bare(ev, 4) /\ Keeps(m, s) BY <2>1, <2>3, <3>2 DEF Scoped, Keeps
      <4>2. IsBare(m, ev, s) BY <1>6, <1>10, <3>2, <4>1 DEF IsBare
      <4> QED BY <4>2 DEF Outcome
    <3>3. CASE ev.code \notin {1, 5} /\ e.state # 3 /\ ev.code = 142 /\ ev.side = 1
      <4>1. s = ScopeHeaders(m, ev) BY <2>1, <2>3, <3>3
      <4>2. ev.part = "http_response" BY <3>3 DEF Told
      <4>3. CASE e.state = 1 /\ ev.good
        <5>1. s.frame = Keyed(ev, e, 1, 2) /\ Turns(m, ev, s, 2)
          BY <4>1, <4>3 DEF ScopeHeaders, Scoped, With, Turns, Machines
        <5>2. IsConfirm(m, ev, s) BY <3>0, <3>3, <4>2, <4>3, <5>1 DEF IsConfirm
        <5> QED BY <5>2 DEF Outcome
      <4>4. CASE ~(e.state = 1 /\ ev.good)
        <5>1. s.frame = Keyed(ev, e, 2, 4) /\ Turns(m, ev, s, 3)
          BY <4>1, <4>4 DEF ScopeHeaders, Scoped, With, Turns, Machines
        <5>2. IsInvalid(m, ev, s) BY <3>0, <3>3, <4>2, <5>1 DEF IsInvalid
        <5> QED BY <5>2 DEF Outcome
      <4> QED BY <4>3, <4>4
    <3>4. CASE ev.code \notin {1, 5} /\ e.state # 3 /\ ~(ev.code = 142 /\ ev.side = 1)
               /\ ev.side = 2 /\ e.state # 2
      <4>1. s.frame = Bare(ev, 0) /\ Keeps(m, s) BY <2>1, <2>3, <3>4 DEF Scoped, Keeps
      <4>2. IsBare(m, ev, s) BY <1>6, <1>10, <3>4, <4>1 DEF IsBare
      <4> QED BY <4>2 DEF Outcome
    <3>5. CASE ev.code \notin {1, 5} /\ e.state # 3 /\ ev.code = 29 /\ ev.side = 1
      <4>1. s.frame = Keyed(ev, e, 1, 3) /\ Forgets(m, ev, s)
        BY <1>2, <2>1, <2>3, <3>5, ForgetDoes DEF Scoped, Forgets
      <4>2. ev.part = "http_response" BY <3>5 DEF Told
      <4>3. IsDone(m, ev, s) BY <3>0, <3>5, <4>1, <4>2 DEF IsDone
      <4> QED BY <4>3 DEF Outcome
    <3>6. CASE ev.code \notin {1, 5} /\ e.state # 3 /\ ~(ev.code = 142 /\ ev.side = 1)
               /\ ~(ev.side = 2 /\ e.state # 2) /\ ~(ev.code = 29 /\ ev.side = 1)
      <4>1. s.frame = Keyed(ev, e, 1, 2) /\ Keeps(m, s) BY <2>1, <2>3, <3>6 DEF Scoped, Keeps
      <4>2. IsOther(m, ev, s) BY <1>10, <3>0, <3>6, <4>1 DEF IsOther
      <4> QED BY <4>2 DEF Outcome
    <3> QED BY <3>1, <3>2, <3>3, <3>4, <3>5, <3>6
  <2> QED BY <2>2, <2>3
<1> QED BY <1>4, <1>7, <1>8, <1>9, <1>10

\* Whatever it does, the count of the map stays an upper bound of its entries.
LEMMA ScopeMap ==
  ASSUME NEW m \in Machines, MapOk(m), NEW ev, Told(ev), NEW s, Outcome(m, ev, s)
  PROVE  MapOk(s)
<1>1. ev.c \in Conns /\ ev.run \in Pos /\ ev.inst \in Pos /\ ev.seq \in Pos BY DEF Told, Ev
<1>2. m.entry \in [Conns -> Entry] /\ m.count \in Nat BY DEF Machines
<1>3. Cardinality(Entries(m)) \in Nat /\ IsFiniteSet(Entries(m)) /\ Cardinality(Entries(m)) <= m.count
  BY FS_CardinalityType DEF MapOk
<1>4. CASE Keeps(m, s)
  <2>1. Entries(s) = Entries(m) BY <1>4 DEF Keeps, Entries
  <2> QED BY <1>2, <1>3, <1>4, <2>1 DEF Keeps, MapOk
<1>5. CASE Forgets(m, ev, s)
  <2>1. Entries(s) = Entries(m) \ {ev.c} BY <1>1, <1>2, <1>5 DEF Forgets, Entries
  <2>2. /\ IsFiniteSet(Entries(s))
        /\ Cardinality(Entries(s)) = IF ev.c \in Entries(m) THEN Cardinality(Entries(m)) - 1
                                     ELSE Cardinality(Entries(m))
    BY <1>3, <2>1, FS_RemoveElement
  <2>3. ev.c \in Entries(m) <=> m.entry[ev.c] # NoEntry BY <1>1 DEF Entries
  <2>4. Cardinality(Entries(s)) \in Nat BY <2>2, FS_CardinalityType
  <2>5. s.count \in Nat /\ Cardinality(Entries(s)) <= s.count
    BY <1>2, <1>3, <1>5, <2>2, <2>3, <2>4 DEF Forgets
  <2>6. s.entry \in [Conns -> Entry] BY <1>1, <1>2, <1>5 DEF Forgets, Entry
  <2> QED BY <2>2, <2>5, <2>6 DEF MapOk
<1>6. ASSUME NEW n \in 1 .. 3, Turns(m, ev, s, n), Mine(m, ev) PROVE MapOk(s)
  <2> DEFINE e == m.entry[ev.c]
             q == [e EXCEPT !.state = n]
  <2>1. e \in [run : Pos, owner : Pos, number : Pos, state : 1 .. 3]
    BY <1>1, <1>2, <1>6 DEF Mine, Entry
  <2>2. q \in [run : Pos, owner : Pos, number : Pos, state : 1 .. 3] BY <2>1
  <2>3. q # NoEntry
    <3>1. q.run \in Pos BY <2>2
    <3> QED BY <3>1 DEF NoEntry, Pos
  <2>4. s.entry = [m.entry EXCEPT ![ev.c] = q] /\ s.count = m.count BY <1>6 DEF Turns
  <2> HIDE DEF q
  <2>5. s.entry \in [Conns -> Entry] BY <1>1, <1>2, <2>2, <2>4 DEF Entry
  <2>6. Entries(s) = Entries(m) BY <1>1, <1>2, <1>6, <2>3, <2>4 DEF Entries, Mine
  <2> QED BY <1>2, <1>3, <2>4, <2>5, <2>6 DEF MapOk
<1>7. CASE IsStart(m, ev, s)
  <2>1. Fresh(ev) \in Entry /\ Fresh(ev) # NoEntry
    <3>1. Fresh(ev) \in [run : Pos, owner : Pos, number : Pos, state : 1 .. 3] BY <1>1 DEF Fresh
    <3>2. Fresh(ev).run \in Pos BY <3>1
    <3> QED BY <3>1, <3>2 DEF Entry, NoEntry, Pos
  <2>2. s.entry = [m.entry EXCEPT ![ev.c] = Fresh(ev)] /\ s.count = IF m.entry[ev.c] = NoEntry THEN m.count + 1 ELSE m.count
    BY <1>7 DEF IsStart
  <2>3. s.entry \in [Conns -> Entry] BY <1>1, <1>2, <2>1, <2>2
  <2>4. Entries(s) = Entries(m) \union {ev.c} BY <1>1, <1>2, <2>1, <2>2 DEF Entries
  <2>5. /\ IsFiniteSet(Entries(s))
        /\ Cardinality(Entries(s)) = IF ev.c \in Entries(m) THEN Cardinality(Entries(m))
                                     ELSE Cardinality(Entries(m)) + 1
    BY <1>3, <2>4, FS_AddElement
  <2>6. ev.c \in Entries(m) <=> m.entry[ev.c] # NoEntry BY <1>1 DEF Entries
  <2> QED BY <1>2, <1>3, <2>2, <2>3, <2>5, <2>6 DEF MapOk
<1>8. CASE IsBare(m, ev, s) BY <1>4, <1>5, <1>8 DEF IsBare
<1>9. CASE IsPoison(m, ev, s) \/ IsInvalid(m, ev, s) \/ IsConfirm(m, ev, s)
  <2>1. Mine(m, ev) /\ (Turns(m, ev, s, 2) \/ Turns(m, ev, s, 3))
    BY <1>9 DEF IsPoison, IsInvalid, IsConfirm
  <2> QED BY <1>6, <2>1
<1>10. CASE IsBreak(m, ev, s) \/ IsDone(m, ev, s) BY <1>5, <1>10 DEF IsBreak, IsDone
<1>11. CASE IsOther(m, ev, s) BY <1>4, <1>11 DEF IsOther
<1> QED BY <1>7, <1>8, <1>9, <1>10, <1>11 DEF Outcome

\* The frame agrees with itself and with the record.
Accepted(r) == r \in Record => Told(r.ev) /\ Unwraps(r.frame) /\ Valid(r)

\* The fields of a frame with an exchange key.
LEMMA KeyedFields ==
  ASSUME NEW ev, NEW e, NEW n, NEW p
  PROVE  LET f == Keyed(ev, e, n, p) IN
         /\ f.side = ev.side /\ f.owner = e.owner /\ f.exchange = e.number /\ f.status = n
         /\ f.phase = p /\ f.invocation = ev.inv
         /\ f = [side |-> ev.side, owner |-> e.owner, exchange |-> e.number, status |-> n,
                 phase |-> p, invocation |-> ev.inv]
BY DEF Keyed

\* A frame of activity_scope passes both checks of the exporter.
LEMMA FrameAccepted ==
  ASSUME NEW m \in Machines, NEW ev, Told(ev), NEW s, Outcome(m, ev, s),
         NEW r, r = [type |-> "record", source |-> source, ev |-> ev, frame |-> s.frame],
         source \in Nat
  PROVE  r \in Record /\ Accepted(r)
<1> DEFINE f == s.frame
           e == m.entry[ev.c]
           expected == IF Http(r) THEN ev.seq ELSE (ev.seq - 1) \div 4 + 1
<1>1. r.ev = ev /\ r.frame = f /\ r.type = "record" /\ r.source = source OBVIOUS
<1>2. /\ ev \in Ev /\ ev.inst \in Pos /\ ev.seq \in Pos /\ ev.run \in Pos /\ ev.inv \in Pos /\ ev.side \in {1, 2}
      /\ ev.c \in Conns
  BY DEF Told, Ev
<1>3. Http(r) <=> ev.part = "http_response" BY <1>1 DEF Http
<1>4. expected = ev.inv BY <1>3 DEF Told
<1>5. m.entry[ev.c] \in Entry BY <1>2 DEF Machines
<1>6. CASE IsBare(m, ev, s)
  <2>1. /\ f \in Frame /\ f.owner = 0 /\ f.exchange = 0 /\ f.phase = 0 /\ f.status # 1
        /\ f.invocation \in {0, ev.inv}
    BY <1>6 DEF IsBare
  <2>2. Unwraps(f) BY <2>1 DEF Unwraps, Frame
  <2>3. Valid(r) BY <1>1, <1>4, <2>1 DEF Valid
  <2>4. r \in Record BY <1>2, <2>1 DEF Record
  <2> QED BY <1>1, <2>2, <2>3, <2>4 DEF Accepted
<1>7. ASSUME NEW x \in [run : Pos, owner : Pos, number : Pos, state : 1 .. 3], NEW n \in 1 .. 6, NEW p \in 1 .. 4,
             f = Keyed(ev, x, n, p)
      PROVE  /\ r \in Record /\ Unwraps(f)
             /\ f.side = ev.side /\ f.owner = x.owner /\ f.exchange = x.number /\ f.status = n
             /\ f.phase = p /\ f.invocation = expected
  <2>1. /\ f.side = ev.side /\ f.owner = x.owner /\ f.exchange = x.number /\ f.status = n
        /\ f.phase = p /\ f.invocation = ev.inv
    BY <1>7, KeyedFields
  <2>2. f = [side |-> ev.side, owner |-> x.owner, exchange |-> x.number, status |-> n, phase |-> p,
             invocation |-> ev.inv]
    BY <1>7, KeyedFields
  <2>3. x.owner \in Pos /\ x.number \in Pos OBVIOUS
  <2>4. f \in Frame BY <1>2, <2>2, <2>3 DEF Frame, Pos
  <2>5. r \in Record BY <1>2, <2>4 DEF Record
  <2>6. Unwraps(f) BY <1>2, <2>1, <2>3 DEF Unwraps, Pos
  <2> QED BY <1>4, <2>1, <2>5, <2>6
<1> HIDE DEF f, expected
<1>8. CASE IsStart(m, ev, s)
  <2>1. Fresh(ev) \in [run : Pos, owner : Pos, number : Pos, state : 1 .. 3] /\ Fresh(ev).owner = ev.inst
        /\ Fresh(ev).number = ev.seq
    BY <1>2 DEF Fresh
  <2>2. f = Keyed(ev, Fresh(ev), 1, 1) /\ ev.part = "method" /\ ev.side = 1 BY <1>8 DEF IsStart, f
  <2>3. /\ r \in Record /\ Unwraps(f) /\ f.side = 1 /\ f.owner = ev.inst /\ f.exchange = ev.seq
        /\ f.status = 1 /\ f.phase = 1 /\ f.invocation = expected
    BY <1>7, <2>1, <2>2
  <2>4. Valid(r) BY <1>1, <2>2, <2>3 DEF Valid, expected
  <2> QED BY <1>1, <2>3, <2>4 DEF Accepted
<1>9. CASE Mine(m, ev)
  <2>1. e \in [run : Pos, owner : Pos, number : Pos, state : 1 .. 3] BY <1>5, <1>9 DEF Mine, Entry
  <2>2. ~Http(r) => e.owner = ev.inst BY <1>3, <1>9 DEF Mine
  <2>3. CASE IsPoison(m, ev, s)
    <3>1. f = Keyed(ev, e, 4, 4) /\ ev.part = "method" /\ ev.side = 1 BY <2>3 DEF IsPoison, f
    <3>2. /\ r \in Record /\ Unwraps(f) /\ f.side = 1 /\ f.owner = e.owner /\ f.status = 4
          /\ f.phase = 4 /\ f.invocation = expected
      BY <1>7, <2>1, <3>1
    <3>3. Valid(r) BY <1>1, <2>2, <3>1, <3>2 DEF Valid, expected
    <3> QED BY <1>1, <3>2, <3>3 DEF Accepted
  <2>4. CASE IsConfirm(m, ev, s)
    <3>1. f = Keyed(ev, e, 1, 2) /\ Http(r) BY <1>3, <2>4 DEF IsConfirm, f
    <3>2. r \in Record /\ Unwraps(f) /\ f.phase = 2 /\ f.invocation = expected BY <1>7, <2>1, <3>1
    <3>3. Valid(r) BY <1>1, <3>1, <3>2 DEF Valid, expected
    <3> QED BY <1>1, <3>2, <3>3 DEF Accepted
  <2>5. CASE IsInvalid(m, ev, s)
    <3>1. f = Keyed(ev, e, 2, 4) /\ Http(r) /\ ev.code = 142 BY <1>3, <2>5 DEF IsInvalid, f
    <3>2. r \in Record /\ Unwraps(f) /\ f.phase = 4 /\ f.invocation = expected BY <1>7, <2>1, <3>1
    <3>3. Valid(r) BY <1>1, <3>1, <3>2 DEF Valid, expected
    <3> QED BY <1>1, <3>2, <3>3 DEF Accepted
  <2>6. CASE IsBreak(m, ev, s)
    <3>1. f = Keyed(ev, e, 1, 4) /\ Http(r) /\ ev.code \in {1, 5, 57} BY <1>3, <2>6 DEF IsBreak, f
    <3>2. r \in Record /\ Unwraps(f) /\ f.phase = 4 /\ f.invocation = expected BY <1>7, <2>1, <3>1
    <3>3. Valid(r) BY <1>1, <3>1, <3>2 DEF Valid, expected
    <3> QED BY <1>1, <3>2, <3>3 DEF Accepted
  <2>7. CASE IsDone(m, ev, s)
    <3>1. f = Keyed(ev, e, 1, 3) /\ Http(r) /\ ev.code = 29 /\ ev.side = 1
      BY <1>3, <2>7 DEF IsDone, f
    <3>2. /\ r \in Record /\ Unwraps(f) /\ f.phase = 3 /\ f.invocation = expected /\ f.side = 1 /\ f.status = 1
      BY <1>7, <2>1, <3>1
    <3>3. Valid(r) BY <1>1, <3>1, <3>2 DEF Valid, expected
    <3> QED BY <1>1, <3>2, <3>3 DEF Accepted
  <2>8. CASE IsOther(m, ev, s)
    <3>1. f = Keyed(ev, e, 1, 2) BY <2>8 DEF IsOther, f
    <3>2. /\ r \in Record /\ Unwraps(f) /\ f.phase = 2 /\ f.invocation = expected /\ f.side = ev.side
          /\ f.owner = e.owner
      BY <1>7, <2>1, <3>1
    <3>3. ~Http(r) => JsonParts[((ev.seq - 1) % 4) + 1] = ev.part BY <1>3 DEF Told
    <3>4. Valid(r) BY <1>1, <2>2, <3>2, <3>3 DEF Valid, expected
    <3> QED BY <1>1, <3>2, <3>4 DEF Accepted
  <2>9. CASE IsBare(m, ev, s) \/ IsStart(m, ev, s) BY <1>6, <1>8, <2>9
  <2> QED BY <2>3, <2>4, <2>5, <2>6, <2>7, <2>8, <2>9 DEF Outcome
<1> QED BY <1>6, <1>8, <1>9 DEF Outcome, IsPoison, IsConfirm, IsInvalid, IsBreak, IsDone, IsOther

-----------------------------------------------------------------------------
(* One reader.                                                             *)

Emitted(ev, frame) == [type |-> "record", source |-> source, ev |-> ev, frame |-> frame]
Suits(m, p, ev) ==
  /\ ev \in Happens
  /\ p = "http" => ev.part = "http_response"
  /\ p = "json" => /\ ev.part # "http_response" /\ ev.code = 0
                   /\ ev.part = JsonParts[(m.prog["json"].calls % 4) + 1]

\* The fields that a reader adds to an event.
LEMMA StampedFields ==
  ASSUME NEW ev, NEW p, NEW q
  PROVE  LET f == Stamped(ev, p, q) IN
         /\ f.c = ev.c /\ f.req = ev.req /\ f.hidden = ev.hidden /\ f.side = ev.side /\ f.part = ev.part
         /\ f.code = ev.code /\ f.good = ev.good /\ f.inst = q.inst /\ f.rev = q.rev /\ f.run = q.run
         /\ f.fails = q.fails /\ f.seq = q.calls + 1
         /\ f.inv = IF p = "http" THEN q.calls + 1 ELSE q.calls \div 4 + 1
BY DEF Stamped

\* A reader tells of an event that suits its program.
LEMMA StampedTold ==
  ASSUME NEW m \in Machines, NEW p \in Programs, NEW ev, Suits(m, p, ev)
  PROVE  Told(Stamped(ev, p, m.prog[p]))
<1> DEFINE q == m.prog[p]
           f == Stamped(ev, p, q)
<1>1. q \in Bind BY DEF Machines
<1>2. /\ q.inst \in Pos /\ q.rev \in Nat /\ q.run \in Pos /\ q.calls \in Nat /\ q.fails \in Nat
  BY <1>1 DEF Bind
<1>3. /\ ev.c \in Conns /\ ev.req \in Nat /\ ev.hidden \in BOOLEAN /\ ev.side \in {1, 2} /\ ev.part \in Parts
      /\ ev.code \in Nat /\ ev.good \in BOOLEAN
  BY DEF Suits, Happens
<1>4. q.calls + 1 \in Pos /\ q.calls \div 4 + 1 \in Pos /\ (q.calls + 1) - 1 = q.calls
  BY <1>2 DEF Pos
<1> DEFINE v == IF p = "http" THEN q.calls + 1 ELSE q.calls \div 4 + 1
<1>5. v \in Pos BY <1>4
<1>6. f = [c |-> ev.c, req |-> ev.req, hidden |-> ev.hidden, side |-> ev.side, part |-> ev.part,
           code |-> ev.code, good |-> ev.good, inst |-> q.inst, rev |-> q.rev, run |-> q.run,
           fails |-> q.fails, seq |-> q.calls + 1, inv |-> v]
  BY DEF Stamped
<1> HIDE DEF v, q
<1>7. f \in Ev BY <1>2, <1>3, <1>4, <1>5, <1>6 DEF Ev
<1>8. f.part = ev.part /\ f.seq = q.calls + 1 /\ f.code = ev.code /\ f.inv = v BY <1>6
<1>9. f.seq - 1 = q.calls BY <1>4, <1>8
<1>10. CASE p = "http"
  <2>1. f.part = "http_response" /\ f.inv = f.seq BY <1>8, <1>10 DEF Suits, v
  <2> QED BY <1>7, <2>1 DEF Told, q
<1>11. CASE p = "json"
  <2>1. f.part # "http_response" /\ f.code = 0 /\ f.inv = q.calls \div 4 + 1
        /\ f.part = JsonParts[(q.calls % 4) + 1]
    BY <1>8, <1>11 DEF Suits, v, q
  <2> QED BY <1>7, <1>9, <2>1 DEF Told, q
<1> QED BY <1>10, <1>11 DEF Programs

\* What a reader leaves: the map of activity_scope and one more output, written or lost.
LEMMA ReaderDoes ==
  ASSUME NEW m \in Machines, MapOk(m), source \in Nat, NEW p \in Programs, NEW ev,
         Suits(m, p, ev),
         NEW lost \in BOOLEAN
  PROVE  LET M == Reader(m, p, ev, lost)
             full == Stamped(ev, p, m.prog[p])
             s == Scope(m, full)
         IN /\ M \in Machines /\ MapOk(M)
            /\ Told(full) /\ Outcome(m, full, s)
            /\ M.entry = s.entry /\ \A q \in Programs : q # p => M.prog[q] = m.prog[q]
            /\ M.prog[p].inst = m.prog[p].inst /\ M.prog[p].rev = m.prog[p].rev
            /\ M.prog[p].run = m.prog[p].run /\ M.prog[p].calls = m.prog[p].calls + 1
            /\ M.prog[p].fails = IF lost THEN m.prog[p].fails + 1 ELSE m.prog[p].fails
            /\ M.rows = IF lost THEN m.rows ELSE Append(m.rows, Emitted(full, s.frame))
            /\ Emitted(full, s.frame) \in Record /\ Accepted(Emitted(full, s.frame))
<1> DEFINE M == Reader(m, p, ev, lost)
           b == m.prog[p]
           full == Stamped(ev, p, b)
           s == Scope(m, full)
           row == Emitted(full, s.frame)
           c1 == [b EXCEPT !.calls = full.seq]
           c2 == [c1 EXCEPT !.fails = IF lost THEN @ + 1 ELSE @]
<1>1. Told(full) BY StampedTold
<1>2. Outcome(m, full, s) BY <1>1, ScopeCases
<1>3. MapOk(s) BY <1>1, <1>2, ScopeMap
<1>4. row \in Record /\ Accepted(row) BY <1>1, <1>2, FrameAccepted DEF Emitted
<1>5. b \in Bind /\ m.prog \in [Programs -> Bind] BY DEF Machines
<1>6. full.seq = b.calls + 1 BY StampedFields
<1>7. b.calls \in Nat /\ b.calls + 1 \in Nat BY <1>5 DEF Bind
<1> DEFINE P == [m.prog EXCEPT ![p].calls = full.seq, ![p].fails = IF lost THEN @ + 1 ELSE @]
           rs == IF lost THEN m.rows ELSE Append(m.rows, row)
<1>8. M = [entry |-> s.entry, count |-> s.count, prog |-> P, rows |-> rs] BY DEF Reader, Emitted
<1> HIDE DEF full, s, row, M
<1>9. P = [m.prog EXCEPT ![p] = c2] BY <1>5 DEF Machines, Bind
<1>10. c1 \in Bind BY <1>5, <1>6, <1>7 DEF Bind
<1>11. /\ c1.inst = b.inst /\ c1.rev = b.rev /\ c1.run = b.run /\ c1.calls = b.calls + 1 /\ c1.fails = b.fails
  BY <1>5, <1>6 DEF Bind
<1> HIDE DEF c1
<1>12. c2 \in Bind BY <1>10 DEF Bind
<1>13. /\ c2.inst = b.inst /\ c2.rev = b.rev /\ c2.run = b.run /\ c2.calls = b.calls + 1
       /\ c2.fails = IF lost THEN b.fails + 1 ELSE b.fails
  BY <1>10, <1>11 DEF Bind
<1> HIDE DEF c2, P
<1>14. P \in [Programs -> Bind] /\ P[p] = c2 /\ \A q \in Programs : q # p => P[q] = m.prog[q]
  BY <1>5, <1>9, <1>12
<1>15. m.rows \in Seq(Row) BY DEF Machines
<1>16. rs \in Seq(Row) BY <1>4, <1>15 DEF Row
<1> HIDE DEF rs
<1>17. s.entry \in [Conns -> Entry] /\ s.count \in Nat BY <1>3 DEF MapOk
<1>18. M \in Machines BY <1>8, <1>14, <1>16, <1>17 DEF Machines
<1>19. M.entry = s.entry /\ M.count = s.count /\ M.prog = P /\ M.rows = rs BY <1>8
<1>20. Entries(M) = Entries(s) BY <1>19 DEF Entries
<1>21. MapOk(M) BY <1>3, <1>19, <1>20 DEF MapOk
<1> QED BY <1>1, <1>2, <1>4, <1>13, <1>14, <1>18, <1>19, <1>21 DEF M, full, s, row, rs

-----------------------------------------------------------------------------
(* The records of an exchange, in the journal or in a group.               *)

Keys    == Nat \X Nat \X Nat \X Nat
KeptRow == [req : Nat, hidden : BOOLEAN, part : Parts, code : Nat, good : BOOLEAN, side : 0 .. 2,
            producer : Nat \X Nat, invocation : Nat]
Request == [req : Nat, asked : BOOLEAN, answered : BOOLEAN, headed : BOOLEAN]
Wires   == [Conns -> Seq(Request)]

Tells(row) == row.type = "record" /\ row.frame.exchange # 0 /\ row.frame.phase # 4
KeyOf(src, e) == <<src, e.run, e.owner, e.number>>
OfJson(r) == r.part # "http_response"
Starts(r) == r.part = "method" /\ r.side = 1
Answers(r) == OfJson(r) /\ r.side = 2
Confirms(r) == r.part = "http_response" /\ r.code = 142 /\ r.side = 1
\* From the load of the programs that began the exchange.
Native(k, r) == OfJson(r) \/ r.producer[1] = k[3] + 1

\* Keys and instances are never ahead of the programs.
Numbered(src, R, m) ==
  \A x \in R :
    /\ x[1][1] <= src
    /\ x[1][1] = src =>
         /\ x[1][3] <= m.prog["json"].inst /\ x[2].producer[1] <= m.prog["http"].inst
         /\ x[1][3] = m.prog["json"].inst => x[1][4] <= m.prog["json"].calls
    /\ OfJson(x[2]) => x[2].producer[1] = x[1][3]
    /\ ~OfJson(x[2]) => x[2].producer[1] > x[1][3]
Apart1(m, c) ==
  m.entry[c] # NoEntry =>
    /\ m.entry[c].owner <= m.prog["json"].inst
    /\ m.entry[c].owner = m.prog["json"].inst =>
         /\ m.entry[c].number <= m.prog["json"].calls /\ m.entry[c].run <= m.prog["json"].run
         /\ m.entry[c].state = 2 => m.entry[c].run <= m.prog["http"].run
    /\ \A d \in Conns : /\ m.entry[d] # NoEntry /\ m.entry[d].owner = m.entry[c].owner
                        /\ m.entry[d].number = m.entry[c].number
                        => d = c

\* A group with an answer is about one request.
About(R) ==
  \A x, y, z \in R : /\ x[1] = y[1] /\ x[1] = z[1] /\ Starts(x[2]) /\ ~x[2].hidden /\ Answers(z[2])
                     /\ Native(y[1], y[2])
                     => y[2].req = x[2].req
Confirmed(R) ==
  \A y, z \in R : y[1] = z[1] /\ Confirms(y[2]) /\ Answers(z[2]) => Native(y[1], y[2])

\* The JSON program still adds to the exchange of e, and the HTTP program does.
Open(m, e) == e.owner = m.prog["json"].inst /\ e.run = m.prog["json"].run /\ m.prog["json"].fails = 0
Heard(m, e) == e.owner = m.prog["json"].inst /\ e.run = m.prog["http"].run /\ m.prog["http"].fails = 0
Answered(R, k) == \E z \in R : z[1] = k /\ Answers(z[2])

\* The exchange of a connection is about the request that the connection carries.
Tracked1(src, R, m, W, c, x) ==
  LET e == m.entry[c] IN
  /\ Open(m, e) /\ e.state # 3 =>
       /\ \A i \in 1 .. Len(W[c]) : W[c][i].req = x.req
       /\ \A y \in R : y[1] = KeyOf(src, e) /\ Native(y[1], y[2]) => y[2].req = x.req
  /\ Heard(m, e) /\ e.state = 2 /\ (Open(m, e) \/ Answered(R, KeyOf(src, e))) =>
       W[c] # << >> /\ W[c][1].req = x.req /\ W[c][1].asked
Tracked(src, R, m, W, c) ==
  LET e == m.entry[c] IN
  e # NoEntry =>
    /\ Answered(R, KeyOf(src, e)) => e.state # 1
    /\ \A x \in R : x[1] = KeyOf(src, e) /\ Starts(x[2]) /\ ~x[2].hidden => Tracked1(src, R, m, W, c, x[2])

Traced(src, R, m, W) ==
  /\ R \subseteq Keys \X KeptRow /\ Numbered(src, R, m) /\ About(R) /\ Confirmed(R)
  /\ \A c \in Conns : Apart1(m, c) /\ Tracked(src, R, m, W, c)

\* What an invocation does to the programs.
Grown(m, M) ==
  /\ \A p \in Programs :
       /\ M.prog[p].inst = m.prog[p].inst /\ M.prog[p].run = m.prog[p].run
       /\ M.prog[p].fails = 0 => m.prog[p].fails = 0
       /\ m.prog[p].calls <= M.prog[p].calls
  /\ m.prog["http"].inst = m.prog["json"].inst + 1

\* An invocation changes counters only.
LEMMA GrownFacts ==
  ASSUME NEW m, NEW M, Grown(m, M), NEW e
  PROVE  /\ M.prog["json"].inst = m.prog["json"].inst /\ M.prog["http"].inst = m.prog["http"].inst
         /\ M.prog["json"].run = m.prog["json"].run /\ M.prog["http"].run = m.prog["http"].run
         /\ m.prog["json"].calls <= M.prog["json"].calls
         /\ m.prog["http"].inst = m.prog["json"].inst + 1
         /\ Open(M, e) => Open(m, e)
         /\ Heard(M, e) => Heard(m, e)
BY DEF Grown, Programs, Open, Heard

\* The numbers in a machine.
LEMMA MachineFacts ==
  ASSUME NEW m \in Machines
  PROVE  /\ m.prog["json"].inst \in Nat /\ m.prog["http"].inst \in Nat /\ m.prog["json"].calls \in Nat
         /\ m.prog["json"].run \in Nat /\ m.prog["http"].run \in Nat
         /\ \A c \in Conns : m.entry[c] # NoEntry =>
              /\ m.entry[c].owner \in Nat /\ m.entry[c].number \in Nat /\ m.entry[c].run \in Nat
              /\ m.entry[c].state \in 1 .. 3 /\ m.entry[c].number # 0 /\ m.entry[c].owner # 0
<1>1. m.prog["json"] \in Bind /\ m.prog["http"] \in Bind BY DEF Machines, Programs
<1>2. ASSUME NEW c \in Conns, m.entry[c] # NoEntry
      PROVE  m.entry[c] \in [run : Pos, owner : Pos, number : Pos, state : 1 .. 3]
  BY <1>2 DEF Machines, Entry
<1>3. ASSUME NEW c \in Conns, m.entry[c] # NoEntry
      PROVE  /\ m.entry[c].owner \in Nat /\ m.entry[c].number \in Nat /\ m.entry[c].run \in Nat
             /\ m.entry[c].state \in 1 .. 3 /\ m.entry[c].number # 0 /\ m.entry[c].owner # 0
  BY <1>2, <1>3 DEF Pos
<1> QED BY <1>1, <1>3 DEF Bind, Pos

\* The connections an event is not about.
LEMMA TrackedElsewhere ==
  ASSUME NEW src \in Nat, NEW m \in Machines, NEW M \in Machines, NEW R, NEW R2, NEW W, NEW W2,
         NEW c \in Conns, NEW d \in Conns,
         Grown(m, M), Traced(src, R, m, W), M.entry[d] = m.entry[d], W2[d] = W[d],
         \A x \in R2 : x \in R \/ (m.entry[d] # NoEntry => x[1] # KeyOf(src, m.entry[d]))
  PROVE  Tracked(src, R2, M, W2, d)
<1> DEFINE e == m.entry[d]
           k == KeyOf(src, e)
<1>1. SUFFICES ASSUME e # NoEntry
               PROVE  /\ Answered(R2, k) => e.state # 1
                      /\ \A x \in R2 : x[1] = k /\ Starts(x[2]) /\ ~x[2].hidden => Tracked1(src, R2, M, W2, d, x[2])
  BY DEF Tracked
<1>2. Tracked(src, R, m, W, d) BY DEF Traced
<1>3. \A x \in R2 : x[1] = k => x \in R BY <1>1
<1>4. Answered(R2, k) => Answered(R, k) BY <1>3 DEF Answered
<1>5. Answered(R2, k) => e.state # 1 BY <1>1, <1>2, <1>4 DEF Tracked
<1>6. ASSUME NEW x \in R2, x[1] = k, Starts(x[2]), ~x[2].hidden
      PROVE  Tracked1(src, R2, M, W2, d, x[2])
  <2>1. Tracked1(src, R, m, W, d, x[2]) BY <1>1, <1>2, <1>3, <1>6 DEF Tracked
  <2>2. (Open(M, e) => Open(m, e)) /\ (Heard(M, e) => Heard(m, e)) BY GrownFacts
  <2> HIDE DEF k
  <2>3. \A y \in R2 : y[1] = KeyOf(src, e) => y \in R BY <1>3 DEF k
  <2> QED BY <1>4, <2>1, <2>2, <2>3 DEF Tracked1, k
<1> QED BY <1>5, <1>6

\* Keys stay behind the counters when the counters grow.
LEMMA NumberedGrows ==
  ASSUME NEW src \in Nat, NEW m \in Machines, NEW M \in Machines,
         NEW R \in SUBSET (Keys \X KeptRow), Grown(m, M), Numbered(src, R, m)
  PROVE  Numbered(src, R, M)
<1>1. m.prog["json"].calls \in Nat /\ M.prog["json"].calls \in Nat BY MachineFacts
<1>2. SUFFICES ASSUME NEW x \in R PROVE x[1][3] = m.prog["json"].inst /\ x[1][4] <= m.prog["json"].calls => x[1][4] <= M.prog["json"].calls
  BY GrownFacts DEF Numbered
<1>3. x[1][4] \in Nat BY DEF Keys
<1> QED BY <1>1, <1>3, GrownFacts

-----------------------------------------------------------------------------
(* What an outcome of activity_scope does to the exchanges.                *)

\* An invocation for one connection keeps what is known of the others.
LEMMA TracedStep ==
  ASSUME NEW src \in Nat, NEW m \in Machines, NEW M \in Machines, NEW R, NEW R2, NEW W, NEW W2,
         NEW c \in Conns,
         Grown(m, M), Traced(src, R, m, W),
         \A d \in Conns : d # c => M.entry[d] = m.entry[d] /\ W2[d] = W[d],
         R2 \subseteq Keys \X KeptRow,
         \A x \in R2 : x \in R \/ \A d \in Conns : d # c /\ m.entry[d] # NoEntry => x[1] # KeyOf(src, m.entry[d]),
         Numbered(src, R2, M), About(R2), Confirmed(R2), \A d \in Conns : Apart1(M, d),
         Tracked(src, R2, M, W2, c)
  PROVE  Traced(src, R2, M, W2)
<1>1. ASSUME NEW d \in Conns, d # c PROVE Tracked(src, R2, M, W2, d)
  <2>1. \A x \in R2 : x \in R \/ (m.entry[d] # NoEntry => x[1] # KeyOf(src, m.entry[d])) BY <1>1
  <2>2. M.entry[d] = m.entry[d] /\ W2[d] = W[d] BY <1>1
  <2> QED BY <2>1, <2>2, TrackedElsewhere
<1> QED BY <1>1 DEF Traced

\* The entry of c goes, or stays with another state.
LEMMA ApartKept ==
  ASSUME NEW m \in Machines, NEW M \in Machines, NEW c \in Conns, Grown(m, M),
         \A d \in Conns : Apart1(m, d),
         \A d \in Conns : d # c => M.entry[d] = m.entry[d],
         \/ M.entry[c] = NoEntry
         \/ /\ m.entry[c] # NoEntry /\ M.entry[c].owner = m.entry[c].owner
            /\ M.entry[c].number = m.entry[c].number /\ M.entry[c].run = m.entry[c].run
            /\ M.entry[c].state = 2 => m.entry[c].state = 2 \/ m.entry[c].run = m.prog["http"].run
  PROVE  \A d \in Conns : Apart1(M, d)
<1>1. ASSUME NEW d \in Conns, M.entry[d] # NoEntry
      PROVE  /\ m.entry[d] # NoEntry /\ M.entry[d].owner = m.entry[d].owner
             /\ M.entry[d].number = m.entry[d].number /\ M.entry[d].run = m.entry[d].run
             /\ M.entry[d].state = 2 => m.entry[d].state = 2 \/ m.entry[d].run = m.prog["http"].run
  BY <1>1
<1>2. SUFFICES ASSUME NEW d \in Conns, M.entry[d] # NoEntry
               PROVE  /\ M.entry[d].owner <= M.prog["json"].inst
                      /\ M.entry[d].owner = M.prog["json"].inst =>
                           /\ M.entry[d].number <= M.prog["json"].calls /\ M.entry[d].run <= M.prog["json"].run
                           /\ M.entry[d].state = 2 => M.entry[d].run <= M.prog["http"].run
                      /\ \A f \in Conns : /\ M.entry[f] # NoEntry /\ M.entry[f].owner = M.entry[d].owner
                                          /\ M.entry[f].number = M.entry[d].number
                                          => f = d
  BY DEF Apart1
<1>3. Apart1(m, d) OBVIOUS
<1>4. m.entry[d] # NoEntry BY <1>1, <1>2
<1>5. /\ m.entry[d].owner \in Nat /\ m.entry[d].number \in Nat /\ m.entry[d].run \in Nat
      /\ m.prog["json"].calls \in Nat /\ M.prog["json"].calls \in Nat /\ m.prog["http"].run \in Nat
  BY <1>4, MachineFacts
<1>6. \A f \in Conns : /\ M.entry[f] # NoEntry /\ M.entry[f].owner = M.entry[d].owner
                       /\ M.entry[f].number = M.entry[d].number
                       => f = d
  BY <1>1, <1>2, <1>3, <1>4 DEF Apart1
<1>7. M.entry[d].owner <= M.prog["json"].inst BY <1>1, <1>2, <1>3, <1>4, GrownFacts DEF Apart1
<1>8. ASSUME M.entry[d].owner = M.prog["json"].inst
      PROVE  /\ M.entry[d].number <= M.prog["json"].calls /\ M.entry[d].run <= M.prog["json"].run
             /\ M.entry[d].state = 2 => M.entry[d].run <= M.prog["http"].run
  <2>1. m.entry[d].owner = m.prog["json"].inst BY <1>1, <1>2, <1>8, GrownFacts
  <2>2. /\ m.entry[d].number <= m.prog["json"].calls /\ m.entry[d].run <= m.prog["json"].run
        /\ m.entry[d].state = 2 => m.entry[d].run <= m.prog["http"].run
    BY <1>3, <1>4, <2>1 DEF Apart1
  <2>3. /\ M.prog["json"].run = m.prog["json"].run /\ M.prog["http"].run = m.prog["http"].run
        /\ m.prog["json"].calls <= M.prog["json"].calls
    BY GrownFacts
  <2> QED BY <1>1, <1>2, <1>5, <2>2, <2>3
<1> QED BY <1>6, <1>7, <1>8

\* One exchange for each connection.
LEMMA KeysApart ==
  ASSUME NEW src, NEW m, NEW c \in Conns, \A d \in Conns : Apart1(m, d), m.entry[c] # NoEntry
  PROVE  \A d \in Conns : d # c /\ m.entry[d] # NoEntry => KeyOf(src, m.entry[c]) # KeyOf(src, m.entry[d])
BY DEF Apart1, KeyOf

\* Nothing is added, and the exchange of c is over.
LEMMA TracedDrop ==
  ASSUME NEW src \in Nat, NEW m \in Machines, NEW M \in Machines, NEW R, NEW W, NEW W2,
         NEW c \in Conns,
         Grown(m, M), Traced(src, R, m, W),
         \A d \in Conns : d # c => M.entry[d] = m.entry[d] /\ W2[d] = W[d],
         \/ M.entry[c] = NoEntry
         \/ /\ m.entry[c] # NoEntry /\ M.entry[c].owner = m.entry[c].owner
            /\ M.entry[c].number = m.entry[c].number /\ M.entry[c].run = m.entry[c].run /\ M.entry[c].state = 3
  PROVE  Traced(src, R, M, W2)
<1>1. \A d \in Conns : Apart1(M, d) BY ApartKept DEF Traced
<1>2. Numbered(src, R, M) BY NumberedGrows DEF Traced
<1>3. Tracked(src, R, M, W2, c) BY DEF Tracked, Tracked1
<1>4. R \subseteq Keys \X KeptRow /\ About(R) /\ Confirmed(R) BY DEF Traced
<1> QED BY <1>1, <1>2, <1>3, <1>4, TracedStep

\* A record joins the exchange of c.
Joins(src, R, m, c, r) == R \union {<<KeyOf(src, m.entry[c]), r>>}

\* A record of the exchange in the map is numbered like the ones before it.
LEMMA NumberedJoins ==
  ASSUME NEW src \in Nat, NEW m \in Machines, NEW M \in Machines, NEW R, NEW W, NEW c \in Conns,
         NEW r \in KeptRow,
         Grown(m, M), Traced(src, R, m, W), m.entry[c] # NoEntry,
         OfJson(r) => r.producer[1] = m.prog["json"].inst /\ m.entry[c].owner = m.prog["json"].inst,
         ~OfJson(r) => r.producer[1] = m.prog["http"].inst
  PROVE  Joins(src, R, m, c, r) \subseteq Keys \X KeptRow /\ Numbered(src, Joins(src, R, m, c, r), M)
<1> DEFINE e == m.entry[c]
           k == KeyOf(src, e)
<1>1. /\ e.owner \in Nat /\ e.number \in Nat /\ e.run \in Nat BY MachineFacts
<1>2. k \in Keys /\ k[1] = src /\ k[3] = e.owner /\ k[4] = e.number BY <1>1 DEF KeyOf, Keys
<1>3. Numbered(src, R, M) BY NumberedGrows DEF Traced
<1>4. e.owner <= m.prog["json"].inst /\ (e.owner = m.prog["json"].inst => e.number <= m.prog["json"].calls)
  BY DEF Traced, Apart1
<1>5. /\ m.prog["json"].inst \in Nat /\ m.prog["http"].inst = m.prog["json"].inst + 1
      /\ M.prog["json"].inst = m.prog["json"].inst /\ M.prog["http"].inst = m.prog["http"].inst
      /\ m.prog["json"].calls <= M.prog["json"].calls /\ m.prog["json"].calls \in Nat /\ M.prog["json"].calls \in Nat
  BY GrownFacts, MachineFacts
<1>6. r.producer[1] <= M.prog["http"].inst BY <1>5
<1>7. k[3] = M.prog["json"].inst => k[4] <= M.prog["json"].calls BY <1>1, <1>2, <1>4, <1>5
<1>8. /\ OfJson(r) => r.producer[1] = k[3]
      /\ ~OfJson(r) => r.producer[1] > k[3]
  BY <1>1, <1>2, <1>4, <1>5
<1>9. k[1] <= src /\ k[3] <= M.prog["json"].inst BY <1>2, <1>4, <1>5
<1>10. R \subseteq Keys \X KeptRow BY DEF Traced
<1> HIDE DEF k
<1>11. ASSUME NEW x \in R \union {<<k, r>>}
       PROVE  /\ x[1][1] <= src
              /\ x[1][1] = src =>
                   /\ x[1][3] <= M.prog["json"].inst /\ x[2].producer[1] <= M.prog["http"].inst
                   /\ x[1][3] = M.prog["json"].inst => x[1][4] <= M.prog["json"].calls
              /\ OfJson(x[2]) => x[2].producer[1] = x[1][3]
              /\ ~OfJson(x[2]) => x[2].producer[1] > x[1][3]
  <2>1. CASE x \in R BY <1>3, <2>1 DEF Numbered
  <2>2. CASE x = <<k, r>>
    <3>1. x[1] = k /\ x[2] = r BY <2>2
    <3> QED BY <1>6, <1>7, <1>8, <1>9, <3>1
  <2> QED BY <2>1, <2>2
<1>12. Joins(src, R, m, c, r) = R \union {<<k, r>>} BY DEF Joins, k
<1>13. R \union {<<k, r>>} \subseteq Keys \X KeptRow BY <1>2, <1>10
<1> QED BY <1>11, <1>12, <1>13 DEF Numbered

\* Forgotten records change nothing.
LEMMA TracedLess ==
  ASSUME NEW src, NEW R, NEW S \in SUBSET R, NEW m, NEW W, Traced(src, R, m, W)
  PROVE  Traced(src, S, m, W)
<1>1. Numbered(src, S, m) /\ About(S) /\ Confirmed(S) /\ S \subseteq Keys \X KeptRow
  BY DEF Traced, Numbered, About, Confirmed
<1>2. ASSUME NEW k, Answered(S, k) PROVE Answered(R, k) BY <1>2 DEF Answered
<1>3. ASSUME NEW c \in Conns PROVE Tracked(src, S, m, W, c)
  <2> DEFINE e == m.entry[c]
             k == KeyOf(src, e)
  <2>1. SUFFICES ASSUME e # NoEntry
                 PROVE  /\ Answered(S, k) => e.state # 1
                        /\ \A x \in S : x[1] = k /\ Starts(x[2]) /\ ~x[2].hidden => Tracked1(src, S, m, W, c, x[2])
    BY DEF Tracked
  <2>2. Tracked(src, R, m, W, c) BY DEF Traced
  <2>3. ASSUME NEW x \in S, x[1] = k, Starts(x[2]), ~x[2].hidden
        PROVE  Tracked1(src, S, m, W, c, x[2])
    <3>1. Tracked1(src, R, m, W, c, x[2]) BY <2>1, <2>2, <2>3 DEF Tracked
    <3> QED BY <1>2, <3>1 DEF Tracked1
  <2> QED BY <1>2, <2>1, <2>2, <2>3 DEF Tracked
<1> QED BY <1>1, <1>3 DEF Traced

\* The connection carries the same requests.
Carried(w, w2) ==
  /\ Len(w2) = Len(w)
  /\ \A i \in 1 .. Len(w) : w2[i].req = w[i].req /\ (w[i].asked => w2[i].asked)

\* The exchange of c after a record, if the record tells of its request.
LEMMA TracedJoins ==
  ASSUME NEW src \in Nat, NEW m \in Machines, NEW M \in Machines, NEW R, NEW W, NEW W2,
         NEW c \in Conns, NEW r \in KeptRow,
         Grown(m, M), Traced(src, R, m, W),
         \A d \in Conns : d # c => M.entry[d] = m.entry[d] /\ W2[d] = W[d],
         m.entry[c] # NoEntry,
         OfJson(r) => r.producer[1] = m.prog["json"].inst /\ m.entry[c].owner = m.prog["json"].inst,
         ~OfJson(r) => r.producer[1] = m.prog["http"].inst,
         \/ M.entry[c] = NoEntry
         \/ /\ M.entry[c].owner = m.entry[c].owner
            /\ M.entry[c].number = m.entry[c].number /\ M.entry[c].run = m.entry[c].run
            /\ M.entry[c].state = 2 => m.entry[c].state = 2 \/ m.entry[c].run = m.prog["http"].run,
         About(Joins(src, R, m, c, r)), Confirmed(Joins(src, R, m, c, r)),
         Tracked(src, Joins(src, R, m, c, r), M, W2, c)
  PROVE  Traced(src, Joins(src, R, m, c, r), M, W2)
<1> DEFINE R2 == Joins(src, R, m, c, r)
<1>1. \A d \in Conns : Apart1(m, d) BY DEF Traced
<1>2. \A d \in Conns : Apart1(M, d) BY <1>1, ApartKept
<1>3. R2 \subseteq Keys \X KeptRow /\ Numbered(src, R2, M) BY NumberedJoins
<1>4. \A x \in R2 : x \in R \/ \A d \in Conns : d # c /\ m.entry[d] # NoEntry => x[1] # KeyOf(src, m.entry[d])
  <2> SUFFICES ASSUME NEW x \in R2, x \notin R
               PROVE  \A d \in Conns : d # c /\ m.entry[d] # NoEntry => x[1] # KeyOf(src, m.entry[d])
    OBVIOUS
  <2>1. x[1] = KeyOf(src, m.entry[c]) BY DEF Joins
  <2> QED BY <1>1, <2>1, KeysApart
<1> HIDE DEF R2
<1>5. About(R2) /\ Confirmed(R2) /\ Tracked(src, R2, M, W2, c) BY DEF R2
<1>6. Traced(src, R2, M, W2) BY <1>2, <1>3, <1>4, <1>5, TracedStep
<1> QED BY <1>6 DEF R2

\* The membership of a record in the larger set.
LEMMA JoinsFacts ==
  ASSUME NEW src, NEW R, NEW m, NEW c, NEW r
  PROVE  LET k == KeyOf(src, m.entry[c]) IN
         /\ \A x \in Joins(src, R, m, c, r) : x \in R \/ (x[1] = k /\ x[2] = r)
         /\ \A x \in R : x \in Joins(src, R, m, c, r)
BY DEF Joins

ConfirmWay(m, M, W, W2, c, r) ==
  /\ \A d \in Conns : d # c => M.entry[d] = m.entry[d] /\ W2[d] = W[d]
  /\ m.entry[c] # NoEntry
  /\ m.entry[c].run = m.prog["http"].run
  /\ m.entry[c].state = 1
  /\ ~OfJson(r)
  /\ r.producer[1] = m.prog["http"].inst
  /\ M.entry[c].owner = m.entry[c].owner
  /\ M.entry[c].number = m.entry[c].number
  /\ M.entry[c].run = m.entry[c].run
  /\ M.entry[c].state = 2
  /\ Carried(W[c], W2[c])
  /\ Len(W[c]) \in Nat
  /\ W[c] # << >> => Len(W[c]) > 0
  /\ W2[c] = << >> => Len(W2[c]) = 0
  /\ \E i \in 1 .. Len(W[c]) : r.req = W[c][i].req
  /\ W2[c][1].asked

\* The request headers confirm the exchange of a connection.
LEMMA TracedConfirm ==
  ASSUME NEW src \in Nat, NEW m \in Machines, NEW M \in Machines, NEW R, NEW W, NEW W2,
         NEW c \in Conns, NEW r \in KeptRow,
         Grown(m, M), Traced(src, R, m, W),
         ConfirmWay(m, M, W, W2, c, r)
  PROVE  Traced(src, Joins(src, R, m, c, r), M, W2)
<1> USE DEF ConfirmWay
<1> DEFINE R2 == Joins(src, R, m, c, r)
           e == m.entry[c]
           k == KeyOf(src, e)
<1>1. KeyOf(src, M.entry[c]) = k BY DEF KeyOf
<1>2. Tracked(src, R, m, W, c) BY DEF Traced
<1>3. ~Answered(R, k) BY <1>2 DEF Tracked
<1>4. ~Starts(r) /\ ~Answers(r) BY DEF Starts, Answers, OfJson
<1>5. ~Answered(R2, k) BY <1>3, <1>4, JoinsFacts DEF Answered
<1>a. \A x \in R2 : x[1] # k => x \in R BY JoinsFacts
<1>6. About(R2)
  <2> HIDE DEF R2, k
  <2> SUFFICES ASSUME NEW x \in R2, NEW y \in R2, NEW z \in R2, x[1] = y[1], x[1] = z[1], Starts(x[2]),
                      ~x[2].hidden, Answers(z[2]), Native(y[1], y[2])
               PROVE  y[2].req = x[2].req
    BY DEF About
  <2>1. x[1] # k /\ y[1] # k /\ z[1] # k BY <1>5 DEF Answered
  <2>2. x \in R BY <1>a, <2>1
  <2>3. y \in R BY <1>a, <2>1
  <2>4. z \in R BY <1>a, <2>1
  <2> QED BY <2>2, <2>3, <2>4 DEF Traced, About
<1>7. Confirmed(R2)
  <2> SUFFICES ASSUME NEW y \in R2, NEW z \in R2, y[1] = z[1], Confirms(y[2]), Answers(z[2])
               PROVE  Native(y[1], y[2])
    BY DEF Confirmed
  <2>1. z[1] # k BY <1>5 DEF Answered
  <2>2. y \in R /\ z \in R BY <2>1, JoinsFacts
  <2> QED BY <2>2 DEF Traced, Confirmed
<1>8. Tracked(src, R2, M, W2, c)
  <2> SUFFICES ASSUME NEW x \in R2, x[1] = k, Starts(x[2]), ~x[2].hidden
               PROVE  Tracked1(src, R2, M, W2, c, x[2])
    BY <1>1, <1>5 DEF Tracked
  <2>1. x \in R BY <1>4, JoinsFacts
  <2>2. Tracked1(src, R, m, W, c, x[2]) BY <1>2, <2>1 DEF Tracked
  <2>3. ASSUME Open(M, M.entry[c])
        PROVE  /\ \A i \in 1 .. Len(W2[c]) : W2[c][i].req = x[2].req
               /\ \A y \in R2 : y[1] = k /\ Native(y[1], y[2]) => y[2].req = x[2].req
               /\ W2[c] # << >>
    <3>1. Open(M, e) BY <2>3 DEF Open
    <3>2. Open(m, e) BY <3>1, GrownFacts
    <3>3. /\ \A i \in 1 .. Len(W[c]) : W[c][i].req = x[2].req
          /\ \A y \in R : y[1] = k /\ Native(y[1], y[2]) => y[2].req = x[2].req
      BY <2>2, <3>2 DEF Tracked1
    <3>4. r.req = x[2].req BY <3>3
    <3>5. Len(W2[c]) > 0 BY DEF Carried
    <3> QED BY <3>3, <3>4, <3>5, JoinsFacts DEF Carried
  <2>4. ASSUME Open(M, M.entry[c]) PROVE W2[c][1].req = x[2].req
    <3>1. Len(W2[c]) > 0 /\ Len(W2[c]) \in Nat BY DEF Carried
    <3> QED BY <2>3, <2>4, <3>1
  <2> HIDE DEF R2
  <2>5. M.entry[c].state # 3 BY SMT
  <2> QED BY <1>1, <1>5, <2>3, <2>4 DEF Tracked1
<1> QED BY <1>6, <1>7, <1>8, TracedJoins

HttpWay(m, M, W, W2, c, r) ==
  /\ \A d \in Conns : d # c => M.entry[d] = m.entry[d] /\ W2[d] = W[d]
  /\ m.entry[c] # NoEntry
  /\ m.entry[c].run = m.prog["http"].run
  /\ m.prog["http"].fails = 0
  /\ m.entry[c].state # 3
  /\ ~OfJson(r)
  /\ ~Confirms(r)
  /\ r.producer[1] = m.prog["http"].inst
  /\ Len(W[c]) \in Nat
  /\ Len(W[c]) > 0
  /\ W2[c] = << >> => Len(W2[c]) = 0
  /\ r.req = W[c][1].req
  /\ M.entry[c] = NoEntry \/ (M.entry[c] = m.entry[c] /\ Carried(W[c], W2[c]))

\* An event of the HTTP handler that neither confirms nor breaks.
LEMMA TracedHttp ==
  ASSUME NEW src \in Nat, NEW m \in Machines, NEW M \in Machines, NEW R, NEW W, NEW W2,
         NEW c \in Conns, NEW r \in KeptRow,
         Grown(m, M), Traced(src, R, m, W),
         HttpWay(m, M, W, W2, c, r)
  PROVE  Traced(src, Joins(src, R, m, c, r), M, W2)
<1> USE DEF HttpWay
<1> DEFINE R2 == Joins(src, R, m, c, r)
           e == m.entry[c]
           k == KeyOf(src, e)
<1>2. Tracked(src, R, m, W, c) BY DEF Traced
<1>3. e.state \in 1 .. 3 /\ e.owner \in Nat /\ m.prog["json"].inst \in Nat /\ m.prog["http"].inst = m.prog["json"].inst + 1
  BY MachineFacts, GrownFacts
<1>4. ~Starts(r) /\ ~Answers(r) BY DEF Starts, Answers, OfJson
<1>5. \A x \in R2 : x \in R \/ (x[1] = k /\ x[2] = r) BY JoinsFacts
<1>6. \A x \in R2 : Starts(x[2]) \/ Answers(x[2]) => x \in R BY <1>4, <1>5
<1>7. Answered(R2, k) => Answered(R, k) BY <1>6 DEF Answered
<1>8. ASSUME NEW x \in R, x[1] = k, Starts(x[2]), ~x[2].hidden, Answered(R, k), Native(k, r)
      PROVE  r.req = x[2].req
  <2>1. r.producer[1] = k[3] + 1 BY <1>8 DEF Native
  <2>2. k[3] = e.owner BY DEF KeyOf
  <2>3. e.owner = m.prog["json"].inst BY <1>3, <2>1, <2>2
  <2>4. Heard(m, e) BY <2>3 DEF Heard
  <2>5. e.state = 2 BY <1>2, <1>3, <1>8 DEF Tracked
  <2>6. Tracked1(src, R, m, W, c, x[2]) BY <1>2, <1>8 DEF Tracked
  <2> QED BY <1>8, <2>4, <2>5, <2>6 DEF Tracked1
<1> HIDE DEF R2, k
<1>9. About(R2)
  <2> SUFFICES ASSUME NEW x \in R2, NEW y \in R2, NEW z \in R2, x[1] = y[1], x[1] = z[1], Starts(x[2]),
                      ~x[2].hidden, Answers(z[2]), Native(y[1], y[2])
               PROVE  y[2].req = x[2].req
    BY DEF About
  <2>1. x \in R BY <1>6
  <2>2. z \in R BY <1>6
  <2>3. CASE y \in R BY <2>1, <2>2, <2>3 DEF Traced, About
  <2>4. CASE y[1] = k /\ y[2] = r
    <3>1. Answered(R, k) BY <2>2, <2>4 DEF Answered
    <3>2. Native(k, r) BY <2>4
    <3>3. x[1] = k BY <2>4
    <3> QED BY <1>8, <2>1, <2>4, <3>1, <3>2, <3>3
  <2> QED BY <1>5, <2>3, <2>4
<1>10. Confirmed(R2)
  <2> SUFFICES ASSUME NEW y \in R2, NEW z \in R2, y[1] = z[1], Confirms(y[2]), Answers(z[2])
               PROVE  Native(y[1], y[2])
    BY DEF Confirmed
  <2>1. z \in R BY <1>6
  <2>2. y \in R BY <1>5
  <2> QED BY <2>1, <2>2 DEF Traced, Confirmed
<1>11. ASSUME M.entry[c] = e, Carried(W[c], W2[c]) PROVE Tracked(src, R2, M, W2, c)
  <2>0. Answered(R2, k) => e.state # 1 BY <1>2, <1>7 DEF Tracked, k
  <2> SUFFICES ASSUME NEW x \in R2, x[1] = k, Starts(x[2]), ~x[2].hidden
               PROVE  Tracked1(src, R2, M, W2, c, x[2])
    BY <1>11, <2>0 DEF Tracked, k
  <2>1. x \in R BY <1>6
  <2>2. Tracked1(src, R, m, W, c, x[2]) BY <1>2, <2>1 DEF Tracked, k
  <2>3. ASSUME Open(M, e)
        PROVE  /\ \A i \in 1 .. Len(W2[c]) : W2[c][i].req = x[2].req
               /\ \A y \in R2 : y[1] = k /\ Native(y[1], y[2]) => y[2].req = x[2].req
    <3>1. Open(m, e) BY <2>3, GrownFacts
    <3>2. /\ \A i \in 1 .. Len(W[c]) : W[c][i].req = x[2].req
          /\ \A y \in R : y[1] = k /\ Native(y[1], y[2]) => y[2].req = x[2].req
      BY <2>2, <3>1 DEF Tracked1, k
    <3>3. r.req = x[2].req BY <3>2
    <3>4. \A i \in 1 .. Len(W2[c]) : W2[c][i].req = x[2].req BY <1>11, <3>2 DEF Carried
    <3> QED BY <1>5, <3>2, <3>3, <3>4
  <2>4. ASSUME Heard(M, e), e.state = 2, Open(M, e) \/ Answered(R2, k)
        PROVE  W2[c] # << >> /\ W2[c][1].req = x[2].req /\ W2[c][1].asked
    <3>1. Heard(m, e) /\ (Open(m, e) \/ Answered(R, k)) BY <1>7, <2>4, GrownFacts
    <3>2. W[c][1].req = x[2].req /\ W[c][1].asked BY <2>2, <2>4, <3>1 DEF Tracked1, k
    <3> QED BY <1>11, <3>2 DEF Carried
  <2> QED BY <1>11, <2>3, <2>4 DEF Tracked1, k
<1>12. Tracked(src, R2, M, W2, c)
  <2>1. CASE M.entry[c] = NoEntry BY <2>1 DEF Tracked
  <2> QED BY <1>11, <2>1
<1> QED BY <1>9, <1>10, <1>12, TracedJoins DEF R2

\* A record of a JSON message that does not begin an exchange.
LEMMA TracedJson ==
  ASSUME NEW src \in Nat, NEW m \in Machines, NEW M \in Machines, NEW R, NEW W, NEW c \in Conns,
         NEW r \in KeptRow,
         Grown(m, M), Traced(src, R, m, W), M.entry = m.entry,
         m.entry[c] # NoEntry, m.entry[c].run = m.prog["json"].run, m.prog["json"].fails = 0,
         m.entry[c].state # 3,
         m.entry[c].owner = m.prog["json"].inst, Answers(r) => m.entry[c].state = 2,
         OfJson(r), ~Starts(r), r.producer[1] = m.prog["json"].inst,
         \E i \in 1 .. Len(W[c]) : r.req = W[c][i].req
  PROVE  Traced(src, Joins(src, R, m, c, r), M, W)
<1> DEFINE R2 == Joins(src, R, m, c, r)
           e == m.entry[c]
           k == KeyOf(src, e)
<1>1. /\ m.prog["json"].inst \in Nat /\ m.prog["http"].inst = m.prog["json"].inst + 1
  BY MachineFacts, GrownFacts
<1>2. Tracked(src, R, m, W, c) BY DEF Traced
<1>3. Open(m, e) BY DEF Open
<1>4. k[1] = src /\ k[3] = m.prog["json"].inst BY DEF KeyOf
<1>5. \A x \in R2 : x \in R \/ (x[1] = k /\ x[2] = r) BY JoinsFacts
<1>6. \A x \in R2 : Starts(x[2]) => x \in R BY <1>5
<1>7. Answered(R2, k) => e.state # 1
  <2>1. CASE Answers(r) BY <2>1
  <2>2. CASE ~Answers(r)
    <3>1. Answered(R2, k) => Answered(R, k) BY <1>5, <2>2 DEF Answered
    <3> QED BY <1>2, <3>1 DEF Tracked
  <2> QED BY <2>1, <2>2
<1>8. ASSUME NEW x \in R, x[1] = k, Starts(x[2]), ~x[2].hidden
      PROVE  /\ Tracked1(src, R, m, W, c, x[2])
             /\ \A y \in R2 : y[1] = k /\ Native(y[1], y[2]) => y[2].req = x[2].req
             /\ \A i \in 1 .. Len(W[c]) : W[c][i].req = x[2].req
  <2>1. Tracked1(src, R, m, W, c, x[2]) BY <1>2, <1>8 DEF Tracked
  <2>2. /\ \A i \in 1 .. Len(W[c]) : W[c][i].req = x[2].req
        /\ \A y \in R : y[1] = k /\ Native(y[1], y[2]) => y[2].req = x[2].req
    BY <1>3, <2>1 DEF Tracked1
  <2>3. r.req = x[2].req BY <2>2
  <2> QED BY <1>5, <2>1, <2>2, <2>3
<1> HIDE DEF R2, k
<1>9. About(R2)
  <2> SUFFICES ASSUME NEW x \in R2, NEW y \in R2, NEW z \in R2, x[1] = y[1], x[1] = z[1], Starts(x[2]),
                      ~x[2].hidden, Answers(z[2]), Native(y[1], y[2])
               PROVE  y[2].req = x[2].req
    BY DEF About
  <2>1. x \in R BY <1>6
  <2>2. CASE x[1] = k BY <1>8, <2>1, <2>2
  <2>3. CASE x[1] # k
    <3>1. y \in R BY <1>5, <2>3
    <3>2. z \in R BY <1>5, <2>3
    <3> QED BY <2>1, <3>1, <3>2 DEF Traced, About
  <2> QED BY <2>2, <2>3
<1>10. Confirmed(R2)
  <2> SUFFICES ASSUME NEW y \in R2, NEW z \in R2, y[1] = z[1], Confirms(y[2]), Answers(z[2])
               PROVE  Native(y[1], y[2])
    BY DEF Confirmed
  <2>0. ~OfJson(y[2]) BY DEF Confirms, OfJson
  <2>1. y \in R BY <1>5, <2>0
  <2>2. CASE z \in R BY <2>1, <2>2 DEF Traced, Confirmed
  <2>3. CASE z[1] = k
    <3>1. y[1][1] = src /\ y[1][3] = m.prog["json"].inst BY <1>4, <2>3
    <3>2. y[2].producer[1] <= m.prog["http"].inst /\ y[2].producer[1] > y[1][3]
      BY <2>0, <2>1, <3>1 DEF Traced, Numbered
    <3>3. y[2] \in KeptRow BY <2>1 DEF Traced
    <3>4. y[2].producer[1] \in Nat BY <3>3 DEF KeptRow
    <3>5. y[2].producer[1] = y[1][3] + 1 BY <1>1, <3>1, <3>2, <3>4
    <3> QED BY <3>5 DEF Native
  <2> QED BY <1>5, <2>2, <2>3
<1>11. Tracked(src, R2, M, W, c)
  <2> SUFFICES ASSUME NEW x \in R2, x[1] = k, Starts(x[2]), ~x[2].hidden
               PROVE  Tracked1(src, R2, M, W, c, x[2])
    BY <1>7 DEF Tracked, k
  <2>1. x \in R BY <1>6
  <2>2. Heard(M, e) => Heard(m, e) BY GrownFacts
  <2>3. Heard(M, e) /\ e.state = 2 => W[c] # << >> /\ W[c][1].req = x[2].req /\ W[c][1].asked
    BY <1>3, <1>8, <2>1, <2>2 DEF Tracked1
  <2> QED BY <1>8, <2>1, <2>3 DEF Tracked1, k
<1> QED BY <1>9, <1>10, <1>11, TracedJoins DEF R2

BareWay(m, M, W, W2, c) ==
  /\ M.entry = m.entry
  /\ \A d \in Conns : d # c => W2[d] = W[d]
  /\ m.entry[c] # NoEntry /\ Open(M, m.entry[c]) /\ m.entry[c].state # 3 =>
       \A i \in 1 .. Len(W2[c]) : \E j \in 1 .. Len(W[c]) : W2[c][i].req = W[c][j].req
  /\ m.entry[c] # NoEntry /\ Heard(m, m.entry[c]) /\ m.entry[c].state = 2 /\ W[c] # << >> =>
       W2[c] # << >> /\ W2[c][1].req = W[c][1].req /\ (W[c][1].asked => W2[c][1].asked)

\* A record outside the exchange of c, which stays.
LEMMA TracedBare ==
  ASSUME NEW src \in Nat, NEW m \in Machines, NEW M \in Machines, NEW R, NEW W, NEW W2,
         NEW c \in Conns,
         Grown(m, M), Traced(src, R, m, W), BareWay(m, M, W, W2, c)
  PROVE  Traced(src, R, M, W2)
<1> USE DEF BareWay
<1> DEFINE e == m.entry[c]
           k == KeyOf(src, e)
<1>1. \A d \in Conns : Apart1(M, d)
  <2>1. M.entry[c] = NoEntry \/ (m.entry[c] # NoEntry /\ M.entry[c] = m.entry[c]) OBVIOUS
  <2> QED BY <2>1, ApartKept DEF Traced
<1>2. Numbered(src, R, M) BY NumberedGrows DEF Traced
<1>3. R \subseteq Keys \X KeptRow /\ About(R) /\ Confirmed(R) /\ Tracked(src, R, m, W, c)
  BY DEF Traced
<1>4. Tracked(src, R, M, W2, c)
  <2> SUFFICES ASSUME e # NoEntry
               PROVE  /\ Answered(R, k) => e.state # 1
                      /\ \A x \in R : x[1] = k /\ Starts(x[2]) /\ ~x[2].hidden => Tracked1(src, R, M, W2, c, x[2])
    BY DEF Tracked
  <2>1. Answered(R, k) => e.state # 1 BY <1>3 DEF Tracked
  <2>2. ASSUME NEW x \in R, x[1] = k, Starts(x[2]), ~x[2].hidden
        PROVE  Tracked1(src, R, M, W2, c, x[2])
    <3>1. Tracked1(src, R, m, W, c, x[2]) BY <1>3, <2>2 DEF Tracked
    <3>2. (Open(M, e) => Open(m, e)) /\ (Heard(M, e) => Heard(m, e)) BY GrownFacts
    <3>3. ASSUME Open(M, e), e.state # 3
          PROVE  /\ \A i \in 1 .. Len(W2[c]) : W2[c][i].req = x[2].req
                 /\ \A y \in R : y[1] = k /\ Native(y[1], y[2]) => y[2].req = x[2].req
      BY <3>1, <3>2, <3>3 DEF Tracked1
    <3>4. ASSUME Heard(M, e), e.state = 2, Open(M, e) \/ Answered(R, k)
          PROVE  W2[c] # << >> /\ W2[c][1].req = x[2].req /\ W2[c][1].asked
      <4>1. W[c] # << >> /\ W[c][1].req = x[2].req /\ W[c][1].asked
        BY <3>1, <3>2, <3>4 DEF Tracked1
      <4> QED BY <3>2, <3>4, <4>1
    <3> QED BY <3>3, <3>4 DEF Tracked1
  <2> QED BY <2>1, <2>2
<1>5. \A d \in Conns : d # c => M.entry[d] = m.entry[d] /\ W2[d] = W[d] OBVIOUS
<1> QED BY <1>1, <1>2, <1>3, <1>4, <1>5, TracedStep

StartWay(m, M, W, W2, c, r) ==
  /\ \A d \in Conns : d # c => M.entry[d] = m.entry[d] /\ W2[d] = W[d]
  /\ M.entry[c] # NoEntry
  /\ M.entry[c].owner = m.prog["json"].inst
  /\ M.entry[c].run = m.prog["json"].run
  /\ M.entry[c].number = m.prog["json"].calls + 1
  /\ M.entry[c].state = 1
  /\ M.prog["json"].calls = m.prog["json"].calls + 1
  /\ Starts(r)
  /\ r.producer[1] = m.prog["json"].inst
  /\ ~r.hidden => \A i \in 1 .. Len(W2[c]) : W2[c][i].req = r.req

\* A new exchange.
LEMMA TracedStart ==
  ASSUME NEW src \in Nat, NEW m \in Machines, NEW M \in Machines, NEW R, NEW W, NEW W2,
         NEW c \in Conns, NEW r \in KeptRow,
         Grown(m, M), Traced(src, R, m, W),
         StartWay(m, M, W, W2, c, r)
  PROVE  Traced(src, Joins(src, R, M, c, r), M, W2)
<1> USE DEF StartWay
<1> DEFINE R2 == Joins(src, R, M, c, r)
           e == M.entry[c]
           k == KeyOf(src, e)
<1>1. /\ m.prog["json"].inst \in Nat /\ m.prog["json"].calls \in Nat /\ m.prog["json"].run \in Nat
      /\ M.prog["json"].inst = m.prog["json"].inst /\ M.prog["json"].run = m.prog["json"].run
      /\ M.prog["http"].inst = m.prog["http"].inst /\ m.prog["http"].inst = m.prog["json"].inst + 1
      /\ M.prog["http"].run = m.prog["http"].run
  BY MachineFacts, GrownFacts
<1>2. k \in Keys /\ k[1] = src /\ k[3] = m.prog["json"].inst /\ k[4] = m.prog["json"].calls + 1
  BY <1>1, SMTT(40) DEF KeyOf, Keys
<1>3. R \subseteq Keys \X KeptRow BY DEF Traced
<1>4. Numbered(src, R, M) BY NumberedGrows DEF Traced
<1>5. \A x \in R : x[1] # k
  <2> SUFFICES ASSUME NEW x \in R, x[1] = k PROVE FALSE OBVIOUS
  <2>1. x[1][4] <= m.prog["json"].calls BY <1>2 DEF Traced, Numbered
  <2> QED BY <1>1, <1>2, <2>1
<1>6. \A x \in R2 : x \in R \/ (x[1] = k /\ x[2] = r) BY JoinsFacts
<1>7. OfJson(r) /\ ~Answers(r) BY DEF Starts, OfJson, Answers
<1>8. R2 \subseteq Keys \X KeptRow BY <1>2, <1>3 DEF Joins
<1>9. \A d \in Conns : d # c /\ M.entry[d] # NoEntry => ~(M.entry[d].owner = e.owner /\ M.entry[d].number = e.number)
  <2> SUFFICES ASSUME NEW d \in Conns, d # c, M.entry[d] # NoEntry, M.entry[d].owner = e.owner, M.entry[d].number = e.number
               PROVE  FALSE
    OBVIOUS
  <2>1. M.entry[d] = m.entry[d] OBVIOUS
  <2>2. m.entry[d].number <= m.prog["json"].calls BY <2>1 DEF Traced, Apart1
  <2> QED BY <1>1, <2>1, <2>2
<1>10. ASSUME NEW d \in Conns PROVE Apart1(M, d)
  <2>1. CASE d = c
    <3>1. e.number <= M.prog["json"].calls /\ e.owner <= M.prog["json"].inst /\ e.run <= M.prog["json"].run BY <1>1
    <3> QED BY <1>9, <2>1, <3>1 DEF Apart1
  <2>2. CASE d # c
    <3>1. M.entry[d] = m.entry[d] BY <2>2
    <3> SUFFICES ASSUME m.entry[d] # NoEntry PROVE Apart1(M, d) BY <3>1 DEF Apart1
    <3>2. Apart1(m, d) BY DEF Traced
    <3>3. m.entry[d].number \in Nat BY MachineFacts
    <3>4. m.entry[d].number <= m.prog["json"].calls => m.entry[d].number <= M.prog["json"].calls
      BY <1>1, <3>3
    <3>5. \A f \in Conns : /\ M.entry[f] # NoEntry /\ M.entry[f].owner = M.entry[d].owner
                           /\ M.entry[f].number = M.entry[d].number
                           => f = d
      <4> SUFFICES ASSUME NEW f \in Conns, M.entry[f] # NoEntry, M.entry[f].owner = M.entry[d].owner,
                          M.entry[f].number = M.entry[d].number
                   PROVE  f = d
        OBVIOUS
      <4>1. f # c BY <1>9, <2>2, <3>1
      <4>2. M.entry[f] = m.entry[f] BY <4>1
      <4> QED BY <3>1, <3>2, <4>2 DEF Apart1
    <3> QED BY <1>1, <3>1, <3>2, <3>4, <3>5 DEF Apart1
  <2> QED BY <2>1, <2>2
<1>11. \A x \in R2 : x \in R \/ \A d \in Conns : d # c /\ m.entry[d] # NoEntry => x[1] # KeyOf(src, m.entry[d])
  <2> SUFFICES ASSUME NEW x \in R2, x \notin R, NEW d \in Conns, d # c, m.entry[d] # NoEntry, x[1] = KeyOf(src, m.entry[d])
               PROVE  FALSE
    OBVIOUS
  <2>1. x[1] = k BY <1>6
  <2>2. M.entry[d] = m.entry[d] OBVIOUS
  <2>3. m.entry[d].owner = e.owner /\ m.entry[d].number = e.number BY <2>1 DEF KeyOf
  <2> QED BY <1>9, <2>2, <2>3
<1>a. r.producer[1] <= M.prog["http"].inst BY <1>1
<1>12. Numbered(src, R2, M)
  <2> HIDE DEF R2, k
  <2> SUFFICES ASSUME NEW x \in R2
        PROVE  /\ x[1][1] <= src
               /\ x[1][1] = src =>
                    /\ x[1][3] <= M.prog["json"].inst /\ x[2].producer[1] <= M.prog["http"].inst
                    /\ x[1][3] = M.prog["json"].inst => x[1][4] <= M.prog["json"].calls
               /\ OfJson(x[2]) => x[2].producer[1] = x[1][3]
               /\ ~OfJson(x[2]) => x[2].producer[1] > x[1][3]
    BY DEF Numbered
  <2>1. CASE x \in R BY <1>4, <2>1 DEF Numbered
  <2>2. CASE x[1] = k /\ x[2] = r BY <1>1, <1>2, <1>7, <1>a, <2>2
  <2> QED BY <1>6, <2>1, <2>2
<1> HIDE DEF R2, k
<1>13. About(R2)
  <2> SUFFICES ASSUME NEW x \in R2, NEW y \in R2, NEW z \in R2, x[1] = y[1], x[1] = z[1], Starts(x[2]),
                      ~x[2].hidden, Answers(z[2]), Native(y[1], y[2])
               PROVE  y[2].req = x[2].req
    BY DEF About
  <2>1. z \in R BY <1>6, <1>7
  <2>2. z[1] # k BY <1>5, <2>1
  <2>3. x \in R BY <1>6, <2>2
  <2>4. y \in R BY <1>6, <2>2
  <2> QED BY <2>1, <2>3, <2>4 DEF Traced, About
<1>14. Confirmed(R2)
  <2> SUFFICES ASSUME NEW y \in R2, NEW z \in R2, y[1] = z[1], Confirms(y[2]), Answers(z[2])
               PROVE  Native(y[1], y[2])
    BY DEF Confirmed
  <2>1. z \in R BY <1>6, <1>7
  <2>2. y \in R BY <1>5, <1>6, <2>1
  <2> QED BY <2>1, <2>2 DEF Traced, Confirmed
<1>15. Tracked(src, R2, M, W2, c)
  <2>1. ~Answered(R2, k) BY <1>5, <1>6, <1>7 DEF Answered
  <2> SUFFICES ASSUME NEW x \in R2, x[1] = k, Starts(x[2]), ~x[2].hidden
               PROVE  Tracked1(src, R2, M, W2, c, x[2])
    BY <2>1 DEF Tracked, k
  <2>2. x[2] = r BY <1>5, <1>6
  <2>3. \A y \in R2 : y[1] = k => y[2] = r BY <1>5, <1>6
  <2> QED BY <2>2, <2>3 DEF Tracked1, k
<1> QED BY <1>8, <1>10, <1>11, <1>12, <1>13, <1>14, <1>15, TracedStep DEF R2

\* The record of an exchange that a journal row is, if it is one.
Rec(row) == IF Tells(row) THEN {<<Key(row), Kept(row)>>} ELSE {}
Adds(R, row) == R \union Rec(row)

\* What the exporter keeps of an emitted record.
LEMMA KeptFields ==
  ASSUME NEW ev, NEW frame, Told(ev), frame \in Frame, NEW row, row = Emitted(ev, frame)
  PROVE  /\ Kept(row) \in KeptRow
         /\ Kept(row).req = ev.req /\ Kept(row).hidden = ev.hidden /\ Kept(row).part = ev.part
         /\ Kept(row).code = ev.code /\ Kept(row).side = frame.side /\ Kept(row).producer[1] = ev.inst
         /\ Key(row) = <<source, ev.run, frame.owner, frame.exchange>>
         /\ Tells(row) <=> frame.exchange # 0 /\ frame.phase # 4
<1>1. row.ev = ev /\ row.frame = frame /\ row.type = "record" /\ row.source = source
  BY DEF Emitted
<1>2. /\ ev.req \in Nat /\ ev.hidden \in BOOLEAN /\ ev.part \in Parts /\ ev.code \in Nat /\ ev.good \in BOOLEAN
      /\ ev.inst \in Nat /\ ev.rev \in Nat
  BY DEF Told, Ev, Pos
<1>3. frame.side \in 0 .. 2 /\ frame.invocation \in Nat BY DEF Frame
<1> DEFINE v == IF Http(row) THEN 0 ELSE frame.invocation
<1>4. v \in Nat BY <1>3
<1>5. Kept(row) = [req |-> ev.req, hidden |-> ev.hidden, part |-> ev.part, code |-> ev.code,
                   good |-> ev.good, side |-> frame.side, producer |-> <<ev.inst, ev.rev>>, invocation |-> v]
  BY <1>1 DEF Kept
<1> HIDE DEF v
<1>6. Kept(row) \in KeptRow BY <1>2, <1>3, <1>4, <1>5 DEF KeptRow
<1> QED BY <1>1, <1>5, <1>6 DEF Key, Tells

\* The frame of a keyed record and what it adds.
LEMMA KeyedAdds ==
  ASSUME NEW m \in Machines, NEW ev, Told(ev), NEW frame \in Frame, NEW n \in 0 .. 6,
         NEW p \in 0 .. 4, m.entry[ev.c] # NoEntry, m.entry[ev.c].run = ev.run,
         frame = Keyed(ev, m.entry[ev.c], n, p), NEW R, NEW row, row = Emitted(ev, frame)
  PROVE  /\ Kept(row).side = ev.side
         /\ p = 4 => Adds(R, row) = R
         /\ p # 4 => Adds(R, row) = Joins(source, R, m, ev.c, Kept(row))
<1> DEFINE e == m.entry[ev.c]
<1>0. ev.c \in Conns BY DEF Told, Ev
<1>1. frame.side = ev.side /\ frame.owner = e.owner /\ frame.exchange = e.number /\ frame.phase = p BY KeyedFields
<1>2. e.number # 0 BY <1>0, MachineFacts
<1>3. Key(row) = KeyOf(source, e) BY <1>1, KeptFields DEF KeyOf
<1>4. Tells(row) <=> p # 4 BY <1>1, <1>2, KeptFields
<1>5. Kept(row).side = ev.side BY <1>1, KeptFields
<1> QED BY <1>3, <1>4, <1>5 DEF Rec, Joins, Adds

\* How the requests of a connection follow an event of the HTTP handler.
HttpFits(ev, w, w2) ==
  \/ /\ ev.code = 142 /\ ev.side = 1 /\ w # << >> /\ Carried(w, w2) /\ w2[1].asked
     /\ \E i \in 1 .. Len(w) : ev.req = w[i].req
  \/ ev.code = 29 /\ ev.side = 1 /\ w # << >> /\ ev.req = w[1].req /\ w2 = Tail(w)
  \/ ev.code \in {1, 5, 57} /\ w2 = << >> /\ (ev.code = 57 => ev.side = 1)
  \/ ev.code \notin {1, 5, 29, 57, 142} /\ w # << >> /\ ev.req = w[1].req /\ Carried(w, w2)

\* No HTTP event adds a request to a connection.
LEMMA WireFacts ==
  ASSUME NEW w \in Seq(Request), NEW w2 \in Seq(Request), NEW ev, HttpFits(ev, w, w2)
  PROVE  /\ \A i \in 1 .. Len(w2) : \E j \in 1 .. Len(w) : w2[i].req = w[j].req
         /\ Len(w) \in Nat /\ Len(w2) \in Nat
         /\ w # << >> => Len(w) > 0
         /\ w2 = << >> => Len(w2) = 0
<1>1. /\ Len(w) \in Nat /\ Len(w2) \in Nat /\ (w # << >> => Len(w) > 0) /\ (w2 = << >> => Len(w2) = 0)
  OBVIOUS
<1>2. ASSUME NEW i \in 1 .. Len(w2) PROVE \E j \in 1 .. Len(w) : w2[i].req = w[j].req
  <2>1. CASE Carried(w, w2)
    <3>1. i \in 1 .. Len(w) /\ w2[i].req = w[i].req BY <2>1 DEF Carried
    <3> QED BY <3>1
  <2>2. CASE w2 = << >>
    <3>1. Len(w2) = 0 BY <2>2
    <3> QED BY <3>1
  <2>3. CASE w # << >> /\ w2 = Tail(w)
    <3>1. Len(w2) = Len(w) - 1 /\ w2[i] = w[i + 1] BY <2>3
    <3>2. i + 1 \in 1 .. Len(w) BY <1>1, <3>1
    <3> QED BY <3>1, <3>2
  <2> QED BY <2>1, <2>2, <2>3 DEF HttpFits
<1> QED BY <1>1, <1>2

\* A change of state leaves the key of an entry alone.
LEMMA EntryFields ==
  ASSUME NEW m \in Machines, NEW c \in Conns, NEW n \in 1 .. 3, NEW e2,
         e2 = [m.entry[c] EXCEPT !.state = n], m.entry[c] # NoEntry
  PROVE  e2.owner = m.entry[c].owner /\ e2.number = m.entry[c].number /\ e2.run = m.entry[c].run /\ e2.state = n
<1>1. m.entry[c] \in [run : Pos, owner : Pos, number : Pos, state : 1 .. 3] BY DEF Machines, Entry
<1> QED BY <1>1

\* A record of the HTTP program keeps the groups about one request.
LEMMA HttpTraced ==
  ASSUME NEW m \in Machines, NEW M \in Machines, NEW ev, Told(ev), ev.part = "http_response",
         ev.inst = m.prog["http"].inst, ev.run = m.prog["http"].run,
         ev.fails = m.prog["http"].fails,
         NEW s, Outcome(m, ev, s), M.entry = s.entry, s.frame \in Frame, Grown(m, M),
         source \in Nat,
         NEW R, NEW W \in Wires, NEW W2 \in Wires, Traced(source, R, m, W),
         \A d \in Conns : d # ev.c => W2[d] = W[d], HttpFits(ev, W[ev.c], W2[ev.c])
  PROVE  Traced(source, Adds(R, Emitted(ev, s.frame)), M, W2)
<1> DEFINE c == ev.c
           e == m.entry[c]
           row == Emitted(ev, s.frame)
           r == Kept(row)
<1>1. c \in Conns BY DEF Told, Ev
<1>2. W[c] \in Seq(Request) /\ W2[c] \in Seq(Request) BY <1>1 DEF Wires
<1>3. /\ \A i \in 1 .. Len(W2[c]) : \E j \in 1 .. Len(W[c]) : W2[c][i].req = W[c][j].req
      /\ Len(W[c]) \in Nat /\ Len(W2[c]) \in Nat
      /\ W[c] # << >> => Len(W[c]) > 0
      /\ W2[c] = << >> => Len(W2[c]) = 0
  BY <1>2, WireFacts
<1>4. /\ r \in KeptRow /\ r.req = ev.req /\ r.part = ev.part /\ r.code = ev.code /\ r.side = s.frame.side
      /\ r.producer[1] = m.prog["http"].inst
      /\ Tells(row) <=> s.frame.exchange # 0 /\ s.frame.phase # 4
  BY KeptFields
<1>5. ~OfJson(r) BY <1>4 DEF OfJson
<1>6. m.entry \in [Conns -> Entry] BY DEF Machines
<1>7. ASSUME NEW n \in 0 .. 6, NEW p \in 0 .. 4, e # NoEntry, e.run = ev.run, s.frame = Keyed(ev, e, n, p)
      PROVE  /\ r.side = ev.side
             /\ p = 4 => Adds(R, row) = R
             /\ p # 4 => Adds(R, row) = Joins(source, R, m, c, r)
  BY <1>7, KeyedAdds
<1>8. ASSUME NEW x, s.entry = [m.entry EXCEPT ![c] = x]
      PROVE  M.entry[c] = x /\ \A d \in Conns : d # c => M.entry[d] = m.entry[d] /\ W2[d] = W[d]
  BY <1>1, <1>6, <1>8
<1> HIDE DEF row, r
<1>9. CASE IsBare(m, ev, s)
  <2>1. ~Tells(row) BY <1>4, <1>9 DEF IsBare
  <2>2. Adds(R, row) = R BY <2>1 DEF Rec, Adds
  <2>3. CASE Forgets(m, ev, s)
    <3>1. M.entry[c] = NoEntry /\ \A d \in Conns : d # c => M.entry[d] = m.entry[d] /\ W2[d] = W[d]
      BY <1>8, <2>3 DEF Forgets
    <3>z. Traced(source, R, M, W2)
      BY <1>1, <3>1, TracedDrop
    <3> QED BY <2>2, <3>z DEF row
  <2>4. CASE Keeps(m, s)
    <3>1. M.entry = m.entry BY <2>4 DEF Keeps
    <3>2. ~(e # NoEntry /\ Heard(m, e) /\ e.state = 2)
      <4> SUFFICES ASSUME e # NoEntry, Heard(m, e), e.state = 2 PROVE FALSE OBVIOUS
      <4>1. Mine(m, ev) BY DEF Mine, Heard
      <4> QED BY <1>9, <4>1 DEF IsBare
    <3>y. BareWay(m, M, W, W2, c)
      BY <1>1, <1>3, <3>1, <3>2 DEF BareWay
    <3>z. Traced(source, R, M, W2)
      BY <1>1, <3>y, TracedBare
    <3> QED BY <2>2, <3>z DEF row
  <2> QED BY <1>9, <2>3, <2>4 DEF IsBare
<1>10. CASE IsStart(m, ev, s) BY <1>10 DEF IsStart
<1>11. CASE IsPoison(m, ev, s) BY <1>11 DEF IsPoison
<1>12. CASE IsConfirm(m, ev, s)
  <2>1. /\ e # NoEntry /\ e.run = ev.run /\ e.state = 1 /\ s.frame = Keyed(ev, e, 1, 2) /\ ev.code = 142
        /\ s.entry = [m.entry EXCEPT ![c] = [e EXCEPT !.state = 2]]
    BY <1>12 DEF IsConfirm, Mine, Turns
  <2>2. Adds(R, row) = Joins(source, R, m, c, r) BY <1>7, <2>1
  <2>3. M.entry[c] = [e EXCEPT !.state = 2] /\ \A d \in Conns : d # c => M.entry[d] = m.entry[d] /\ W2[d] = W[d]
    BY <1>8, <2>1
  <2>4. /\ M.entry[c].owner = e.owner /\ M.entry[c].number = e.number /\ M.entry[c].run = e.run /\ M.entry[c].state = 2
    BY <1>1, <2>1, <2>3, EntryFields
  <2>5. Carried(W[c], W2[c]) /\ W2[c][1].asked /\ \E i \in 1 .. Len(W[c]) : r.req = W[c][i].req
    BY <1>4, <2>1 DEF HttpFits
  <2>6. /\ e # NoEntry /\ e.run = m.prog["http"].run /\ e.state = 1
        /\ \A d \in Conns : d # c => M.entry[d] = m.entry[d] /\ W2[d] = W[d]
    BY <2>1, <2>3
  <2>7. /\ r.producer[1] = m.prog["http"].inst /\ r \in KeptRow BY <1>4
  <2>8. /\ Len(W[c]) \in Nat /\ (W[c] # << >> => Len(W[c]) > 0) /\ (W2[c] = << >> => Len(W2[c]) = 0) BY <1>3
  <2>y. ConfirmWay(m, M, W, W2, c, r)
    BY <1>1, <1>5, <2>4, <2>5, <2>6, <2>7, <2>8 DEF ConfirmWay
  <2>z. Traced(source, Joins(source, R, m, c, r), M, W2)
    BY <1>1, <1>4, <2>y, TracedConfirm
  <2> QED BY <2>2, <2>z DEF row
<1>13. CASE IsInvalid(m, ev, s)
  <2>1. /\ e # NoEntry /\ e.run = ev.run /\ s.frame = Keyed(ev, e, 2, 4)
        /\ s.entry = [m.entry EXCEPT ![c] = [e EXCEPT !.state = 3]]
    BY <1>13 DEF IsInvalid, Mine, Turns
  <2>2. Adds(R, row) = R BY <1>7, <2>1
  <2>3. M.entry[c] = [e EXCEPT !.state = 3] /\ \A d \in Conns : d # c => M.entry[d] = m.entry[d] /\ W2[d] = W[d]
    BY <1>8, <2>1
  <2>4. /\ M.entry[c].owner = e.owner /\ M.entry[c].number = e.number /\ M.entry[c].run = e.run /\ M.entry[c].state = 3
    BY <1>1, <2>1, <2>3, EntryFields
  <2>5. e # NoEntry /\ \A d \in Conns : d # c => M.entry[d] = m.entry[d] /\ W2[d] = W[d]
    BY <2>1, <2>3
  <2>z. Traced(source, R, M, W2)
    BY <1>1, <2>4, <2>5, TracedDrop
  <2> QED BY <2>2, <2>z DEF row
<1>14. CASE IsBreak(m, ev, s)
  <2>1. /\ e # NoEntry /\ e.run = ev.run /\ s.frame = Keyed(ev, e, 1, 4)
        /\ s.entry = [m.entry EXCEPT ![c] = NoEntry]
    BY <1>14 DEF IsBreak, Mine, Forgets
  <2>2. Adds(R, row) = R BY <1>7, <2>1
  <2>3. M.entry[c] = NoEntry /\ \A d \in Conns : d # c => M.entry[d] = m.entry[d] /\ W2[d] = W[d]
    BY <1>8, <2>1
  <2>z. Traced(source, R, M, W2)
    BY <1>1, <2>3, TracedDrop
  <2> QED BY <2>2, <2>z DEF row
<1>15. CASE IsDone(m, ev, s)
  <2>1. /\ e # NoEntry /\ e.run = ev.run /\ e.state # 3 /\ s.frame = Keyed(ev, e, 1, 3) /\ ev.code = 29 /\ ev.fails = 0
        /\ s.entry = [m.entry EXCEPT ![c] = NoEntry]
    BY <1>15 DEF IsDone, Mine, Forgets
  <2>2. Adds(R, row) = Joins(source, R, m, c, r) BY <1>7, <2>1
  <2>3. M.entry[c] = NoEntry /\ \A d \in Conns : d # c => M.entry[d] = m.entry[d] /\ W2[d] = W[d]
    BY <1>8, <2>1
  <2>4. ~Confirms(r) BY <1>4, <2>1 DEF Confirms
  <2>5. W[c] # << >> /\ r.req = W[c][1].req BY <1>4, <2>1 DEF HttpFits
  <2>6. /\ e # NoEntry /\ e.run = m.prog["http"].run /\ m.prog["http"].fails = 0 /\ e.state # 3
        /\ \A d \in Conns : d # c => M.entry[d] = m.entry[d] /\ W2[d] = W[d]
        /\ M.entry[c] = NoEntry
    BY <2>1, <2>3
  <2>7. /\ r.producer[1] = m.prog["http"].inst /\ r \in KeptRow BY <1>4
  <2>8. /\ Len(W[c]) \in Nat /\ Len(W[c]) > 0 /\ (W2[c] = << >> => Len(W2[c]) = 0) BY <1>3, <2>5
  <2>y. HttpWay(m, M, W, W2, c, r)
    BY <1>1, <1>5, <2>4, <2>5, <2>6, <2>7, <2>8 DEF HttpWay
  <2>z. Traced(source, Joins(source, R, m, c, r), M, W2)
    BY <1>1, <1>4, <2>y, TracedHttp
  <2> QED BY <2>2, <2>z DEF row
<1>16. CASE IsOther(m, ev, s)
  <2>1. /\ e # NoEntry /\ e.run = ev.run /\ e.state # 3 /\ s.frame = Keyed(ev, e, 1, 2) /\ ev.fails = 0
        /\ M.entry = m.entry
    BY <1>16 DEF IsOther, Mine, Keeps
  <2>2. Adds(R, row) = Joins(source, R, m, c, r) /\ r.side = ev.side BY <1>7, <2>1
  <2>3. ev.code \notin {1, 5} /\ (ev.code \in {29, 57, 142} => ev.side # 1) BY <1>16 DEF IsOther
  <2>4. ~Confirms(r) BY <1>4, <2>2, <2>3 DEF Confirms
  <2>5. W[c] # << >> /\ r.req = W[c][1].req /\ Carried(W[c], W2[c]) BY <1>4, <2>3 DEF HttpFits
  <2>6. \A d \in Conns : d # c => M.entry[d] = m.entry[d] /\ W2[d] = W[d] BY <2>1
  <2>7. /\ e # NoEntry /\ e.run = m.prog["http"].run /\ m.prog["http"].fails = 0 /\ e.state # 3
        /\ M.entry[c] = e
    BY <2>1
  <2>8. /\ r.producer[1] = m.prog["http"].inst /\ r \in KeptRow BY <1>4
  <2>9. /\ Len(W[c]) \in Nat /\ Len(W[c]) > 0 /\ (W2[c] = << >> => Len(W2[c]) = 0) BY <1>3, <2>5
  <2>y. HttpWay(m, M, W, W2, c, r)
    BY <1>1, <1>5, <2>4, <2>5, <2>6, <2>7, <2>8, <2>9 DEF HttpWay
  <2>z. Traced(source, Joins(source, R, m, c, r), M, W2)
    BY <1>1, <1>4, <2>y, TracedHttp
  <2> QED BY <2>2, <2>z DEF row
<1> QED BY <1>9, <1>10, <1>11, <1>12, <1>13, <1>14, <1>15, <1>16 DEF Outcome

\* The same for a reader of a JSON message.
JsonFits(m, ev, w, w2) ==
  \/ /\ ev.part = "method" /\ ev.side = 1
     /\ \E q \in Request : q.req = ev.req /\ w2 = Append(w, q)
     /\ \/ ev.hidden \/ w = << >>
        \/ /\ m.entry[ev.c] # NoEntry /\ m.entry[ev.c].owner = m.prog["json"].inst
           /\ m.entry[ev.c].run = m.prog["json"].run
  \/ ~(ev.part = "method" /\ ev.side = 1) /\ w2 = w /\ \E i \in 1 .. Len(w) : ev.req = w[i].req

\* So does a record of the JSON program.
LEMMA JsonTraced ==
  ASSUME NEW m \in Machines, NEW M \in Machines, NEW ev, Told(ev), ev.part # "http_response",
         ev.inst = m.prog["json"].inst, ev.run = m.prog["json"].run,
         ev.fails = m.prog["json"].fails,
         ev.seq = m.prog["json"].calls + 1, M.prog["json"].calls = m.prog["json"].calls + 1,
         NEW s, Outcome(m, ev, s), M.entry = s.entry, s.frame \in Frame, Grown(m, M),
         source \in Nat,
         NEW R, NEW W \in Wires, NEW W2 \in Wires, Traced(source, R, m, W),
         \A d \in Conns : d # ev.c => W2[d] = W[d], JsonFits(m, ev, W[ev.c], W2[ev.c])
  PROVE  Traced(source, Adds(R, Emitted(ev, s.frame)), M, W2)
<1> DEFINE c == ev.c
           e == m.entry[c]
           row == Emitted(ev, s.frame)
           r == Kept(row)
<1>1. c \in Conns BY DEF Told, Ev
<1>2. W[c] \in Seq(Request) /\ W2[c] \in Seq(Request) BY <1>1 DEF Wires
<1>4. /\ r \in KeptRow /\ r.req = ev.req /\ r.part = ev.part /\ r.code = ev.code /\ r.side = s.frame.side
      /\ r.hidden = ev.hidden /\ r.producer[1] = m.prog["json"].inst
      /\ Tells(row) <=> s.frame.exchange # 0 /\ s.frame.phase # 4
      /\ Key(row) = <<source, ev.run, s.frame.owner, s.frame.exchange>>
  BY KeptFields
<1>5. OfJson(r) BY <1>4 DEF OfJson
<1>6. m.entry \in [Conns -> Entry] BY DEF Machines
<1>7. ASSUME NEW n \in 0 .. 6, NEW p \in 0 .. 4, e # NoEntry, e.run = ev.run, s.frame = Keyed(ev, e, n, p)
      PROVE  /\ r.side = ev.side
             /\ p = 4 => Adds(R, row) = R
             /\ p # 4 => Adds(R, row) = Joins(source, R, m, c, r)
  BY <1>7, KeyedAdds
<1>8. ASSUME NEW x, s.entry = [m.entry EXCEPT ![c] = x]
      PROVE  M.entry[c] = x /\ \A d \in Conns : d # c => M.entry[d] = m.entry[d] /\ W2[d] = W[d]
  BY <1>1, <1>6, <1>8
<1> HIDE DEF row, r
<1>0. ev.code = 0 BY DEF Told
<1>9. CASE IsBare(m, ev, s)
  <2>1. ~Tells(row) BY <1>4, <1>9 DEF IsBare
  <2>2. Adds(R, row) = R BY <2>1 DEF Rec, Adds
  <2>3. M.entry = m.entry BY <1>0, <1>9 DEF IsBare, Keeps
  <2>4. CASE W2[c] = W[c]
    <3>1. \A i \in 1 .. Len(W2[c]) : \E j \in 1 .. Len(W[c]) : W2[c][i].req = W[c][j].req BY <2>4
    <3>2. W[c] # << >> => W2[c] # << >> /\ W2[c][1].req = W[c][1].req /\ (W[c][1].asked => W2[c][1].asked) BY <2>4
    <3>y. BareWay(m, M, W, W2, c)
      BY <1>1, <2>3, <3>1, <3>2 DEF BareWay
    <3>z. Traced(source, R, M, W2)
      BY <1>1, <3>y, TracedBare
    <3> QED BY <2>2, <3>z DEF row
  <2>5. CASE ev.part = "method" /\ ev.side = 1 /\ \E q \in Request : W2[c] = Append(W[c], q)
    <3>1. e # NoEntry => ~Open(M, e)
      <4> SUFFICES ASSUME e # NoEntry, Open(M, e) PROVE FALSE OBVIOUS
      <4>1. ev.fails = 0 BY GrownFacts DEF Open
      <4> QED BY <1>9, <2>5, <4>1 DEF IsBare
    <3>2. W[c] # << >> => W2[c] # << >> /\ W2[c][1] = W[c][1] BY <1>2, <2>5
    <3>y. BareWay(m, M, W, W2, c)
      BY <1>1, <2>3, <3>1, <3>2 DEF BareWay
    <3>z. Traced(source, R, M, W2)
      BY <1>1, <3>y, TracedBare
    <3> QED BY <2>2, <3>z DEF row
  <2> QED BY <2>4, <2>5 DEF JsonFits
<1>10. CASE IsStart(m, ev, s)
  <2>1. /\ ev.part = "method" /\ ev.side = 1 /\ ev.fails = 0 /\ ~Mine(m, ev)
        /\ s.frame = Keyed(ev, Fresh(ev), 1, 1) /\ s.entry = [m.entry EXCEPT ![c] = Fresh(ev)]
    BY <1>10 DEF IsStart
  <2>2. M.entry[c] = Fresh(ev) /\ \A d \in Conns : d # c => M.entry[d] = m.entry[d] /\ W2[d] = W[d]
    BY <1>8, <2>1
  <2>3. /\ Fresh(ev).owner = ev.inst /\ Fresh(ev).run = ev.run /\ Fresh(ev).number = ev.seq /\ Fresh(ev).state = 1
    BY DEF Fresh
  <2>4. ev.seq # 0 BY DEF Told, Ev, Pos
  <2>5. M.entry[c] # NoEntry BY <2>2, <2>3 DEF NoEntry
  <2>6. s.frame.side = ev.side /\ s.frame.owner = ev.inst /\ s.frame.exchange = ev.seq /\ s.frame.phase = 1
    BY <2>1, <2>3, KeyedFields
  <2>7. Tells(row) BY <1>4, <2>4, <2>6
  <2>8. Key(row) = KeyOf(source, M.entry[c]) BY <1>4, <2>2, <2>3, <2>6 DEF KeyOf
  <2>9. Adds(R, row) = Joins(source, R, M, c, r) BY <2>7, <2>8 DEF Rec, Adds, Joins, r
  <2>10. Starts(r) BY <1>4, <2>1, <2>6 DEF Starts
  <2>11. ASSUME ~r.hidden, NEW i \in 1 .. Len(W2[c]) PROVE W2[c][i].req = r.req
    <3>1. ~(/\ e # NoEntry /\ e.owner = m.prog["json"].inst /\ e.run = m.prog["json"].run)
      BY <2>1 DEF Mine
    <3>2. W[c] = << >> BY <1>4, <2>1, <2>11, <3>1 DEF JsonFits
    <3>3. PICK q \in Request : q.req = ev.req /\ W2[c] = Append(W[c], q) BY <2>1 DEF JsonFits
    <3>4. W2[c] = <<q>> BY <3>2, <3>3
    <3>5. W2[c][i] = q BY <2>11, <3>4
    <3> QED BY <1>4, <3>3, <3>5
  <2>12. /\ M.entry[c].owner = m.prog["json"].inst /\ M.entry[c].run = m.prog["json"].run
         /\ M.entry[c].number = m.prog["json"].calls + 1 /\ M.entry[c].state = 1
         /\ \A d \in Conns : d # c => M.entry[d] = m.entry[d] /\ W2[d] = W[d]
    BY <2>2, <2>3
  <2>13. r.producer[1] = m.prog["json"].inst /\ r \in KeptRow BY <1>4
  <2>y. StartWay(m, M, W, W2, c, r)
    BY <1>1, <2>5, <2>10, <2>11, <2>12, <2>13 DEF StartWay
  <2>z. Traced(source, Joins(source, R, M, c, r), M, W2)
    BY <1>1, <2>13, <2>y, TracedStart
  <2> QED BY <2>9, <2>z DEF row
<1>11. CASE IsPoison(m, ev, s)
  <2>1. /\ e # NoEntry /\ e.run = ev.run /\ s.frame = Keyed(ev, e, 4, 4)
        /\ s.entry = [m.entry EXCEPT ![c] = [e EXCEPT !.state = 3]]
    BY <1>11 DEF IsPoison, Mine, Turns
  <2>2. Adds(R, row) = R BY <1>7, <2>1
  <2>3. M.entry[c] = [e EXCEPT !.state = 3] /\ \A d \in Conns : d # c => M.entry[d] = m.entry[d] /\ W2[d] = W[d]
    BY <1>8, <2>1
  <2>4. /\ M.entry[c].owner = e.owner /\ M.entry[c].number = e.number /\ M.entry[c].run = e.run /\ M.entry[c].state = 3
    BY <1>1, <2>1, <2>3, EntryFields
  <2>5. e # NoEntry /\ \A d \in Conns : d # c => M.entry[d] = m.entry[d] /\ W2[d] = W[d]
    BY <2>1, <2>3
  <2>z. Traced(source, R, M, W2)
    BY <1>1, <2>4, <2>5, TracedDrop
  <2> QED BY <2>2, <2>z DEF row
<1>12. CASE IsOther(m, ev, s)
  <2>1. /\ e # NoEntry /\ e.run = ev.run /\ e.state # 3 /\ s.frame = Keyed(ev, e, 1, 2) /\ ev.fails = 0
        /\ e.owner = ev.inst /\ M.entry = m.entry
    BY <1>12 DEF IsOther, Mine, Keeps
  <2>2. Adds(R, row) = Joins(source, R, m, c, r) /\ r.side = ev.side BY <1>7, <2>1
  <2>3. ~(ev.part = "method" /\ ev.side = 1) /\ (ev.side = 2 => e.state = 2) BY <1>12 DEF IsOther
  <2>4. ~Starts(r) /\ (Answers(r) => e.state = 2) BY <1>4, <2>2, <2>3 DEF Starts, Answers
  <2>5. W2[c] = W[c] /\ \E i \in 1 .. Len(W[c]) : r.req = W[c][i].req BY <1>4, <2>3 DEF JsonFits
  <2>6. W2 = W BY <2>5 DEF Wires
  <2>z. Traced(source, Joins(source, R, m, c, r), M, W)
    BY <1>1, <1>4, <1>5, <2>1, <2>4, <2>5, <2>6, TracedJson
  <2> QED BY <2>2, <2>6, <2>z DEF row
<1> QED BY <1>9, <1>10, <1>11, <1>12 DEF Outcome, IsConfirm, IsInvalid, IsBreak, IsDone

-----------------------------------------------------------------------------
(* The journal.                                                            *)

\* A number that program p has already given, at most.
Marked(src, P, a, b, n) ==
  /\ a <= src
  /\ a = src => b <= P["http"].inst /\ \A p \in Programs : b = P[p].inst => n <= P[p].calls

NextPart(a, b) == \E i \in 1 .. 3 : a = JsonParts[i] /\ b = JsonParts[i + 1]
\* A record of an exchange that is not the first of its message, and the one before it.
Later(b) == b \in Record /\ b.frame.exchange # 0 /\ b.ev.part \notin {"method", "http_response"}
Before(a, b) ==
  /\ a \in Record /\ a.frame.exchange # 0 /\ Key(a) = Key(b) /\ a.frame.side = b.frame.side
  /\ NextPart(a.ev.part, b.ev.part)

RowsOk(src, P, s) ==
  /\ s \in Seq(Row)
  /\ \A i \in 1 .. Len(s) : s[i] \in Record =>
       Accepted(s[i]) /\ Marked(src, P, s[i].source, s[i].ev.inst, s[i].ev.seq)
RowsOrdered(s) ==
  \A i, j \in 1 .. Len(s) :
    /\ i < j /\ s[i] \in Record /\ s[j] \in Record
    /\ s[i].source = s[j].source /\ s[i].ev.inst = s[j].ev.inst
    => s[i].ev.seq < s[j].ev.seq
RowsLinked(s) ==
  \A i \in 1 .. Len(s) : i > 1 /\ Later(s[i]) => Before(s[i - 1], s[i])
\* What the exporter remembers of the rows it has read.
NumbersOk(src, P, q) ==
  /\ DOMAIN q \subseteq Nat \X Nat \X Nat
  /\ \A x \in DOMAIN q : q[x] \in Nat /\ Marked(src, P, x[1], x[2], q[x])
NumbersBehind(q, s) ==
  \A i \in 1 .. Len(s) : s[i] \in Record /\ Producer(s[i]) \in DOMAIN q => q[Producer(s[i])] < s[i].ev.seq
\* A group that the next row goes on with ends with the row before it.
HeadLinked(pend, s) ==
  Len(s) > 0 /\ Later(s[1]) =>
    \A i \in 1 .. Len(pend) : pend[i].key = Key(s[1]) =>
      LET r == pend[i].rows[Len(pend[i].rows)]
      IN r.side = s[1].frame.side /\ NextPart(r.part, s[1].ev.part)

Log(src, q, pend, P, s) ==
  /\ RowsOk(src, P, s) /\ RowsOrdered(s) /\ RowsLinked(s)
  /\ NumbersOk(src, P, q) /\ NumbersBehind(q, s) /\ HeadLinked(pend, s)

Progs == [Programs -> Bind]

\* The numbers of a program.
LEMMA ProgFacts ==
  ASSUME NEW P \in Progs, NEW p \in Programs
  PROVE  /\ P[p].inst \in Nat /\ P[p].calls \in Nat /\ P[p].run \in Nat /\ P[p].rev \in Nat
         /\ P["http"].inst \in Nat /\ P["json"].inst \in Nat
BY DEF Progs, Bind, Pos, Programs

\* The numbers of a record.
LEMMA RecordFacts ==
  ASSUME NEW r \in Record
  PROVE  /\ r.source \in Nat /\ r.ev.inst \in Nat /\ r.ev.run \in Nat /\ r.ev.seq \in Nat /\ r.ev.fails \in Nat
         /\ r.frame \in Frame /\ r.ev \in Ev /\ r.type = "record"
         /\ Producer(r) = <<r.source, r.ev.inst, r.ev.run>>
         /\ Producer(r) \in Nat \X Nat \X Nat
BY DEF Record, Ev, Pos, Producer

\* The programs have gone on, or have been loaded again.
Onward(src, P, src2, P2) ==
  \A a, b, n \in Nat : Marked(src, P, a, b, n) => Marked(src2, P2, a, b, n)

\* The rows written before stay behind the programs.
LEMMA LogOnward ==
  ASSUME NEW src \in Nat, NEW P, NEW src2 \in Nat, NEW P2, Onward(src, P, src2, P2),
         NEW q, NEW pend, NEW s, Log(src, q, pend, P, s)
  PROVE  Log(src2, q, pend, P2, s)
<1>1. \A i \in 1 .. Len(s) : s[i] \in Record => Marked(src2, P2, s[i].source, s[i].ev.inst, s[i].ev.seq)
  BY RecordFacts DEF Log, RowsOk, Onward
<1>2. ASSUME NEW x \in DOMAIN q PROVE Marked(src2, P2, x[1], x[2], q[x])
  <2>1. x[1] \in Nat /\ x[2] \in Nat /\ q[x] \in Nat BY DEF Log, NumbersOk
  <2> QED BY <2>1 DEF Log, NumbersOk, Onward
<1>3. RowsOk(src2, P2, s) BY <1>1 DEF Log, RowsOk
<1>4. NumbersOk(src2, P2, q) BY <1>2 DEF Log, NumbersOk
<1> QED BY <1>3, <1>4 DEF Log

\* A row is appended.
LEMMA LogAppend ==
  ASSUME NEW src \in Nat, NEW P, NEW q, NEW pend, NEW s, NEW r \in Row, Log(src, q, pend, P, s),
         r \in Record =>
           /\ Accepted(r) /\ Marked(src, P, r.source, r.ev.inst, r.ev.seq)
           /\ \A i \in 1 .. Len(s) : s[i] \in Record /\ s[i].source = r.source /\ s[i].ev.inst = r.ev.inst
                                     => s[i].ev.seq < r.ev.seq
           /\ Producer(r) \in DOMAIN q => q[Producer(r)] < r.ev.seq,
         Later(r) => Len(s) > 0 /\ Before(s[Len(s)], r)
  PROVE  Log(src, q, pend, P, Append(s, r))
<1> DEFINE t == Append(s, r)
<1>1. s \in Seq(Row) BY DEF Log, RowsOk
<1>2. /\ t \in Seq(Row) /\ Len(t) = Len(s) + 1 /\ t[Len(s) + 1] = r /\ Len(s) \in Nat
      /\ \A i \in 1 .. Len(s) : t[i] = s[i]
  BY <1>1
<1> HIDE DEF t
<1>3. \A i \in 1 .. Len(t) : i \in 1 .. Len(s) \/ i = Len(s) + 1 BY <1>2
<1>4. RowsOk(src, P, t)
  <2> SUFFICES ASSUME NEW i \in 1 .. Len(t), t[i] \in Record
               PROVE  Accepted(t[i]) /\ Marked(src, P, t[i].source, t[i].ev.inst, t[i].ev.seq)
    BY <1>2 DEF RowsOk
  <2>1. CASE i \in 1 .. Len(s) BY <1>2, <2>1 DEF Log, RowsOk
  <2>2. CASE i = Len(s) + 1 BY <1>2, <2>2
  <2> QED BY <1>3, <2>1, <2>2
<1>5. RowsOrdered(t)
  <2> SUFFICES ASSUME NEW i \in 1 .. Len(t), NEW j \in 1 .. Len(t), i < j, t[i] \in Record, t[j] \in Record,
                      t[i].source = t[j].source, t[i].ev.inst = t[j].ev.inst
               PROVE  t[i].ev.seq < t[j].ev.seq
    BY DEF RowsOrdered
  <2>1. i \in 1 .. Len(s) BY <1>2, <1>3
  <2>2. CASE j \in 1 .. Len(s) BY <1>2, <2>1, <2>2 DEF Log, RowsOrdered
  <2>3. CASE j = Len(s) + 1 BY <1>2, <2>1, <2>3
  <2> QED BY <1>3, <2>2, <2>3
<1>6. RowsLinked(t)
  <2> SUFFICES ASSUME NEW i \in 1 .. Len(t), i > 1, Later(t[i]) PROVE Before(t[i - 1], t[i])
    BY DEF RowsLinked
  <2>1. CASE i \in 1 .. Len(s)
    <3>1. i - 1 \in 1 .. Len(s) BY <1>2, <2>1
    <3> QED BY <1>2, <2>1, <3>1 DEF Log, RowsLinked
  <2>2. CASE i = Len(s) + 1
    <3>1. i - 1 = Len(s) /\ Len(s) \in 1 .. Len(s) BY <1>2, <2>2
    <3> QED BY <1>2, <2>2, <3>1
  <2> QED BY <1>3, <2>1, <2>2
<1>7. NumbersBehind(q, t)
  <2> SUFFICES ASSUME NEW i \in 1 .. Len(t), t[i] \in Record, Producer(t[i]) \in DOMAIN q
               PROVE  q[Producer(t[i])] < t[i].ev.seq
    BY DEF NumbersBehind
  <2>1. CASE i \in 1 .. Len(s) BY <1>2, <2>1 DEF Log, NumbersBehind
  <2>2. CASE i = Len(s) + 1 BY <1>2, <2>2
  <2> QED BY <1>3, <2>1, <2>2
<1>8. HeadLinked(pend, t)
  <2>1. CASE Len(s) = 0
    <3>1. t[1] = r BY <1>2, <2>1
    <3>2. ~Later(r) BY <2>1
    <3> QED BY <3>1, <3>2 DEF HeadLinked
  <2>2. CASE Len(s) > 0
    <3>1. t[1] = s[1] BY <1>2, <2>2
    <3> QED BY <2>2, <3>1 DEF Log, HeadLinked
  <2> QED BY <1>2, <2>1, <2>2
<1>9. NumbersOk(src, P, q) BY DEF Log
<1> QED BY <1>4, <1>5, <1>6, <1>7, <1>8, <1>9 DEF Log, t

\* A program numbers its next record and appends it.
RecordWay(src, P, P2, p, s, r) ==
  /\ P["http"].inst = P["json"].inst + 1
  /\ \A x \in Programs : P2[x].inst = P[x].inst /\ (x # p => P2[x].calls = P[x].calls)
  /\ P2[p].calls = P[p].calls + 1
  /\ Accepted(r) /\ r.source = src /\ r.ev.inst = P[p].inst /\ r.ev.seq = P[p].calls + 1
  /\ Later(r) => Len(s) > 0 /\ Before(s[Len(s)], r)

\* A record is lost, or appended.
LEMMA LogRecord ==
  ASSUME NEW src \in Nat, NEW P \in Progs, NEW P2 \in Progs, NEW p \in Programs, NEW q, NEW pend,
         NEW s,
         NEW r \in Record, Log(src, q, pend, P, s), RecordWay(src, P, P2, p, s, r)
  PROVE  Log(src, q, pend, P2, s) /\ Log(src, q, pend, P2, Append(s, r))
<1> USE DEF RecordWay
<1>1. \A x \in Programs : P[x].inst \in Nat /\ P[x].calls \in Nat BY ProgFacts
<1>2. Onward(src, P, src, P2)
  <2> SUFFICES ASSUME NEW a \in Nat, NEW b \in Nat, NEW n \in Nat, Marked(src, P, a, b, n)
               PROVE  Marked(src, P2, a, b, n)
    BY DEF Onward
  <2> SUFFICES ASSUME a = src
               PROVE  b <= P2["http"].inst /\ \A x \in Programs : b = P2[x].inst => n <= P2[x].calls
    BY DEF Marked
  <2>1. b <= P["http"].inst /\ \A x \in Programs : b = P[x].inst => n <= P[x].calls BY DEF Marked
  <2>2. "http" \in Programs BY DEF Programs
  <2> QED BY <1>1, <2>1, <2>2
<1>3. Log(src, q, pend, P2, s) BY <1>2, LogOnward
<1>4. ASSUME NEW x \in Programs, r.ev.inst = P2[x].inst PROVE x = p
  <2>1. "json" \in Programs /\ "http" \in Programs BY DEF Programs
  <2>2. P["json"].inst # P["http"].inst BY <1>1, <2>1
  <2>3. P[x].inst = P[p].inst BY <1>4
  <2>4. (x = "json" \/ x = "http") /\ (p = "json" \/ p = "http") BY DEF Programs
  <2> QED BY <2>2, <2>3, <2>4
<1>5. r.ev.inst <= P2["http"].inst BY <1>1 DEF Programs
<1>6. Marked(src, P2, r.source, r.ev.inst, r.ev.seq)
  <2>1. \A x \in Programs : r.ev.inst = P2[x].inst => r.ev.seq <= P2[x].calls BY <1>1, <1>4
  <2> QED BY <1>5, <2>1 DEF Marked
<1>7. ASSUME NEW n \in Nat, Marked(src, P, src, P[p].inst, n) PROVE n < r.ev.seq
  BY <1>1, <1>7 DEF Marked
<1>8. ASSUME NEW i \in 1 .. Len(s), s[i] \in Record, s[i].source = r.source, s[i].ev.inst = r.ev.inst
      PROVE  s[i].ev.seq < r.ev.seq
  <2>1. Marked(src, P, src, P[p].inst, s[i].ev.seq) BY <1>8 DEF Log, RowsOk
  <2>2. s[i].ev.seq \in Nat BY <1>8, RecordFacts
  <2> QED BY <1>7, <2>1, <2>2
<1>9. ASSUME Producer(r) \in DOMAIN q PROVE q[Producer(r)] < r.ev.seq
  <2> DEFINE x == Producer(r)
  <2>1. x[1] = src /\ x[2] = P[p].inst BY RecordFacts
  <2>2. q[x] \in Nat /\ Marked(src, P, x[1], x[2], q[x]) BY <1>9 DEF Log, NumbersOk
  <2> HIDE DEF x
  <2>3. q[x] < r.ev.seq BY <1>7, <2>1, <2>2
  <2> QED BY <2>3 DEF x
<1>10. r \in Row BY DEF Row
<1> QED BY <1>3, <1>6, <1>8, <1>9, <1>10, LogAppend

-----------------------------------------------------------------------------
(* An invocation.                                                          *)

\* Appending after concatenating.
LEMMA ConcatAppend ==
  ASSUME NEW S, NEW s \in Seq(S), NEW t \in Seq(S), NEW r \in S
  PROVE  s \o Append(t, r) = Append(s \o t, r)
OBVIOUS

Recs(s) == {<<Key(s[j]), Kept(s[j])>> : j \in {i \in 1 .. Len(s) : Tells(s[i])}}
Gathered(R, s) == R \union Recs(s)

\* The records of a stream that grows.
LEMMA RecsAppend ==
  ASSUME NEW s \in Seq(Row), NEW r \in Row
  PROVE  Recs(Append(s, r)) = Recs(s) \union Rec(r)
<1> DEFINE t == Append(s, r)
<1>1. /\ Len(t) = Len(s) + 1 /\ t[Len(s) + 1] = r /\ Len(s) \in Nat
      /\ \A i \in 1 .. Len(s) : t[i] = s[i]
  OBVIOUS
<1> HIDE DEF t
<1>2. \A i \in 1 .. Len(t) : i \in 1 .. Len(s) \/ i = Len(s) + 1 BY <1>1
<1>3. \A i \in 1 .. Len(s) : i \in 1 .. Len(t) BY <1>1
<1>4. Len(s) + 1 \in 1 .. Len(t) BY <1>1
<1>5. ASSUME NEW x \in Recs(t) PROVE x \in Recs(s) \union Rec(r)
  <2>1. PICK j \in 1 .. Len(t) : Tells(t[j]) /\ x = <<Key(t[j]), Kept(t[j])>> BY <1>5 DEF Recs
  <2>2. CASE j \in 1 .. Len(s) BY <1>1, <2>1, <2>2 DEF Recs
  <2>3. CASE j = Len(s) + 1 BY <1>1, <2>1, <2>3 DEF Rec
  <2> QED BY <1>2, <2>2, <2>3
<1>6. ASSUME NEW x \in Recs(s) PROVE x \in Recs(t)
  <2>1. PICK j \in 1 .. Len(s) : Tells(s[j]) /\ x = <<Key(s[j]), Kept(s[j])>> BY <1>6 DEF Recs
  <2>2. j \in 1 .. Len(t) /\ t[j] = s[j] BY <1>1, <1>3
  <2> QED BY <2>1, <2>2 DEF Recs
<1>7. ASSUME NEW x \in Rec(r) PROVE x \in Recs(t)
  <2>1. Tells(r) /\ x = <<Key(r), Kept(r)>> BY <1>7 DEF Rec
  <2> QED BY <1>1, <1>4, <2>1 DEF Recs
<1> QED BY <1>5, <1>6, <1>7 DEF t

\* The same together with the records of the pending groups.
LEMMA GatheredAppend ==
  ASSUME NEW s \in Seq(Row), NEW r \in Row, NEW R
  PROVE  /\ Gathered(R, Append(s, r)) = Adds(Gathered(R, s), r)
         /\ Gathered(R, s) \subseteq Adds(Gathered(R, s), r)
BY RecsAppend DEF Gathered, Adds

Running(q, pend, R, m, l, W) ==
  /\ m \in Machines /\ MapOk(m) /\ m.prog["http"].inst = m.prog["json"].inst + 1
  /\ W \in Wires /\ l \in Seq(Row)
  /\ Log(source, q, pend, m.prog, l) /\ Traced(source, Gathered(R, l), m, W)

\* A reader counts one output of its own program.
LEMMA ReaderGrown ==
  ASSUME NEW m \in Machines, MapOk(m), source \in Nat, NEW p \in Programs, NEW ev,
         Suits(m, p, ev),
         NEW lost \in BOOLEAN, m.prog["http"].inst = m.prog["json"].inst + 1,
         NEW M, M = Reader(m, p, ev, lost)
  PROVE  /\ Grown(m, M) /\ M.prog["http"].inst = M.prog["json"].inst + 1
         /\ m.prog \in Progs /\ M.prog \in Progs
         /\ \A x \in Programs : M.prog[x].inst = m.prog[x].inst /\ M.prog[x].run = m.prog[x].run
                                /\ (x # p => M.prog[x] = m.prog[x])
         /\ M.prog[p].calls = m.prog[p].calls + 1
         /\ ~lost => M.prog[p].fails = m.prog[p].fails
         /\ lost => M.prog[p].fails # 0
<1> DEFINE full == Stamped(ev, p, m.prog[p])
           s == Scope(m, full)
<1> HIDE DEF full, s
<1>1. /\ M \in Machines
      /\ \A x \in Programs : x # p => M.prog[x] = m.prog[x]
      /\ M.prog[p].inst = m.prog[p].inst
      /\ M.prog[p].run = m.prog[p].run /\ M.prog[p].calls = m.prog[p].calls + 1
      /\ M.prog[p].fails = IF lost THEN m.prog[p].fails + 1 ELSE m.prog[p].fails
  BY ReaderDoes
<1>2. m.prog \in Progs /\ M.prog \in Progs BY <1>1 DEF Machines, Progs
<1>3. \A x \in Programs : m.prog[x].calls \in Nat /\ m.prog[x].fails \in Nat
  BY <1>2 DEF Progs, Bind
<1>4. \A x \in Programs : M.prog[x].inst = m.prog[x].inst /\ M.prog[x].run = m.prog[x].run
  BY <1>1
<1>5. \A x \in Programs : (M.prog[x].fails = 0 => m.prog[x].fails = 0) /\ m.prog[x].calls <= M.prog[x].calls
  BY <1>1, <1>3
<1>6. lost => M.prog[p].fails # 0 BY <1>1, <1>3
<1>7. Grown(m, M) BY <1>4, <1>5 DEF Grown
<1>8. M.prog["http"].inst = M.prog["json"].inst + 1 BY <1>4 DEF Programs
<1> QED BY <1>1, <1>2, <1>4, <1>6, <1>7, <1>8

\* The journal after one reader.
After(s, m) == s \o m.rows
Put(s, row) == Append(s, row)
LastLinks(l, row) == Later(row) => Len(l) > 0 /\ Before(l[Len(l)], row)

\* The record of a reader goes to the end of the stream.
LEMMA ReaderLog ==
  ASSUME NEW q, NEW pend, NEW R, NEW m, NEW s \in Seq(Row), NEW W,
         Running(q, pend, R, m, After(s, m), W),
         source \in Nat, NEW p \in Programs, NEW ev, Suits(m, p, ev), NEW lost \in BOOLEAN,
         NEW M, M = Reader(m, p, ev, lost), NEW row,
         row = Emitted(Stamped(ev, p, m.prog[p]), Scope(m, Stamped(ev, p, m.prog[p])).frame),
         LastLinks(After(s, m), row)
  PROVE  /\ row \in Record /\ row \in Row
         /\ lost => After(s, M) = After(s, m)
         /\ ~lost => After(s, M) = Put(After(s, m), row)
         /\ After(s, M) \in Seq(Row)
         /\ Log(source, q, pend, M.prog, After(s, M))
<1> DEFINE full == Stamped(ev, p, m.prog[p])
           sc == Scope(m, full)
           l == s \o m.rows
<1>1. m \in Machines /\ MapOk(m) /\ m.prog["http"].inst = m.prog["json"].inst + 1 /\ l \in Seq(Row)
      /\ Log(source, q, pend, m.prog, l)
  BY DEF Running, After
<1>2. /\ M \in Machines /\ M.rows = (IF lost THEN m.rows ELSE Append(m.rows, row))
      /\ row \in Record /\ Accepted(row)
  BY <1>1, ReaderDoes
<1>3. full.inst = m.prog[p].inst /\ full.seq = m.prog[p].calls + 1 BY StampedFields
<1> HIDE DEF full, sc
<1>4. row.ev = full /\ row.source = source BY DEF Emitted, full, sc
<1>5. m.rows \in Seq(Row) BY <1>1 DEF Machines
<1>6. row \in Row BY <1>2 DEF Row
<1>7. s \o M.rows = IF lost THEN l ELSE Append(l, row)
  <2>1. CASE lost BY <1>2, <2>1
  <2>2. CASE ~lost
    <3>1. s \o Append(m.rows, row) = Append(l, row) BY <1>5, <1>6, ConcatAppend
    <3> QED BY <1>2, <2>2, <3>1
  <2> QED BY <2>1, <2>2
<1> HIDE DEF l
<1>8. /\ m.prog \in Progs /\ M.prog \in Progs /\ M.prog[p].calls = m.prog[p].calls + 1
      /\ \A x \in Programs : M.prog[x].inst = m.prog[x].inst /\ (x # p => M.prog[x].calls = m.prog[x].calls)
  BY <1>1, ReaderGrown
<1>9. Later(row) => Len(l) > 0 /\ Before(l[Len(l)], row) BY DEF l, LastLinks, After
<1>10. row.source = source /\ row.ev.inst = m.prog[p].inst /\ row.ev.seq = m.prog[p].calls + 1
  BY <1>3, <1>4
<1>11. Log(source, q, pend, M.prog, l) /\ Log(source, q, pend, M.prog, Append(l, row))
  <2>1. RecordWay(source, m.prog, M.prog, p, l, row)
    BY <1>1, <1>2, <1>8, <1>9, <1>10 DEF RecordWay
  <2> QED BY <1>1, <1>2, <1>8, <2>1, LogRecord
<1>12. s \o M.rows \in Seq(Row) BY <1>1, <1>6, <1>7
<1> QED BY <1>2, <1>6, <1>7, <1>11, <1>12 DEF l, After, Put

Elsewhere(W, W2, c) == \A d \in Conns : d # c => W2[d] = W[d]

\* An invocation of the HTTP program keeps everything.
LEMMA HttpRuns ==
  ASSUME NEW q, NEW pend, NEW R, NEW m, NEW s \in Seq(Row), NEW W,
         Running(q, pend, R, m, After(s, m), W),
         source \in Nat, NEW ev, Suits(m, "http", ev), NEW lost \in BOOLEAN,
         NEW W2 \in Wires, Elsewhere(W, W2, ev.c), HttpFits(ev, W[ev.c], W2[ev.c]),
         NEW M, M = Reader(m, "http", ev, lost)
  PROVE  /\ Running(q, pend, R, M, After(s, M), W2)
         /\ M.prog["json"] = m.prog["json"]
<1> DEFINE full == Stamped(ev, "http", m.prog["http"])
           sc == Scope(m, full)
           row == Emitted(full, sc.frame)
           l == After(s, m)
           G == Gathered(R, l)
<1>0. "http" \in Programs /\ "json" \in Programs BY DEF Programs
<1>1. m \in Machines /\ MapOk(m) /\ m.prog["http"].inst = m.prog["json"].inst + 1 /\ l \in Seq(Row)
      /\ Traced(source, G, m, W) /\ W \in Wires
  BY DEF Running
<1>2. /\ M \in Machines /\ MapOk(M) /\ M.entry = sc.entry
      /\ Told(full) /\ Outcome(m, full, sc)
      /\ row \in Record
  BY <1>0, <1>1, ReaderDoes
<1>3. /\ full.c = ev.c /\ full.req = ev.req /\ full.side = ev.side /\ full.part = ev.part /\ full.code = ev.code
      /\ full.inst = m.prog["http"].inst /\ full.run = m.prog["http"].run /\ full.fails = m.prog["http"].fails
  BY StampedFields
<1>4. /\ Grown(m, M) /\ M.prog["http"].inst = M.prog["json"].inst + 1 /\ M.prog["json"] = m.prog["json"]
  BY <1>0, <1>1, ReaderGrown
<1> HIDE DEF full, sc
<1>5. full.part = "http_response" BY <1>3 DEF Suits
<1>6. LastLinks(l, row) BY <1>5 DEF LastLinks, Later, Emitted
<1>7. sc.frame \in Frame
  <2>1. row.frame = sc.frame BY DEF Emitted
  <2> QED BY <1>2, <2>1, RecordFacts
<1> HIDE DEF row
<1>8. /\ row \in Row
      /\ lost => After(s, M) = l
      /\ ~lost => After(s, M) = Put(l, row)
      /\ After(s, M) \in Seq(Row)
      /\ Log(source, q, pend, M.prog, After(s, M))
  <2>1. row = Emitted(Stamped(ev, "http", m.prog["http"]), Scope(m, Stamped(ev, "http", m.prog["http"])).frame)
    BY DEF row, sc, full
  <2> QED BY <1>0, <1>6, <2>1, ReaderLog
<1>9. HttpFits(full, W[full.c], W2[full.c]) BY <1>3 DEF HttpFits
<1>10. Traced(source, Adds(G, row), M, W2)
  <2>1. \A d \in Conns : d # full.c => W2[d] = W[d] BY <1>3 DEF Elsewhere
  <2> HIDE DEF G
  <2> QED BY <1>1, <1>2, <1>3, <1>4, <1>5, <1>7, <1>9, <2>1, HttpTraced DEF row
<1>11. Traced(source, Gathered(R, After(s, M)), M, W2)
  <2>1. Gathered(R, Put(l, row)) = Adds(G, row) /\ G \subseteq Adds(G, row)
    BY <1>1, <1>8, GatheredAppend DEF Put
  <2>2. CASE lost BY <1>8, <1>10, <2>1, <2>2, TracedLess
  <2>3. CASE ~lost BY <1>8, <1>10, <2>1, <2>3
  <2> QED BY <2>2, <2>3
<1>12. Running(q, pend, R, M, After(s, M), W2) BY <1>2, <1>4, <1>8, <1>11 DEF Running
<1> QED BY <1>4, <1>12

\* If the next reader adds to the exchange of c, this is the last row of it.
Linked(m, l, c, side, part) ==
  /\ m.prog["json"].fails = 0 /\ m.entry[c] # NoEntry /\ m.entry[c].run = m.prog["json"].run
  /\ m.entry[c].owner = m.prog["json"].inst /\ m.entry[c].state # 3
  /\ side = 2 => m.entry[c].state = 2
  => /\ Len(l) > 0
     /\ LET a == l[Len(l)] IN
        /\ a \in Record /\ a.frame.exchange # 0 /\ Key(a) = KeyOf(source, m.entry[c])
        /\ a.frame.side = side /\ a.ev.part = part

\* The record of a reader that is not the first of a message.
LEMMA LaterIs ==
  ASSUME NEW m \in Machines, NEW ev, Told(ev), NEW sc, Outcome(m, ev, sc), NEW row \in Record,
         row = Emitted(ev, sc.frame),
         ev.inst = m.prog["json"].inst, ev.run = m.prog["json"].run,
         ev.fails = m.prog["json"].fails,
         Later(row), NEW l, NEW part, Linked(m, l, ev.c, ev.side, part), NextPart(part, ev.part)
  PROVE  Len(l) > 0 /\ Before(l[Len(l)], row)
<1> DEFINE e == m.entry[ev.c]
<1>1. row.ev = ev /\ row.frame = sc.frame /\ row.source = source BY DEF Emitted
<1>2. ev.part # "method" /\ ev.part # "http_response" /\ sc.frame.exchange # 0 BY <1>1 DEF Later
<1>3. IsOther(m, ev, sc)
  BY <1>2 DEF Outcome, IsBare, IsStart, IsPoison, IsConfirm, IsInvalid, IsBreak, IsDone
<1>4. /\ e # NoEntry /\ e.run = ev.run /\ e.owner = ev.inst /\ ev.fails = 0 /\ e.state # 3 /\ (ev.side = 2 => e.state = 2)
      /\ sc.frame = Keyed(ev, e, 1, 2)
  BY <1>2, <1>3 DEF IsOther, Mine
<1>5. sc.frame.side = ev.side /\ sc.frame.owner = e.owner /\ sc.frame.exchange = e.number
  BY <1>4, KeyedFields
<1>6. Key(row) = KeyOf(source, e) BY <1>1, <1>4, <1>5 DEF Key, KeyOf
<1> DEFINE a == l[Len(l)]
<1>7. /\ Len(l) > 0 /\ a \in Record /\ a.frame.exchange # 0 /\ Key(a) = KeyOf(source, e)
      /\ a.frame.side = ev.side /\ a.ev.part = part
  BY <1>4 DEF Linked
<1> QED BY <1>1, <1>5, <1>6, <1>7 DEF Before

\* What a reader leaves for the next one.
LEMMA LinkedNext ==
  ASSUME NEW m \in Machines, NEW M \in Machines, Grown(m, M), NEW ev, Told(ev),
         ev.part # "http_response", NEW sc, Outcome(m, ev, sc), NEW row \in Record,
         row = Emitted(ev, sc.frame), M.entry = sc.entry,
         M.prog["json"].fails = m.prog["json"].fails,
         ev.inst = m.prog["json"].inst, ev.run = m.prog["json"].run,
         ev.fails = m.prog["json"].fails,
         NEW l \in Seq(Row)
  PROVE  Linked(M, Append(l, row), ev.c, ev.side, ev.part)
<1> DEFINE e == M.entry[ev.c]
           t == Append(l, row)
           a == t[Len(t)]
<1>0. m.entry \in [Conns -> Entry] /\ ev.c \in Conns /\ ev.code = 0 BY DEF Machines, Told, Ev
<1>1. SUFFICES ASSUME M.prog["json"].fails = 0, e # NoEntry, e.run = M.prog["json"].run, e.owner = M.prog["json"].inst,
                      e.state # 3, ev.side = 2 => e.state = 2
               PROVE  /\ Len(t) > 0 /\ a \in Record /\ a.frame.exchange # 0 /\ Key(a) = KeyOf(source, e)
                      /\ a.frame.side = ev.side /\ a.ev.part = ev.part
  BY DEF Linked
<1>2. row \in Row BY DEF Row
<1>3. Len(t) > 0 /\ a = row BY <1>2
<1>4. row.ev = ev /\ row.frame = sc.frame /\ row.source = source BY DEF Emitted
<1>5. e.run = ev.run /\ e.owner = ev.inst /\ ev.fails = 0 BY <1>1, GrownFacts
<1>6. e.number # 0 BY <1>0, <1>1, MachineFacts
<1> HIDE DEF t
<1>7. ASSUME NEW n \in 0 .. 6, NEW p \in 0 .. 4, sc.frame = Keyed(ev, e, n, p)
      PROVE  sc.frame.exchange # 0 /\ Key(row) = KeyOf(source, e) /\ sc.frame.side = ev.side
  <2>1. sc.frame.side = ev.side /\ sc.frame.owner = e.owner /\ sc.frame.exchange = e.number
    BY <1>7, KeyedFields
  <2> QED BY <1>4, <1>5, <1>6, <2>1 DEF Key, KeyOf
<1>8. \E n \in 0 .. 6, p \in 0 .. 4 : sc.frame = Keyed(ev, e, n, p)
  <2>1. CASE IsBare(m, ev, sc)
    <3>1. m.entry[ev.c] = e BY <1>0, <2>1 DEF IsBare, Keeps
    <3>2. Mine(m, ev) BY <1>1, <1>5, <3>1 DEF Mine
    <3> QED BY <1>1, <2>1, <3>1, <3>2 DEF IsBare
  <2>2. CASE IsStart(m, ev, sc)
    <3>1. e = Fresh(ev) BY <1>0, <2>2 DEF IsStart
    <3> QED BY <2>2, <3>1 DEF IsStart
  <2>3. CASE IsPoison(m, ev, sc)
    <3>1. e = [m.entry[ev.c] EXCEPT !.state = 3] /\ m.entry[ev.c] # NoEntry
      BY <1>0, <2>3 DEF IsPoison, Turns, Mine
    <3>2. e.state = 3 BY <1>0, <3>1, EntryFields
    <3> QED BY <1>1, <3>2
  <2>4. CASE IsOther(m, ev, sc)
    <3>1. e = m.entry[ev.c] BY <2>4 DEF IsOther, Keeps
    <3> QED BY <2>4, <3>1 DEF IsOther
  <2> QED BY <1>0, <2>1, <2>2, <2>3, <2>4 DEF Outcome, IsConfirm, IsInvalid, IsBreak, IsDone
<1> QED BY <1>3, <1>4, <1>7, <1>8

Ready(m, l, ev) ==
  ev.part = "method" \/ \E part : Linked(m, l, ev.c, ev.side, part) /\ NextPart(part, ev.part)

ReadDone(q, pend, R, s, W, c, side, part, m, M) ==
  /\ Running(q, pend, R, M, After(s, M), W)
  /\ Linked(M, After(s, M), c, side, part)
  /\ M.prog["json"].calls = m.prog["json"].calls + 1

\* So does one output of the JSON program.
LEMMA JsonRuns ==
  ASSUME NEW q, NEW pend, NEW R, NEW m, NEW s \in Seq(Row), NEW W,
         Running(q, pend, R, m, After(s, m), W),
         source \in Nat, NEW ev, Suits(m, "json", ev), NEW lost \in BOOLEAN,
         NEW W2 \in Wires, Elsewhere(W, W2, ev.c), JsonFits(m, ev, W[ev.c], W2[ev.c]),
         Ready(m, After(s, m), ev),
         NEW M, M = Reader(m, "json", ev, lost)
  PROVE  ReadDone(q, pend, R, s, W2, ev.c, ev.side, ev.part, m, M)
<1> DEFINE full == Stamped(ev, "json", m.prog["json"])
           sc == Scope(m, full)
           row == Emitted(full, sc.frame)
           l == After(s, m)
           G == Gathered(R, l)
<1>0. "http" \in Programs /\ "json" \in Programs BY DEF Programs
<1>1. m \in Machines /\ MapOk(m) /\ m.prog["http"].inst = m.prog["json"].inst + 1 /\ l \in Seq(Row)
      /\ Traced(source, G, m, W) /\ W \in Wires
  BY DEF Running
<1>2. /\ M \in Machines /\ MapOk(M) /\ M.entry = sc.entry
      /\ Told(full) /\ Outcome(m, full, sc)
      /\ row \in Record
  BY <1>0, <1>1, ReaderDoes
<1>3. /\ full.c = ev.c /\ full.req = ev.req /\ full.side = ev.side /\ full.part = ev.part /\ full.code = ev.code
      /\ full.hidden = ev.hidden /\ full.seq = m.prog["json"].calls + 1
      /\ full.inst = m.prog["json"].inst /\ full.run = m.prog["json"].run /\ full.fails = m.prog["json"].fails
  BY StampedFields
<1>4. /\ Grown(m, M) /\ M.prog["http"].inst = M.prog["json"].inst + 1
      /\ M.prog["json"].calls = m.prog["json"].calls + 1
      /\ ~lost => M.prog["json"].fails = m.prog["json"].fails
      /\ lost => M.prog["json"].fails # 0
  BY <1>0, <1>1, ReaderGrown
<1> HIDE DEF full, sc
<1>5. full.part # "http_response" BY <1>3 DEF Suits
<1>a. row = Emitted(full, sc.frame) OBVIOUS
<1>6. LastLinks(l, row)
  <2> SUFFICES ASSUME Later(row) PROVE Len(l) > 0 /\ Before(l[Len(l)], row) BY DEF LastLinks
  <2>1. full.part # "method" BY DEF Later, Emitted
  <2>2. PICK part : Linked(m, l, ev.c, ev.side, part) /\ NextPart(part, ev.part)
    BY <1>3, <2>1 DEF Ready
  <2>3. Linked(m, l, full.c, full.side, part) /\ NextPart(part, full.part) BY <1>3, <2>2
  <2> HIDE DEF row
  <2> QED BY <1>1, <1>2, <1>3, <1>a, <2>3, LaterIs
<1>7. sc.frame \in Frame
  <2>1. row.frame = sc.frame BY DEF Emitted
  <2> QED BY <1>2, <2>1, RecordFacts
<1> HIDE DEF row
<1>8. /\ row \in Row
      /\ lost => After(s, M) = l
      /\ ~lost => After(s, M) = Put(l, row)
      /\ After(s, M) \in Seq(Row)
      /\ Log(source, q, pend, M.prog, After(s, M))
  <2>1. row = Emitted(Stamped(ev, "json", m.prog["json"]), Scope(m, Stamped(ev, "json", m.prog["json"])).frame)
    BY DEF row, sc, full
  <2> QED BY <1>0, <1>6, <2>1, ReaderLog
<1>9. JsonFits(m, full, W[full.c], W2[full.c]) BY <1>3 DEF JsonFits
<1>10. Traced(source, Adds(G, row), M, W2)
  <2>1. \A d \in Conns : d # full.c => W2[d] = W[d] BY <1>3 DEF Elsewhere
  <2> HIDE DEF G
  <2> QED BY <1>1, <1>2, <1>3, <1>4, <1>5, <1>7, <1>9, <2>1, JsonTraced DEF row
<1>11. Traced(source, Gathered(R, After(s, M)), M, W2)
  <2>1. Gathered(R, Put(l, row)) = Adds(G, row) /\ G \subseteq Adds(G, row)
    BY <1>1, <1>8, GatheredAppend DEF Put
  <2>2. CASE lost BY <1>8, <1>10, <2>1, <2>2, TracedLess
  <2>3. CASE ~lost BY <1>8, <1>10, <2>1, <2>3
  <2> QED BY <2>2, <2>3
<1>12. Running(q, pend, R, M, After(s, M), W2) BY <1>2, <1>4, <1>8, <1>11 DEF Running
<1>13. Linked(M, After(s, M), ev.c, ev.side, ev.part)
  <2>1. CASE lost BY <1>4, <2>1 DEF Linked
  <2>2. CASE ~lost
    <3>1. M.prog["json"].fails = m.prog["json"].fails BY <1>4, <2>2
    <3>2. Linked(M, Put(l, row), full.c, full.side, full.part)
      BY <1>1, <1>2, <1>3, <1>4, <1>5, <1>a, <3>1, LinkedNext DEF Put
    <3> QED BY <1>3, <1>8, <2>2, <3>2
  <2> QED BY <2>1, <2>2
<1> QED BY <1>4, <1>12, <1>13 DEF ReadDone

\* The invocations.
LEMMA HappensIs ==
  ASSUME NEW c \in Conns, NEW req \in Nat, NEW side \in {1, 2}, NEW part \in Parts,
         NEW code \in Nat, NEW good \in BOOLEAN,
         NEW ev, ev = Event(c, req, side, part, code, good)
  PROVE  /\ ev \in Happens /\ ev.c = c /\ ev.req = req /\ ev.side = side /\ ev.part = part /\ ev.code = code
         /\ ev.hidden \/ wire[c] = << >> \/ Held(c)
<1> DEFINE h == wire[c] # << >> /\ ~Held(c)
<1>1. h \in BOOLEAN OBVIOUS
<1> HIDE DEF h
<1>2. Event(c, req, side, part, code, good) =
        [c |-> c, req |-> req, side |-> side, part |-> part, code |-> code, good |-> good, hidden |-> h]
  BY DEF Event, h
<1>3. /\ ev \in Happens /\ ev.c = c /\ ev.req = req /\ ev.side = side /\ ev.part = part /\ ev.code = code
      /\ ev.hidden = h
  BY <1>1, <1>2 DEF Happens
<1>4. h \/ wire[c] = << >> \/ Held(c) BY DEF h
<1>5. ev.hidden \/ wire[c] = << >> \/ Held(c) BY <1>3, <1>4
<1> QED BY <1>3, <1>5

\* The parts of a message are not parts of a response.
LEMMA JsonPart ==
  ASSUME NEW i \in 1 .. 4
  PROVE  /\ JsonParts[i] \in Parts /\ JsonParts[i] # "http_response"
         /\ JsonParts[i] = "method" <=> i = 1
         /\ i # 1 => NextPart(JsonParts[i - 1], JsonParts[i])
<1>1. /\ JsonParts[i] \in Parts /\ JsonParts[i] # "http_response"
      /\ JsonParts[i] = "method" <=> i = 1
  BY DEF JsonParts, Parts
<1>2. i # 1 => i - 1 \in 1 .. 3 /\ JsonParts[i] = JsonParts[(i - 1) + 1] BY DEF JsonParts
<1> QED BY <1>1, <1>2 DEF NextPart

\* The i-th reader of a message.
ReadWay(m, l, W, c, req, side, i) ==
  /\ m.prog["json"].calls % 4 = i - 1 /\ W \in Wires
  /\ i # 1 \/ side = 2
  /\ \E j \in 1 .. Len(W[c]) : req = W[c][j].req
  /\ i # 1 => Linked(m, l, c, side, JsonParts[i - 1])

\* The i-th output of a message.
LEMMA ReadRuns ==
  ASSUME NEW q, NEW pend, NEW R, NEW m, NEW s \in Seq(Row), NEW W,
         Running(q, pend, R, m, After(s, m), W),
         source \in Nat, NEW c \in Conns, NEW req \in Nat, NEW side \in {1, 2},
         NEW good \in BOOLEAN, NEW lost \in BOOLEAN,
         NEW i \in 1 .. 4, ReadWay(m, After(s, m), W, c, req, side, i),
         NEW M, M = Reader(m, "json", Event(c, req, side, JsonParts[i], 0, good), lost)
  PROVE  ReadDone(q, pend, R, s, W, c, side, JsonParts[i], m, M)
<1> DEFINE ev == Event(c, req, side, JsonParts[i], 0, good)
<1>1. JsonParts[i] \in Parts /\ JsonParts[i] # "http_response" /\ (JsonParts[i] = "method" <=> i = 1) BY JsonPart
<1>2. /\ ev \in Happens /\ ev.c = c /\ ev.req = req /\ ev.side = side /\ ev.part = JsonParts[i] /\ ev.code = 0
  <2>1. 0 \in Nat OBVIOUS
  <2> DEFINE part == JsonParts[i]
  <2>2. ev = Event(c, req, side, part, 0, good) /\ part \in Parts BY <1>1
  <2> HIDE DEF ev, part
  <2>3. ev \in Happens BY <2>1, <2>2, HappensIs
  <2>4. ev.c = c /\ ev.req = req /\ ev.side = side /\ ev.part = part /\ ev.code = 0
    BY <2>1, <2>2, HappensIs
  <2> QED BY <2>3, <2>4 DEF part
<1> HIDE DEF ev
<1>3. Suits(m, "json", ev)
  <2>1. (m.prog["json"].calls % 4) + 1 = i BY DEF ReadWay
  <2> QED BY <1>1, <1>2, <2>1 DEF Suits
<1>4. JsonFits(m, ev, W[ev.c], W[ev.c]) BY <1>1, <1>2 DEF JsonFits, ReadWay
<1>5. Ready(m, After(s, m), ev)
  <2>1. CASE i = 1 BY <1>1, <1>2, <2>1 DEF Ready
  <2>2. CASE i # 1
    <3>1. Linked(m, After(s, m), ev.c, ev.side, JsonParts[i - 1]) BY <1>2, <2>2 DEF ReadWay
    <3>2. NextPart(JsonParts[i - 1], ev.part) BY <1>2, <2>2, JsonPart
    <3> QED BY <3>1, <3>2 DEF Ready
  <2> QED BY <2>1, <2>2
<1>7. Elsewhere(W, W, ev.c) /\ W \in Wires BY DEF Elsewhere, ReadWay
<1>8. M = Reader(m, "json", ev, lost) BY DEF ev
<1>6. ReadDone(q, pend, R, s, W, ev.c, ev.side, ev.part, m, M)
  BY <1>3, <1>4, <1>5, <1>7, <1>8, JsonRuns
<1> QED BY <1>2, <1>6

\* The first reader of a client message.
StartWay1(W, W2, c, req) ==
  /\ W = wire /\ Elsewhere(W, W2, c) /\ W2 \in Wires
  /\ \E qq \in Request : qq.req = req /\ W2[c] = Append(W[c], qq)

\* i readers of a message have run.
Turn(m, i) == m.prog["json"].calls \in Nat /\ \E k \in Nat : m.prog["json"].calls = 4 * k + i

\* The parts of a message follow the output counter.
LEMMA TurnFacts ==
  ASSUME NEW m, NEW M
  PROVE  /\ Turn(m, 0) => m.prog["json"].calls % 4 = 0
         /\ Turn(m, 1) => m.prog["json"].calls % 4 = 1
         /\ Turn(m, 2) => m.prog["json"].calls % 4 = 2
         /\ Turn(m, 3) => m.prog["json"].calls % 4 = 3
         /\ Turn(m, 4) => Turn(m, 0)
<1>1. ASSUME NEW n \in Nat, NEW k \in Nat, NEW i \in 0 .. 3, n = 4 * k + i PROVE n % 4 = i
  BY <1>1
<1>2. ASSUME NEW n \in Nat, NEW k \in Nat, n = 4 * k + 4 PROVE \E j \in Nat : n = 4 * j + 0
  <2>1. k + 1 \in Nat /\ n = 4 * (k + 1) + 0 BY <1>2
  <2> QED BY <2>1
<1>3. 0 \in 0 .. 3 /\ 1 \in 0 .. 3 /\ 2 \in 0 .. 3 /\ 3 \in 0 .. 3 OBVIOUS
<1> QED BY <1>1, <1>2, <1>3 DEF Turn

\* Every output moves on by one part.
LEMMA TurnNext ==
  ASSUME NEW m, NEW M, NEW i \in 1 .. 4, Turn(m, i - 1),
         M.prog["json"].calls = m.prog["json"].calls + 1
  PROVE  Turn(M, i)
<1>1. PICK k \in Nat : m.prog["json"].calls \in Nat /\ m.prog["json"].calls = 4 * k + (i - 1)
  BY DEF Turn
<1>2. M.prog["json"].calls \in Nat /\ M.prog["json"].calls = 4 * k + i BY <1>1
<1> QED BY <1>2 DEF Turn

Asks(W, c, req) == W \in Wires /\ \E j \in 1 .. Len(W[c]) : req = W[c][j].req
Ran(q, pend, R, s, W, c, side, M, i) ==
  /\ Running(q, pend, R, M, After(s, M), W) /\ Turn(M, i)
  /\ i # 0 => Linked(M, After(s, M), c, side, JsonParts[i])

\* The first record of a client message begins an exchange.
LEMMA FirstRuns ==
  ASSUME NEW q, NEW pend, NEW R, NEW s \in Seq(Row), NEW W, NEW c \in Conns,
         Ran(q, pend, R, s, W, c, 1, Machine, 0),
         source \in Nat, NEW req \in Nat, NEW good \in BOOLEAN, NEW lost \in BOOLEAN,
         NEW W2, StartWay1(W, W2, c, req),
         NEW M, M = Reader(Machine, "json", Event(c, req, 1, JsonParts[1], 0, good), lost)
  PROVE  Ran(q, pend, R, s, W2, c, 1, M, 1)
<1> DEFINE m == Machine
           ev == Event(c, req, 1, JsonParts[1], 0, good)
<1>0. Running(q, pend, R, m, After(s, m), W) /\ Turn(m, 0) BY DEF Ran
<1>1. JsonParts[1] \in Parts /\ JsonParts[1] = "method" BY JsonPart
<1>2. 1 \in {1, 2} /\ 0 \in Nat OBVIOUS
<1>3. m.entry = entry /\ m.prog = prog BY DEF Machine
<1> DEFINE part == JsonParts[1]
<1>4. ev = Event(c, req, 1, part, 0, good) /\ part \in Parts /\ part = "method" BY <1>1
<1>a. M = Reader(m, "json", ev, lost) OBVIOUS
<1> HIDE DEF ev, part, m
<1>5. /\ ev \in Happens /\ ev.c = c /\ ev.req = req /\ ev.side = 1 /\ ev.part = part /\ ev.code = 0
      /\ ev.hidden \/ wire[c] = << >> \/ Held(c)
  BY <1>2, <1>4, HappensIs
<1>6. Suits(m, "json", ev)
  <2>1. (m.prog["json"].calls % 4) + 1 = 1 BY <1>0, TurnFacts
  <2> QED BY <1>4, <1>5, <2>1 DEF Suits, part
<1>7. JsonFits(m, ev, W[ev.c], W2[ev.c])
  BY <1>3, <1>4, <1>5 DEF JsonFits, StartWay1, Held
<1>8. Ready(m, After(s, m), ev) BY <1>4, <1>5 DEF Ready
<1>9. Elsewhere(W, W2, ev.c) /\ W2 \in Wires BY <1>5 DEF StartWay1
<1>b. ReadDone(q, pend, R, s, W2, ev.c, ev.side, ev.part, m, M)
  BY <1>0, <1>6, <1>7, <1>8, <1>9, <1>a, JsonRuns
<1>10. /\ Running(q, pend, R, M, After(s, M), W2)
       /\ Linked(M, After(s, M), ev.c, ev.side, ev.part)
       /\ M.prog["json"].calls = m.prog["json"].calls + 1
  BY <1>b DEF ReadDone
<1>11. Turn(M, 1)
  <2>1. 1 \in 1 .. 4 /\ Turn(m, 1 - 1) BY <1>0
  <2> QED BY <1>10, <2>1, TurnNext
<1>12. Linked(M, After(s, M), c, 1, JsonParts[1]) BY <1>5, <1>10 DEF part
<1> QED BY <1>10, <1>11, <1>12 DEF Ran

\* The records after it go on with it.
LEMMA NextRuns ==
  ASSUME NEW q, NEW pend, NEW R, NEW s \in Seq(Row), NEW W, NEW c \in Conns, NEW side \in {1, 2},
         NEW m,
         NEW i \in 1 .. 4, Ran(q, pend, R, s, W, c, side, m, i - 1), i # 1 \/ side = 2,
         source \in Nat, NEW req \in Nat, NEW good \in BOOLEAN, NEW lost \in BOOLEAN,
         Asks(W, c, req),
         NEW M, M = Reader(m, "json", Event(c, req, side, JsonParts[i], 0, good), lost)
  PROVE  Ran(q, pend, R, s, W, c, side, M, i)
<1>1. Running(q, pend, R, m, After(s, m), W) /\ Turn(m, i - 1) BY DEF Ran
<1>2. m.prog["json"].calls % 4 = i - 1
  <2>1. i = 1 \/ i = 2 \/ i = 3 \/ i = 4 OBVIOUS
  <2> QED BY <1>1, <2>1, TurnFacts
<1>3. i # 1 => Linked(m, After(s, m), c, side, JsonParts[i - 1]) BY DEF Ran
<1>4. ReadWay(m, After(s, m), W, c, req, side, i) BY <1>2, <1>3 DEF ReadWay, Asks
<1>a. ReadDone(q, pend, R, s, W, c, side, JsonParts[i], m, M) BY <1>1, <1>4, ReadRuns, ZenonT(60)
<1>5. /\ Running(q, pend, R, M, After(s, M), W)
      /\ Linked(M, After(s, M), c, side, JsonParts[i])
      /\ M.prog["json"].calls = m.prog["json"].calls + 1
  BY <1>a DEF ReadDone
<1>6. Turn(M, i) BY <1>1, <1>5, TurnNext
<1> QED BY <1>5, <1>6 DEF Ran

\* A message: four readers.
MessageWay(W, W2, c, req, side) ==
  \/ side = 1 /\ StartWay1(W, W2, c, req)
  \/ side = 2 /\ W2 = W /\ Asks(W, c, req)

\* A whole message.
LEMMA JsonCallRuns ==
  ASSUME NEW q, NEW pend, NEW R, NEW s \in Seq(Row), NEW W, NEW c \in Conns, NEW side \in {1, 2},
         Ran(q, pend, R, s, W, c, side, Machine, 0),
         source \in Nat, NEW req \in Nat, NEW good \in BOOLEAN, NEW lost \in 0 .. 4,
         NEW W2, MessageWay(W, W2, c, req, side), NEW M, M = JsonCall(c, req, side, good, lost)
  PROVE  Ran(q, pend, R, s, W2, c, side, M, 0)
<1> DEFINE l1 == lost = 1
           l2 == lost = 2
           l3 == lost = 3
           l4 == lost = 4
           m1 == Reader(Machine, "json", Event(c, req, side, JsonParts[1], 0, good), l1)
           m2 == Reader(m1, "json", Event(c, req, side, JsonParts[2], 0, good), l2)
           m3 == Reader(m2, "json", Event(c, req, side, JsonParts[3], 0, good), l3)
           m4 == Reader(m3, "json", Event(c, req, side, JsonParts[4], 0, good), l4)
<1>0. M = m4 BY DEF JsonCall
<1>1. Asks(W2, c, req)
  <2>1. CASE side = 1
    <3>1. PICK qq \in Request : qq.req = req /\ W2[c] = Append(W[c], qq) /\ W2 \in Wires
      BY <2>1 DEF MessageWay, StartWay1
    <3>2. W[c] \in Seq(Request) BY DEF Ran, Running, Wires
    <3>3. Len(W2[c]) \in 1 .. Len(W2[c]) /\ W2[c][Len(W2[c])] = qq BY <3>1, <3>2
    <3> QED BY <3>1, <3>3 DEF Asks
  <2>2. CASE side = 2 BY <2>2 DEF MessageWay
  <2> QED BY <2>1, <2>2
<1>2. l1 \in BOOLEAN /\ l2 \in BOOLEAN /\ l3 \in BOOLEAN /\ l4 \in BOOLEAN OBVIOUS
<1>3. 1 \in 1 .. 4 /\ 2 \in 1 .. 4 /\ 3 \in 1 .. 4 /\ 4 \in 1 .. 4
      /\ 1 - 1 = 0 /\ 2 - 1 = 1 /\ 3 - 1 = 2 /\ 4 - 1 = 3 OBVIOUS
<1> HIDE DEF l1, l2, l3, l4
<1>4. Ran(q, pend, R, s, W2, c, side, m1, 1)
  <2>0. m1 = Reader(Machine, "json", Event(c, req, side, JsonParts[1], 0, good), l1) OBVIOUS
  <2> HIDE DEF m1
  <2>1. CASE side = 1
    <3>1. StartWay1(W, W2, c, req) BY <2>1 DEF MessageWay
    <3>2. m1 = Reader(Machine, "json", Event(c, req, 1, JsonParts[1], 0, good), l1) BY <2>0, <2>1
    <3>3. Ran(q, pend, R, s, W, c, 1, Machine, 0) BY <2>1
    <3>4. Ran(q, pend, R, s, W2, c, 1, m1, 1) BY <1>2, <3>1, <3>2, <3>3, FirstRuns
    <3> QED BY <2>1, <3>4
  <2>2. CASE side = 2
    <3>1. W2 = W BY <2>2 DEF MessageWay
    <3>2. Ran(q, pend, R, s, W2, c, side, Machine, 1 - 1) BY <1>3, <3>1
    <3> QED BY <1>1, <1>2, <1>3, <2>0, <2>2, <3>2, NextRuns
  <2> QED BY <2>1, <2>2
<1>5. ASSUME NEW m, NEW N, NEW i \in 1 .. 4, NEW j, j = i - 1, j # 0, NEW l \in BOOLEAN,
             Ran(q, pend, R, s, W2, c, side, m, j),
             N = Reader(m, "json", Event(c, req, side, JsonParts[i], 0, good), l)
      PROVE  Ran(q, pend, R, s, W2, c, side, N, i)
  <2>1. Ran(q, pend, R, s, W2, c, side, m, i - 1) /\ i # 1 BY <1>5
  <2> QED BY <1>1, <1>5, <2>1, NextRuns
<1> HIDE DEF m1
<1>6. Ran(q, pend, R, s, W2, c, side, m2, 2)
  <2>1. m2 = Reader(m1, "json", Event(c, req, side, JsonParts[2], 0, good), l2) /\ 1 = 2 - 1 /\ 1 # 0 OBVIOUS
  <2> HIDE DEF m2
  <2> QED BY <1>2, <1>3, <1>4, <1>5, <2>1
<1> HIDE DEF m2
<1>7. Ran(q, pend, R, s, W2, c, side, m3, 3)
  <2>1. m3 = Reader(m2, "json", Event(c, req, side, JsonParts[3], 0, good), l3) /\ 2 = 3 - 1 /\ 2 # 0 OBVIOUS
  <2> HIDE DEF m3
  <2> QED BY <1>2, <1>3, <1>5, <1>6, <2>1
<1> HIDE DEF m3
<1>8. Ran(q, pend, R, s, W2, c, side, m4, 4)
  <2>1. m4 = Reader(m3, "json", Event(c, req, side, JsonParts[4], 0, good), l4) /\ 3 = 4 - 1 /\ 3 # 0 OBVIOUS
  <2> HIDE DEF m4
  <2> QED BY <1>2, <1>3, <1>5, <1>7, <2>1
<1> HIDE DEF m4
<1>9. Turn(m4, 0) BY <1>8, TurnFacts DEF Ran
<1> QED BY <1>0, <1>8, <1>9 DEF Ran

HttpWay1(W, W2, c, req, side, code) ==
  W2 \in Wires /\ Elsewhere(W, W2, c) /\ HttpFits([code |-> code, side |-> side, req |-> req], W[c], W2[c])

\* A whole HTTP event.
LEMMA HttpCallRuns ==
  ASSUME NEW q, NEW pend, NEW R, NEW s \in Seq(Row), NEW W, NEW c \in Conns, NEW side \in {1, 2},
         Ran(q, pend, R, s, W, c, side, Machine, 0),
         source \in Nat, NEW req \in Nat, NEW code \in Nat, NEW good \in BOOLEAN,
         NEW lost, NEW W2, HttpWay1(W, W2, c, req, side, code), NEW M,
         M = HttpCall(c, req, side, code, good, lost)
  PROVE  Ran(q, pend, R, s, W2, c, side, M, 0)
<1> DEFINE ev == Event(c, req, side, "http_response", code, good)
           part == "http_response"
           l1 == lost = 1
<1>1. part \in Parts BY DEF Parts
<1>2. ev = Event(c, req, side, part, code, good) OBVIOUS
<1>3. M = Reader(Machine, "http", ev, l1) BY DEF HttpCall
<1>4. l1 \in BOOLEAN OBVIOUS
<1> HIDE DEF ev, l1, part
<1>5. /\ ev \in Happens /\ ev.c = c /\ ev.req = req /\ ev.side = side /\ ev.part = part /\ ev.code = code
  BY <1>1, <1>2, HappensIs
<1>6. Suits(Machine, "http", ev) BY <1>5 DEF Suits, part
<1>7. HttpFits(ev, W[ev.c], W2[ev.c])
  <2> DEFINE rr == [code |-> code, side |-> side, req |-> req]
  <2>1. rr.code = code /\ rr.side = side /\ rr.req = req OBVIOUS
  <2>2. HttpFits(rr, W[c], W2[c]) BY DEF HttpWay1
  <2> HIDE DEF rr
  <2> QED BY <1>5, <2>1, <2>2 DEF HttpFits
<1>8. Elsewhere(W, W2, ev.c) /\ W2 \in Wires BY <1>5 DEF HttpWay1
<1>9. Running(q, pend, R, Machine, After(s, Machine), W) /\ Turn(Machine, 0) BY DEF Ran
<1>10. /\ Running(q, pend, R, M, After(s, M), W2) /\ M.prog["json"] = Machine.prog["json"]
  BY <1>3, <1>4, <1>6, <1>7, <1>8, <1>9, HttpRuns
<1>11. Turn(M, 0) BY <1>9, <1>10 DEF Turn
<1> QED BY <1>10, <1>11 DEF Ran

-----------------------------------------------------------------------------
(* The steps of the traffic.                                               *)

Live(src, q, pend, R, m, l, W) ==
  /\ m \in Machines /\ MapOk(m) /\ m.prog["http"].inst = m.prog["json"].inst + 1
  /\ W \in Wires /\ l \in Seq(Row)
  /\ Log(src, q, pend, m.prog, l) /\ Traced(src, Gathered(R, l), m, W)

\* The two ways to state what holds between invocations.
LEMMA LiveRuns ==
  ASSUME NEW q, NEW pend, NEW R, NEW m, NEW l, NEW W
  PROVE  Live(source, q, pend, R, m, l, W) <=> Running(q, pend, R, m, l, W)
BY DEF Live, Running

\* Only the map and the counters matter.
LEMMA TracedSame ==
  ASSUME NEW src, NEW R, NEW m, NEW m2, NEW W, m2.entry = m.entry, m2.prog = m.prog,
         Traced(src, R, m, W)
  PROVE  Traced(src, R, m2, W)
<1>1. Numbered(src, R, m2) BY DEF Traced, Numbered
<1>2. ASSUME NEW c \in Conns PROVE Apart1(m2, c) BY DEF Traced, Apart1
<1>3. ASSUME NEW e PROVE Open(m2, e) = Open(m, e) /\ Heard(m2, e) = Heard(m, e) BY DEF Open, Heard
<1>4. ASSUME NEW c \in Conns PROVE Tracked(src, R, m2, W, c)
  <2>1. Tracked(src, R, m, W, c) BY DEF Traced
  <2>2. ASSUME NEW x, Tracked1(src, R, m, W, c, x) PROVE Tracked1(src, R, m2, W, c, x)
    BY <1>3, <2>2 DEF Tracked1
  <2> QED BY <2>1, <2>2 DEF Tracked
<1> QED BY <1>1, <1>2, <1>4 DEF Traced

\* The rows of an invocation that is over do not matter.
LEMMA LiveSame ==
  ASSUME NEW src, NEW q, NEW pend, NEW R, NEW m, NEW m2 \in Machines, NEW l, NEW W,
         Live(src, q, pend, R, m, l, W),
         m2.entry = m.entry, m2.count = m.count, m2.prog = m.prog
  PROVE  Live(src, q, pend, R, m2, l, W)
<1>1. MapOk(m2) BY DEF Live, MapOk, Entries
<1>2. Traced(src, Gathered(R, l), m2, W) BY TracedSame DEF Live
<1> QED BY <1>1, <1>2 DEF Live

\* The requests get on.
LEMMA TracedCarried ==
  ASSUME NEW src, NEW R, NEW m, NEW W \in Wires, NEW W2 \in Wires, Traced(src, R, m, W),
         \A c \in Conns : Carried(W[c], W2[c])
  PROVE  Traced(src, R, m, W2)
<1>1. ASSUME NEW c \in Conns, NEW x, Tracked1(src, R, m, W, c, x)
      PROVE  Tracked1(src, R, m, W2, c, x)
  <2>1. /\ Len(W2[c]) = Len(W[c])
        /\ \A i \in 1 .. Len(W[c]) : W2[c][i].req = W[c][i].req /\ (W[c][i].asked => W2[c][i].asked)
    BY DEF Carried
  <2>2. W[c] \in Seq(Request) /\ W2[c] \in Seq(Request) BY DEF Wires
  <2>3. W[c] # << >> => W2[c] # << >> /\ 1 \in 1 .. Len(W[c]) BY <2>1, <2>2
  <2> QED BY <1>1, <2>1, <2>3 DEF Tracked1
<1>2. ASSUME NEW c \in Conns PROVE Tracked(src, R, m, W2, c)
  <2>1. Tracked(src, R, m, W, c) BY DEF Traced
  <2> QED BY <1>1, <2>1 DEF Tracked
<1> QED BY <1>2 DEF Traced

\* The requests of a connection may get on meanwhile.
LEMMA RanCarried ==
  ASSUME NEW q, NEW pend, NEW R, NEW s, NEW W, NEW W2 \in Wires, NEW c, NEW side, NEW M,
         Ran(q, pend, R, s, W, c, side, M, 0),
         \A d \in Conns : Carried(W[d], W2[d])
  PROVE  Ran(q, pend, R, s, W2, c, side, M, 0)
<1>1. W \in Wires /\ Traced(source, Gathered(R, After(s, M)), M, W) BY DEF Ran, Running
<1>2. Traced(source, Gathered(R, After(s, M)), M, W2) BY <1>1, TracedCarried
<1> QED BY <1>2 DEF Ran, Running

Producing(src, mk, q, pend, R, m, l, W) ==
  /\ src \in Nat /\ mk \in Nat /\ Turn(m, 0) /\ Live(src, q, pend, R, m, l, W)

\* What the traffic does to the state of the programs.
Does(q, pend, R) ==
  Producing(source', made', q, pend, R, Machine', stream', wire')

\* An invocation is a step of the system.
LEMMA InvokeDoes ==
  ASSUME NEW q, NEW pend, NEW R, NEW c, NEW side, NEW M, NEW lost, Invoke(M, lost),
         source \in Nat,
         NEW W, Ran(q, pend, R, stream, W, c, side, M, 0), wire' = W, made' \in Nat
  PROVE  Does(q, pend, R)
<1>1. /\ entry' = M.entry /\ count' = M.count /\ prog' = M.prog /\ stream' = After(stream, M) /\ source' = source
  BY DEF Invoke, After
<1>2. Machine' = [entry |-> M.entry, count |-> M.count, prog |-> M.prog, rows |-> << >>]
  BY <1>1 DEF Machine
<1>3. M \in Machines BY DEF Ran, Running
<1>4. Machine' \in Machines /\ Machine'.entry = M.entry /\ Machine'.count = M.count /\ Machine'.prog = M.prog
  BY <1>2, <1>3 DEF Machines
<1>5. Live(source, q, pend, R, M, After(stream, M), W) /\ Turn(M, 0) BY LiveRuns DEF Ran
<1>6. Live(source, q, pend, R, Machine', After(stream, M), W)
  <2> DEFINE m2 == Machine'
  <2>1. m2 \in Machines /\ m2.entry = M.entry /\ m2.count = M.count /\ m2.prog = M.prog BY <1>4
  <2> HIDE DEF m2
  <2>2. Live(source, q, pend, R, m2, After(stream, M), W) BY <1>5, <2>1, LiveSame
  <2> QED BY <2>2 DEF m2
<1>7. Turn(Machine', 0) BY <1>4, <1>5 DEF Turn
<1> QED BY <1>1, <1>6, <1>7 DEF Does, Producing

Now(q, pend, R) == Producing(source, made, q, pend, R, Machine, stream, wire)

\* Between steps no invocation is under way.
LEMMA NowRan ==
  ASSUME NEW q, NEW pend, NEW R, Now(q, pend, R), NEW c, NEW side
  PROVE  /\ source \in Nat /\ made \in Nat /\ stream \in Seq(Row) /\ wire \in Wires
         /\ Ran(q, pend, R, stream, wire, c, side, Machine, 0)
<1>1. source \in Nat /\ made \in Nat /\ stream \in Seq(Row) /\ wire \in Wires
  BY DEF Now, Producing, Live
<1>2. After(stream, Machine) = stream BY <1>1 DEF After, Machine
<1>3. Running(q, pend, R, Machine, stream, wire) /\ Turn(Machine, 0)
  BY LiveRuns DEF Now, Producing
<1> QED BY <1>1, <1>2, <1>3 DEF Ran

\* ClientJson.
LEMMA ClientJsonDoes ==
  ASSUME NEW q, NEW pend, NEW R, Now(q, pend, R), NEW c \in Conns, NEW good \in BOOLEAN,
         NEW lost \in 0 .. 4,
         ClientJson(c, good, lost)
  PROVE  Does(q, pend, R)
<1> DEFINE req == made + 1
           x == [req |-> req, asked |-> FALSE, answered |-> FALSE, headed |-> FALSE]
           M == JsonCall(c, req, 1, good, lost)
           W == [wire EXCEPT ![c] = Append(@, x)]
<1>1. Invoke(M, lost) /\ made' = req /\ wire' = W BY DEF ClientJson
<1>2. /\ source \in Nat /\ made \in Nat /\ stream \in Seq(Row) /\ wire \in Wires
      /\ Ran(q, pend, R, stream, wire, c, 1, Machine, 0)
  BY NowRan
<1>3. req \in Nat BY <1>2
<1>4. x \in Request /\ x.req = req BY <1>3 DEF Request
<1> HIDE DEF x, M, req
<1>5. W \in Wires /\ W[c] = Append(wire[c], x) BY <1>2, <1>4 DEF Wires
<1>6. Elsewhere(wire, W, c) BY <1>2 DEF Elsewhere, Wires
<1> HIDE DEF W
<1>7. MessageWay(wire, W, c, req, 1) BY <1>4, <1>5, <1>6 DEF MessageWay, StartWay1
<1>8. M = JsonCall(c, req, 1, good, lost) /\ 1 \in {1, 2} BY DEF M
<1>9. Ran(q, pend, R, stream, W, c, 1, M, 0)
  <2> DEFINE w == wire
  <2>1. Ran(q, pend, R, stream, w, c, 1, Machine, 0) /\ MessageWay(w, W, c, req, 1) BY <1>2, <1>7
  <2> HIDE DEF w
  <2> QED BY <1>2, <1>3, <1>8, <2>1, JsonCallRuns
<1>10. made' \in Nat BY <1>1, <1>3
<1> QED BY <1>1, <1>2, <1>9, <1>10, InvokeDoes

\* A flag of a request is set.
FlagWay(r, x) == x \in Request /\ x.req = r.req /\ (r.asked => x.asked)
Set(W, c, i, x) == [W EXCEPT ![c][i] = x]
Moved(W, W2) == \A d \in Conns : Carried(W[d], W2[d])

\* A request of a connection gets on.
LEMMA FlagSet ==
  ASSUME wire \in Wires, NEW c \in Conns, NEW i \in 1 .. Len(wire[c]), NEW x,
         FlagWay(wire[c][i], x),
         NEW W, W = Set(wire, c, i, x)
  PROVE  /\ W \in Wires /\ Moved(wire, W)
         /\ Elsewhere(wire, W, c) /\ W[c][i] = x
<1>0. x \in Request /\ x.req = wire[c][i].req /\ (wire[c][i].asked => x.asked) BY DEF FlagWay
<1>1. wire[c] \in Seq(Request) /\ DOMAIN wire[c] = 1 .. Len(wire[c]) BY DEF Wires
<1>2. W = [wire EXCEPT ![c] = [wire[c] EXCEPT ![i] = x]] BY DEF Set
<1>3. /\ [wire[c] EXCEPT ![i] = x] \in Seq(Request) /\ Len([wire[c] EXCEPT ![i] = x]) = Len(wire[c])
      /\ \A j \in 1 .. Len(wire[c]) : [wire[c] EXCEPT ![i] = x][j] = IF j = i THEN x ELSE wire[c][j]
  BY <1>0, <1>1, ExceptSeq
<1> DEFINE w == [wire[c] EXCEPT ![i] = x]
<1> HIDE DEF w
<1>4. /\ w \in Seq(Request) /\ Len(w) = Len(wire[c])
      /\ \A j \in 1 .. Len(wire[c]) : w[j] = IF j = i THEN x ELSE wire[c][j]
  BY <1>3 DEF w
<1>5. W = [wire EXCEPT ![c] = w] BY <1>2 DEF w
<1>6. W \in Wires /\ W[c] = w /\ \A d \in Conns : d # c => W[d] = wire[d] BY <1>4, <1>5 DEF Wires
<1>7. Carried(wire[c], W[c]) BY <1>0, <1>4, <1>6 DEF Carried
<1>8. \A d \in Conns : Carried(wire[d], wire[d]) BY DEF Carried
<1> QED BY <1>4, <1>6, <1>7, <1>8 DEF Elsewhere, Moved

\* The flags of a request.
LEMMA RequestFlags ==
  ASSUME NEW r \in Request
  PROVE  /\ [r EXCEPT !.asked = TRUE] \in Request /\ [r EXCEPT !.asked = TRUE].req = r.req /\ [r EXCEPT !.asked = TRUE].asked
         /\ [r EXCEPT !.answered = TRUE] \in Request /\ [r EXCEPT !.answered = TRUE].req = r.req
         /\ [r EXCEPT !.answered = TRUE].asked = r.asked
         /\ [r EXCEPT !.headed = TRUE] \in Request /\ [r EXCEPT !.headed = TRUE].req = r.req
         /\ [r EXCEPT !.headed = TRUE].asked = r.asked
         /\ r.req \in Nat
BY DEF Request

\* The ends of a connection that carries requests.
LEMMA First ==
  ASSUME wire \in Wires, NEW c \in Conns, wire[c] # << >>
  PROVE  1 \in 1 .. Len(wire[c]) /\ Len(wire[c]) \in 1 .. Len(wire[c]) /\ wire[c] \in Seq(Request)
         /\ \A i \in 1 .. Len(wire[c]) : wire[c][i] \in Request
BY DEF Wires

\* ServerJson.
LEMMA ServerJsonDoes ==
  ASSUME NEW q, NEW pend, NEW R, Now(q, pend, R), NEW c \in Conns, NEW good \in BOOLEAN,
         NEW lost \in 0 .. 4,
         ServerJson(c, good, lost)
  PROVE  Does(q, pend, R)
<1> DEFINE r == wire[c][1]
           req == r.req
           x == [r EXCEPT !.answered = TRUE]
           M == JsonCall(c, req, 2, good, lost)
           W == Set(wire, c, 1, x)
<1>1. Invoke(M, lost) /\ made' = made /\ wire' = W /\ wire[c] # << >> BY DEF ServerJson, Set
<1>2. /\ source \in Nat /\ made \in Nat /\ stream \in Seq(Row) /\ wire \in Wires
      /\ Ran(q, pend, R, stream, wire, c, 2, Machine, 0)
  BY NowRan
<1>3. 1 \in 1 .. Len(wire[c]) /\ r \in Request BY <1>1, <1>2, First
<1>4. x \in Request /\ x.req = wire[c][1].req /\ (wire[c][1].asked => x.asked) /\ req \in Nat
  BY <1>3, RequestFlags
<1>5. Asks(wire, c, req) BY <1>2, <1>3 DEF Asks
<1> HIDE DEF x, M, req
<1>a. FlagWay(wire[c][1], x) BY <1>4 DEF FlagWay
<1>6. W \in Wires /\ Moved(wire, W) BY <1>2, <1>3, <1>a, FlagSet
<1> HIDE DEF W
<1>7. MessageWay(wire, wire, c, req, 2) BY <1>5 DEF MessageWay
<1>8. M = JsonCall(c, req, 2, good, lost) /\ 2 \in {1, 2} BY DEF M
<1>9. Ran(q, pend, R, stream, wire, c, 2, M, 0)
  <2> DEFINE w == wire
  <2>1. Ran(q, pend, R, stream, w, c, 2, Machine, 0) /\ MessageWay(w, w, c, req, 2) BY <1>2, <1>7
  <2> HIDE DEF w
  <2>2. Ran(q, pend, R, stream, w, c, 2, M, 0) BY <1>2, <1>4, <1>8, <2>1, JsonCallRuns
  <2> QED BY <2>2 DEF w
<1>10. Ran(q, pend, R, stream, W, c, 2, M, 0) BY <1>6, <1>9, RanCarried DEF Moved
<1>11. made' \in Nat BY <1>1, <1>2
<1> QED BY <1>1, <1>2, <1>10, <1>11, InvokeDoes

\* An invocation of the HTTP program.
LEMMA HttpDoes ==
  ASSUME NEW q, NEW pend, NEW R, Now(q, pend, R), NEW c \in Conns, NEW side \in {1, 2},
         NEW req \in Nat, NEW code \in Nat,
         NEW good \in BOOLEAN, NEW lost, NEW W, wire' = W,
         Invoke(HttpCall(c, req, side, code, good, lost), lost),
         HttpWay1(wire, W, c, req, side, code), made' = made
  PROVE  Does(q, pend, R)
<1> DEFINE M == HttpCall(c, req, side, code, good, lost)
           w == wire
<1>1. Invoke(M, lost) /\ M = HttpCall(c, req, side, code, good, lost) OBVIOUS
<1>2. /\ source \in Nat /\ made \in Nat /\ stream \in Seq(Row)
      /\ Ran(q, pend, R, stream, w, c, side, Machine, 0)
  BY NowRan
<1>3. HttpWay1(w, W, c, req, side, code) OBVIOUS
<1> HIDE DEF M, w
<1>4. Ran(q, pend, R, stream, W, c, side, M, 0) BY <1>1, <1>2, <1>3, HttpCallRuns
<1>5. made' \in Nat BY <1>2
<1> QED BY <1>1, <1>2, <1>4, <1>5, InvokeDoes

\* Headers.
LEMMA HeadersDoes ==
  ASSUME NEW q, NEW pend, NEW R, Now(q, pend, R), NEW c \in Conns, NEW good \in BOOLEAN, NEW lost,
         Headers(c, good, lost)
  PROVE  Does(q, pend, R)
<1> DEFINE i == IF wire[c][1].asked THEN Len(wire[c]) ELSE 1
           req == wire[c][i].req
           x == [wire[c][i] EXCEPT !.asked = TRUE]
           W == Set(wire, c, i, x)
<1>1. /\ Invoke(HttpCall(c, req, 1, 142, good, lost), lost) /\ made' = made /\ wire' = W /\ wire[c] # << >>
  BY DEF Headers, Set
<1>2. wire \in Wires BY NowRan
<1>3. i \in 1 .. Len(wire[c]) /\ wire[c][i] \in Request BY <1>1, <1>2, First
<1>a. i = 1 \/ wire[c][1].asked OBVIOUS
<1>b. req = wire[c][i].req /\ W = Set(wire, c, i, x) OBVIOUS
<1> HIDE DEF i, W
<1>4. x \in Request /\ x.req = wire[c][i].req /\ (wire[c][i].asked => x.asked) /\ x.asked /\ req \in Nat
  <2> DEFINE r == wire[c][i]
  <2>1. r \in Request BY <1>3
  <2>2. x = [r EXCEPT !.asked = TRUE] /\ req = r.req OBVIOUS
  <2> HIDE DEF r, x, req
  <2>3. x \in Request /\ x.req = r.req /\ x.asked /\ req \in Nat BY <2>1, <2>2, RequestFlags
  <2> QED BY <2>3 DEF r
<1> HIDE DEF x, req
<1>c. FlagWay(wire[c][i], x) BY <1>4 DEF FlagWay
<1>5. W \in Wires /\ Moved(wire, W) /\ Elsewhere(wire, W, c) /\ W[c][i] = x
  BY <1>2, <1>3, <1>b, <1>c, FlagSet
<1>6. W[c][1].asked
  <2>1. CASE i = 1 BY <1>4, <1>5, <2>1
  <2>2. CASE wire[c][1].asked
    <3>1. 1 \in 1 .. Len(wire[c]) BY <1>1, <1>2, First
    <3> QED BY <1>5, <2>2, <3>1 DEF Carried, Moved
  <2> QED BY <1>a, <2>1, <2>2
<1>7. HttpWay1(wire, W, c, req, 1, 142)
  <2> DEFINE rr == [code |-> 142, side |-> 1, req |-> req]
  <2>1. rr.code = 142 /\ rr.side = 1 /\ rr.req = req OBVIOUS
  <2> HIDE DEF rr
  <2>2. Carried(wire[c], W[c]) BY <1>5 DEF Moved
  <2>3. \E j \in 1 .. Len(wire[c]) : rr.req = wire[c][j].req BY <1>3, <1>b, <2>1
  <2>4. HttpFits(rr, wire[c], W[c]) BY <1>1, <1>6, <2>1, <2>2, <2>3 DEF HttpFits
  <2> QED BY <1>5, <2>4 DEF HttpWay1, rr
<1>8. 1 \in {1, 2} /\ 142 \in Nat OBVIOUS
<1> QED BY <1>1, <1>4, <1>7, <1>8, HttpDoes, ZenonT(60)

\* An event that says something of the oldest request.
Plain(code) == code \notin {1, 5, 29, 57, 142}

\* An event of the oldest request.
LEMMA FirstFits ==
  ASSUME wire \in Wires, NEW c \in Conns, wire[c] # << >>, NEW W \in Wires,
         Carried(wire[c], W[c]), Elsewhere(wire, W, c),
         NEW side, NEW code, Plain(code), NEW req, req = wire[c][1].req
  PROVE  HttpWay1(wire, W, c, req, side, code)
<1> DEFINE rr == [code |-> code, side |-> side, req |-> req]
<1>1. rr.code = code /\ rr.side = side /\ rr.req = wire[c][1].req OBVIOUS
<1> HIDE DEF rr
<1>2. HttpFits(rr, wire[c], W[c]) BY <1>1 DEF HttpFits, Plain
<1> QED BY <1>2 DEF HttpWay1, rr

\* ResponseHeaders.
LEMMA ResponseHeadersDoes ==
  ASSUME NEW q, NEW pend, NEW R, Now(q, pend, R), NEW c \in Conns, NEW lost,
         ResponseHeaders(c, lost)
  PROVE  Does(q, pend, R)
<1> DEFINE req == wire[c][1].req
           x == [wire[c][1] EXCEPT !.headed = TRUE]
           W == Set(wire, c, 1, x)
<1>1. /\ Invoke(HttpCall(c, req, 1, 28, TRUE, lost), lost) /\ made' = made /\ wire' = W /\ wire[c] # << >>
  BY DEF ResponseHeaders, Set
<1>2. wire \in Wires BY NowRan
<1>3. 1 \in 1 .. Len(wire[c]) /\ wire[c][1] \in Request BY <1>1, <1>2, First
<1>4. x \in Request /\ x.req = wire[c][1].req /\ (wire[c][1].asked => x.asked) /\ req \in Nat
  BY <1>3, RequestFlags
<1> HIDE DEF x
<1>b. FlagWay(wire[c][1], x) BY <1>4 DEF FlagWay
<1>5. W \in Wires /\ Carried(wire[c], W[c]) /\ Elsewhere(wire, W, c)
  BY <1>2, <1>3, <1>b, FlagSet DEF Moved
<1>a. req = wire[c][1].req /\ Plain(28) BY DEF Plain
<1> HIDE DEF W, req
<1>6. HttpWay1(wire, W, c, req, 1, 28) BY <1>1, <1>2, <1>5, <1>a, FirstFits
<1>7. 1 \in {1, 2} /\ 28 \in Nat /\ TRUE \in BOOLEAN OBVIOUS
<1> QED BY <1>1, <1>4, <1>6, <1>7, HttpDoes, ZenonT(60)

\* OtherEvent.
LEMMA OtherEventDoes ==
  ASSUME NEW q, NEW pend, NEW R, Now(q, pend, R), NEW c \in Conns, NEW side \in {1, 2}, NEW lost,
         OtherEvent(c, side, lost)
  PROVE  Does(q, pend, R)
<1> DEFINE req == wire[c][1].req
           W == wire
<1>1. /\ Invoke(HttpCall(c, req, side, 0, TRUE, lost), lost) /\ made' = made /\ wire' = W /\ wire[c] # << >>
  BY DEF OtherEvent
<1>2. wire \in Wires BY NowRan
<1>3. req \in Nat BY <1>1, <1>2, First, RequestFlags
<1>5. W \in Wires /\ Carried(wire[c], W[c]) /\ Elsewhere(wire, W, c)
  BY <1>2 DEF Elsewhere, Carried
<1>a. req = wire[c][1].req /\ Plain(0) BY DEF Plain
<1> HIDE DEF W, req
<1>6. HttpWay1(wire, W, c, req, side, 0) BY <1>1, <1>2, <1>5, <1>a, FirstFits
<1>7. 0 \in Nat /\ TRUE \in BOOLEAN OBVIOUS
<1> QED BY <1>1, <1>3, <1>6, <1>7, HttpDoes, ZenonT(60)

\* ResponseDone.
LEMMA ResponseDoneDoes ==
  ASSUME NEW q, NEW pend, NEW R, Now(q, pend, R), NEW c \in Conns, NEW lost, ResponseDone(c, lost)
  PROVE  Does(q, pend, R)
<1> DEFINE req == wire[c][1].req
           W == [wire EXCEPT ![c] = Tail(@)]
<1>1. /\ Invoke(HttpCall(c, req, 1, 29, TRUE, lost), lost) /\ made' = made /\ wire' = W /\ wire[c] # << >>
  BY DEF ResponseDone
<1>2. wire \in Wires BY NowRan
<1>3. req \in Nat /\ wire[c] \in Seq(Request) BY <1>1, <1>2, First, RequestFlags
<1>4. Tail(wire[c]) \in Seq(Request) BY <1>1, <1>3
<1>5. W \in Wires /\ W[c] = Tail(wire[c]) /\ Elsewhere(wire, W, c)
  BY <1>2, <1>4 DEF Elsewhere, Wires
<1> HIDE DEF W
<1>6. HttpWay1(wire, W, c, req, 1, 29)
  <2> DEFINE rr == [code |-> 29, side |-> 1, req |-> req]
  <2>1. rr.code = 29 /\ rr.side = 1 /\ rr.req = wire[c][1].req OBVIOUS
  <2> HIDE DEF rr
  <2>2. HttpFits(rr, wire[c], W[c]) BY <1>1, <1>5, <2>1 DEF HttpFits
  <2> QED BY <1>5, <2>2 DEF HttpWay1, rr
<1>7. 1 \in {1, 2} /\ 29 \in Nat /\ TRUE \in BOOLEAN OBVIOUS
<1> HIDE DEF req
<1> QED BY <1>1, <1>3, <1>6, <1>7, HttpDoes, ZenonT(60)

\* Break.
LEMMA BreakDoes ==
  ASSUME NEW q, NEW pend, NEW R, Now(q, pend, R), NEW c \in Conns, NEW how \in Breaks, NEW lost,
         Break(c, how, lost)
  PROVE  Does(q, pend, R)
<1> DEFINE side == how[2]
           code == how[1]
           W == [wire EXCEPT ![c] = << >>]
<1>1. /\ Invoke(HttpCall(c, 0, side, code, TRUE, lost), lost) /\ made' = made /\ wire' = W
  BY DEF Break
<1>2. wire \in Wires BY NowRan
<1>3. side \in {1, 2} /\ code \in Nat /\ code \in {1, 5, 57} /\ (code = 57 => side = 1)
  BY DEF Breaks
<1>5. W \in Wires /\ W[c] = << >> /\ Elsewhere(wire, W, c) BY <1>2 DEF Elsewhere, Wires
<1> HIDE DEF W, side, code
<1>6. HttpWay1(wire, W, c, 0, side, code)
  <2> DEFINE rr == [code |-> code, side |-> side, req |-> 0]
  <2>1. rr.code = code /\ rr.side = side OBVIOUS
  <2> HIDE DEF rr
  <2>2. HttpFits(rr, wire[c], W[c]) BY <1>3, <1>5, <2>1 DEF HttpFits
  <2> QED BY <1>5, <2>2 DEF HttpWay1, rr
<1>7. 0 \in Nat /\ TRUE \in BOOLEAN OBVIOUS
<1> QED BY <1>1, <1>3, <1>6, <1>7, HttpDoes, ZenonT(60)

\* Every step of the traffic.
LEMMA TrafficDoes ==
  ASSUME NEW q, NEW pend, NEW R, Now(q, pend, R), Traffic
  PROVE  Does(q, pend, R)
<1>1. PICK c \in Conns :
        \/ \E lost \in Losses \union {0}, good \in BOOLEAN : ClientJson(c, good, lost) \/ ServerJson(c, good, lost)
        \/ \E lost \in 0 .. 1 :
             \/ \E good \in BOOLEAN : Headers(c, good, lost)
             \/ ResponseHeaders(c, lost)
             \/ ResponseDone(c, lost)
             \/ \E how \in Breaks : Break(c, how, lost)
             \/ \E side \in {1, 2} : OtherEvent(c, side, lost)
  BY DEF Traffic
<1>2. CASE \E lost \in Losses \union {0}, good \in BOOLEAN : ClientJson(c, good, lost) \/ ServerJson(c, good, lost)
  <2>1. PICK lost \in 0 .. 4, good \in BOOLEAN : ClientJson(c, good, lost) \/ ServerJson(c, good, lost)
    BY <1>2, GroupAssumption
  <2> QED BY <2>1, ClientJsonDoes, ServerJsonDoes
<1>3. CASE \E lost \in 0 .. 1 :
             \/ \E good \in BOOLEAN : Headers(c, good, lost)
             \/ ResponseHeaders(c, lost)
             \/ ResponseDone(c, lost)
             \/ \E how \in Breaks : Break(c, how, lost)
             \/ \E side \in {1, 2} : OtherEvent(c, side, lost)
  BY <1>3, HeadersDoes, ResponseHeadersDoes, ResponseDoneDoes, BreakDoes, OtherEventDoes
<1> QED BY <1>1, <1>2, <1>3

-----------------------------------------------------------------------------
(* The other steps of the producers.                                       *)

\* A row that is not a record breaks no message.
LEMMA NoticeAppends ==
  ASSUME NEW src \in Nat, NEW q, NEW pend, NEW R, NEW m, NEW l, NEW W,
         Live(src, q, pend, R, m, l, W), NEW n \in Notice
  PROVE  Live(src, q, pend, R, m, Append(l, n), W)
<1>1. l \in Seq(Row) /\ Log(src, q, pend, m.prog, l) /\ Traced(src, Gathered(R, l), m, W)
  BY DEF Live
<1>2. n.type # "record" /\ n \in Row BY DEF Notice, Row
<1>3. n \notin Record BY <1>2 DEF Record
<1>4. ~Later(n) BY <1>3 DEF Later
<1>5. Log(src, q, pend, m.prog, Append(l, n)) BY <1>1, <1>2, <1>3, <1>4, LogAppend
<1>6. Rec(n) = {} BY <1>2 DEF Rec, Tells
<1>7. Gathered(R, Append(l, n)) = Gathered(R, l) BY <1>1, <1>2, <1>6, RecsAppend DEF Gathered
<1>8. Append(l, n) \in Seq(Row) BY <1>1, <1>2
<1> QED BY <1>1, <1>5, <1>7, <1>8 DEF Live

\* Padding, Unqualified and Gap.
LEMMA DiagnosticDoes ==
  ASSUME NEW q, NEW pend, NEW R, Now(q, pend, R), NEW type,
         type \in {"discard", "unqualified_record", "observation_gap", "source_boundary"},
         Diagnostic(type), UNCHANGED <<wire, made, entry, count, prog, source>>
  PROVE  Does(q, pend, R)
<1> DEFINE n == [type |-> type, source |-> source]
<1>1. source \in Nat BY NowRan
<1>2. n \in Notice BY <1>1 DEF Notice
<1>3. stream' = Append(stream, n) BY DEF Diagnostic
<1> HIDE DEF n
<1>4. Machine' = Machine BY DEF Machine
<1>5. Live(source, q, pend, R, Machine, stream, wire) /\ made \in Nat /\ Turn(Machine, 0)
  BY DEF Now, Producing
<1>6. Live(source, q, pend, R, Machine, Append(stream, n), wire)
  BY <1>1, <1>2, <1>5, NoticeAppends
<1> QED BY <1>1, <1>3, <1>4, <1>5, <1>6 DEF Does, Producing

\* The programs are published or loaded again: their numbers go on.
Revised(P, P2, p, more) == P2 = [P EXCEPT ![p].rev = @ + 1, ![p].run = P[p].run + more]

\* A publication gives a program a later revision.
LEMMA Publishes ==
  ASSUME NEW src \in Nat, NEW m \in Machines, NEW R, NEW W, Traced(src, R, m, W),
         NEW M \in Machines, M.entry = m.entry,
         NEW p \in Programs, NEW more \in 0 .. 1,
         Revised(m.prog, M.prog, p, more)
  PROVE  /\ Traced(src, R, M, W) /\ Onward(src, m.prog, src, M.prog)
         /\ M.prog["json"].calls = m.prog["json"].calls
         /\ \A x \in Programs : M.prog[x].inst = m.prog[x].inst
<1>1. m.prog \in Progs BY DEF Machines, Progs
<1>2. \A x \in Programs : /\ M.prog[x].inst = m.prog[x].inst /\ M.prog[x].calls = m.prog[x].calls
                          /\ M.prog[x].fails = m.prog[x].fails
                          /\ M.prog[x].run = m.prog[x].run \/ M.prog[x].run = m.prog[x].run + 1
                          /\ m.prog[x].run \in Nat
  BY <1>1 DEF Progs, Bind, Pos, Revised
<1>3. "json" \in Programs /\ "http" \in Programs BY DEF Programs
<1>4. Onward(src, m.prog, src, M.prog) BY <1>2, <1>3 DEF Onward, Marked
<1>5. Numbered(src, R, M) BY <1>2, <1>3 DEF Traced, Numbered
<1>6. \A c \in Conns : m.entry[c] # NoEntry => m.entry[c].run \in Nat BY MachineFacts
<1>7. ASSUME NEW c \in Conns PROVE Apart1(M, c)
  <2> SUFFICES ASSUME m.entry[c] # NoEntry
               PROVE  /\ m.entry[c].owner <= M.prog["json"].inst
                      /\ m.entry[c].owner = M.prog["json"].inst =>
                           /\ m.entry[c].number <= M.prog["json"].calls /\ m.entry[c].run <= M.prog["json"].run
                           /\ m.entry[c].state = 2 => m.entry[c].run <= M.prog["http"].run
                      /\ \A d \in Conns : /\ m.entry[d] # NoEntry /\ m.entry[d].owner = m.entry[c].owner
                                          /\ m.entry[d].number = m.entry[c].number
                                          => d = c
    BY DEF Apart1
  <2>1. Apart1(m, c) BY DEF Traced
  <2>2. m.entry[c].run \in Nat BY <1>6
  <2>3. ASSUME NEW x \in Programs, m.entry[c].run <= m.prog[x].run
        PROVE  m.entry[c].run <= M.prog[x].run
    BY <1>2, <2>2, <2>3
  <2> QED BY <1>2, <1>3, <2>1, <2>3 DEF Apart1
<1>8. ASSUME NEW c \in Conns PROVE Tracked(src, R, M, W, c)
  <2> DEFINE e == m.entry[c]
  <2> SUFFICES ASSUME e # NoEntry PROVE Tracked(src, R, M, W, c) BY DEF Tracked
  <2>1. Apart1(m, c) /\ Tracked(src, R, m, W, c) BY DEF Traced
  <2>2. e.run \in Nat BY <1>6
  <2>3. Open(M, e) => Open(m, e)
    <3> SUFFICES ASSUME Open(M, e) PROVE Open(m, e) OBVIOUS
    <3>1. e.owner = m.prog["json"].inst /\ e.run = M.prog["json"].run /\ m.prog["json"].fails = 0
      BY <1>2, <1>3 DEF Open
    <3>2. e.run <= m.prog["json"].run BY <2>1, <3>1 DEF Apart1
    <3>3. e.run = m.prog["json"].run BY <1>2, <1>3, <2>2, <3>1, <3>2
    <3> QED BY <3>1, <3>3 DEF Open
  <2>4. Heard(M, e) /\ e.state = 2 => Heard(m, e)
    <3> SUFFICES ASSUME Heard(M, e), e.state = 2 PROVE Heard(m, e) OBVIOUS
    <3>1. e.owner = m.prog["json"].inst /\ e.run = M.prog["http"].run /\ m.prog["http"].fails = 0
      BY <1>2, <1>3 DEF Heard
    <3>2. e.run <= m.prog["http"].run BY <2>1, <3>1 DEF Apart1
    <3>3. e.run = m.prog["http"].run BY <1>2, <1>3, <2>2, <3>1, <3>2
    <3> QED BY <3>1, <3>3 DEF Heard
  <2>5. ASSUME NEW x, Tracked1(src, R, m, W, c, x) PROVE Tracked1(src, R, M, W, c, x)
    BY <2>3, <2>4, <2>5 DEF Tracked1
  <2> QED BY <2>1, <2>5 DEF Tracked
<1>9. Traced(src, R, M, W) BY <1>5, <1>7, <1>8 DEF Traced
<1> QED BY <1>2, <1>3, <1>4, <1>9

\* A reload binds later instances.
LEMMA Loads ==
  ASSUME NEW src \in Nat, NEW m \in Machines, NEW R, NEW W, Traced(src, R, m, W),
         NEW M \in Machines,
         m.prog["http"].inst = m.prog["json"].inst + 1,
         \A c \in Conns : M.entry[c] = m.entry[c] \/ M.entry[c] = NoEntry,
         M.prog["json"].inst = m.prog["http"].inst + 1,
         M.prog["http"].inst = M.prog["json"].inst + 1
  PROVE  Traced(src, R, M, W) /\ Onward(src, m.prog, src, M.prog)
<1>1. m.prog["json"].inst \in Nat BY MachineFacts
<1>2. R \subseteq Keys \X KeptRow /\ Numbered(src, R, m) BY DEF Traced
<1>3. Numbered(src, R, M)
  <2> SUFFICES ASSUME NEW x \in R
               PROVE  /\ x[1][1] <= src
                      /\ x[1][1] = src =>
                           /\ x[1][3] <= M.prog["json"].inst /\ x[2].producer[1] <= M.prog["http"].inst
                           /\ x[1][3] = M.prog["json"].inst => x[1][4] <= M.prog["json"].calls
                      /\ OfJson(x[2]) => x[2].producer[1] = x[1][3]
                      /\ ~OfJson(x[2]) => x[2].producer[1] > x[1][3]
    BY DEF Numbered
  <2>1. x[1][3] \in Nat /\ x[2].producer[1] \in Nat BY <1>2 DEF Keys, KeptRow
  <2>2. x[1][1] = src => x[1][3] <= m.prog["json"].inst /\ x[2].producer[1] <= m.prog["http"].inst
    BY <1>2 DEF Numbered
  <2>3. x[1][1] <= src /\ (OfJson(x[2]) => x[2].producer[1] = x[1][3]) /\ (~OfJson(x[2]) => x[2].producer[1] > x[1][3])
    BY <1>2 DEF Numbered
  <2>4. x[1][1] = src => /\ x[1][3] < M.prog["json"].inst /\ x[1][3] <= M.prog["json"].inst
                         /\ x[2].producer[1] <= M.prog["http"].inst /\ x[1][3] # M.prog["json"].inst
    BY <1>1, <2>1, <2>2
  <2> QED BY <2>3, <2>4
<1>4. ASSUME NEW c \in Conns, M.entry[c] # NoEntry
      PROVE  /\ M.entry[c] = m.entry[c] /\ m.entry[c].owner <= m.prog["json"].inst
             /\ m.entry[c].owner \in Nat /\ M.entry[c].owner < M.prog["json"].inst
             /\ M.entry[c].owner <= M.prog["json"].inst /\ M.entry[c].owner # M.prog["json"].inst
  <2>1. M.entry[c] = m.entry[c] BY <1>4
  <2>2. m.entry[c].owner \in Nat BY <1>4, <2>1, MachineFacts
  <2>3. m.entry[c].owner <= m.prog["json"].inst BY <1>4, <2>1 DEF Traced, Apart1
  <2> QED BY <1>1, <2>1, <2>2, <2>3
<1>5. ASSUME NEW c \in Conns PROVE Apart1(M, c)
  <2> SUFFICES ASSUME M.entry[c] # NoEntry PROVE Apart1(M, c) BY DEF Apart1
  <2>1. \A d \in Conns : M.entry[d] # NoEntry => M.entry[d] = m.entry[d] OBVIOUS
  <2>2. Apart1(m, c) BY DEF Traced
  <2> QED BY <1>4, <2>1, <2>2 DEF Apart1
<1>6. ASSUME NEW c \in Conns PROVE Tracked(src, R, M, W, c)
  <2> SUFFICES ASSUME M.entry[c] # NoEntry PROVE Tracked(src, R, M, W, c) BY DEF Tracked
  <2>1. ~Open(M, M.entry[c]) /\ ~Heard(M, M.entry[c]) BY <1>4 DEF Open, Heard
  <2>2. \A x : Tracked1(src, R, M, W, c, x) BY <2>1 DEF Tracked1
  <2>3. Tracked(src, R, m, W, c) /\ M.entry[c] = m.entry[c] BY <1>4 DEF Traced
  <2> QED BY <2>2, <2>3 DEF Tracked
<1>7. Onward(src, m.prog, src, M.prog)
  <2> SUFFICES ASSUME NEW a \in Nat, NEW b \in Nat, NEW n \in Nat, Marked(src, m.prog, a, b, n)
               PROVE  Marked(src, M.prog, a, b, n)
    BY DEF Onward
  <2>1. a = src => b <= m.prog["http"].inst BY DEF Marked
  <2>2. a = src => b <= M.prog["http"].inst /\ b # M.prog["json"].inst /\ b # M.prog["http"].inst
    BY <1>1, <2>1
  <2>3. a = src => \A p \in Programs : b # M.prog[p].inst BY <2>2 DEF Programs
  <2> QED BY <2>2, <2>3 DEF Marked
<1> QED BY <1>2, <1>3, <1>5, <1>6, <1>7 DEF Traced

\* A restart begins a later source.
LEMMA Restarts ==
  ASSUME NEW src \in Nat, NEW m \in Machines, NEW R, NEW W, Traced(src, R, m, W),
         NEW M \in Machines, NEW W2,
         \A c \in Conns : M.entry[c] = NoEntry
  PROVE  Traced(src + 1, R, M, W2) /\ Onward(src, m.prog, src + 1, M.prog)
<1>1. R \subseteq Keys \X KeptRow /\ Numbered(src, R, m) BY DEF Traced
<1>2. Numbered(src + 1, R, M)
  <2> SUFFICES ASSUME NEW x \in R
               PROVE  /\ x[1][1] <= src + 1 /\ x[1][1] # src + 1
                      /\ OfJson(x[2]) => x[2].producer[1] = x[1][3]
                      /\ ~OfJson(x[2]) => x[2].producer[1] > x[1][3]
    BY DEF Numbered
  <2>1. x[1][1] \in Nat BY <1>1 DEF Keys
  <2>2. x[1][1] <= src BY <1>1 DEF Numbered
  <2>3. x[1][1] <= src + 1 /\ x[1][1] # src + 1 BY <2>1, <2>2
  <2> QED BY <1>1, <2>3 DEF Numbered
<1>3. \A c \in Conns : Apart1(M, c) /\ Tracked(src + 1, R, M, W2, c) BY DEF Apart1, Tracked
<1>4. Onward(src, m.prog, src + 1, M.prog)
  <2> SUFFICES ASSUME NEW a \in Nat, NEW b \in Nat, NEW n \in Nat, Marked(src, m.prog, a, b, n)
               PROVE  Marked(src + 1, M.prog, a, b, n)
    BY DEF Onward
  <2>1. a <= src BY DEF Marked
  <2>2. a <= src + 1 /\ a # src + 1 BY <2>1
  <2> QED BY <2>2 DEF Marked
<1> QED BY <1>1, <1>2, <1>3, <1>4 DEF Traced

\* The state after a step that is no invocation.
LEMMA Becomes ==
  ASSUME NEW src, NEW src2 \in Nat, NEW q, NEW pend, NEW R, NEW m, NEW M \in Machines, NEW l,
         NEW W, NEW W2 \in Wires,
         Live(src, q, pend, R, m, l, W), src \in Nat, MapOk(M),
         M.prog["http"].inst = M.prog["json"].inst + 1,
         Traced(src2, Gathered(R, l), M, W2), Onward(src, m.prog, src2, M.prog)
  PROVE  Live(src2, q, pend, R, M, l, W2)
<1>1. Log(src, q, pend, m.prog, l) /\ l \in Seq(Row) BY DEF Live
<1>2. Log(src2, q, pend, M.prog, l) BY <1>1, LogOnward
<1> QED BY <1>1, <1>2 DEF Live

\* Publish.
LEMMA PublishDoes ==
  ASSUME NEW q, NEW pend, NEW R, Now(q, pend, R), NEW p \in Programs, NEW more \in 0 .. 1,
         Publish(p, prog[p].run + more)
  PROVE  Does(q, pend, R)
<1> DEFINE m == Machine
           M == Machine'
<1>1. /\ prog' = [prog EXCEPT ![p].rev = @ + 1, ![p].run = prog[p].run + more]
      /\ wire' = wire /\ made' = made /\ entry' = entry /\ count' = count /\ source' = source /\ stream' = stream
  BY DEF Publish
<1>2. m.prog = prog /\ m.entry = entry /\ m.count = count BY DEF Machine
<1>3. M.prog = prog' /\ M.entry = entry /\ M.count = count /\ M.rows = << >>
      /\ M = [entry |-> entry, count |-> count, prog |-> prog', rows |-> << >>]
  BY <1>1 DEF Machine
<1> HIDE DEF m, M
<1>4. Live(source, q, pend, R, m, stream, wire) /\ source \in Nat /\ made \in Nat /\ Turn(m, 0)
  BY DEF Now, Producing, m
<1>5. /\ m \in Machines /\ MapOk(m) /\ m.prog["http"].inst = m.prog["json"].inst + 1
      /\ Traced(source, Gathered(R, stream), m, wire) /\ wire \in Wires
  BY <1>4 DEF Live
<1>6. Revised(m.prog, M.prog, p, more) BY <1>1, <1>2, <1>3 DEF Revised
<1>7. m.entry \in [Conns -> Entry] /\ m.count \in Nat /\ m.prog \in [Programs -> Bind]
  BY <1>5 DEF Machines
<1>8. M.prog \in [Programs -> Bind]
  <2>1. m.prog[p] \in Bind BY <1>7
  <2> DEFINE r == m.prog[p]
             b == [r EXCEPT !.rev = @ + 1, !.run = r.run + more]
  <2>3. M.prog = [m.prog EXCEPT ![p] = b] BY <1>6 DEF Revised
  <2>4. r \in Bind BY <2>1
  <2> HIDE DEF r
  <2>5. r.rev + 1 \in Nat /\ r.run + more \in Pos BY <2>4 DEF Bind, Pos
  <2>2. b \in Bind BY <2>4, <2>5 DEF Bind
  <2> HIDE DEF b
  <2> QED BY <1>7, <2>2, <2>3
<1>9. M \in Machines BY <1>2, <1>3, <1>7, <1>8 DEF Machines
<1>10. MapOk(M) BY <1>2, <1>3, <1>5 DEF MapOk, Entries
<1>11. /\ Traced(source, Gathered(R, stream), M, wire) /\ Onward(source, m.prog, source, M.prog)
       /\ M.prog["json"].calls = m.prog["json"].calls
       /\ \A x \in Programs : M.prog[x].inst = m.prog[x].inst
  <2>1. M.entry = m.entry BY <1>2, <1>3
  <2> QED BY <1>4, <1>5, <1>6, <1>9, <2>1, Publishes
<1>12. M.prog["http"].inst = M.prog["json"].inst + 1 BY <1>5, <1>11 DEF Programs
<1>13. Live(source, q, pend, R, M, stream, wire) BY <1>4, <1>5, <1>9, <1>10, <1>11, <1>12, Becomes
<1>14. Turn(M, 0) BY <1>4, <1>11 DEF Turn
<1> QED BY <1>1, <1>4, <1>13, <1>14 DEF Does, Producing, M

\* The programs of a load.
LEMMA PairIs ==
  ASSUME NEW i \in Pos
  PROVE  /\ Pair(i) \in [Programs -> Bind] /\ Pair(i)["json"].inst = i /\ Pair(i)["http"].inst = i + 1
         /\ Pair(i)["json"].calls = 0
BY DEF Pair, Programs, Bound, Bind, Pos

\* The empty map.
LEMMA NoEntries ==
  ASSUME NEW m, m.entry = [c \in Conns |-> NoEntry], m.count \in Nat
  PROVE  MapOk(m) /\ m.entry \in [Conns -> Entry]
<1>1. m.entry \in [Conns -> Entry] BY DEF Entry
<1>2. Entries(m) = {} BY DEF Entries
<1>3. IsFiniteSet(Entries(m)) /\ Cardinality(Entries(m)) = 0 BY <1>2, FS_EmptySet
<1> QED BY <1>1, <1>3 DEF MapOk

\* Reload.
LEMMA ReloadDoes ==
  ASSUME NEW q, NEW pend, NEW R, Now(q, pend, R), NEW keep \in BOOLEAN, Reload(keep)
  PROVE  Does(q, pend, R)
<1> DEFINE m == Machine
           M == Machine'
           i == prog["http"].inst + 1
           E == IF keep THEN entry ELSE [c \in Conns |-> NoEntry]
           n == IF keep THEN count ELSE 0
<1>1. /\ prog' = Pair(i) /\ entry' = E /\ count' = n
      /\ wire' = wire /\ made' = made /\ source' = source /\ stream' = stream
  BY DEF Reload
<1>2. m.prog = prog /\ m.entry = entry /\ m.count = count BY DEF Machine
<1> HIDE DEF E, n, i
<1>3. M.prog = Pair(i) /\ M.entry = E /\ M.count = n
      /\ M = [entry |-> E, count |-> n, prog |-> Pair(i), rows |-> << >>]
  BY <1>1 DEF Machine
<1> HIDE DEF m, M
<1>4. Live(source, q, pend, R, m, stream, wire) /\ source \in Nat /\ made \in Nat /\ Turn(m, 0)
  BY DEF Now, Producing, m
<1>5. /\ m \in Machines /\ MapOk(m) /\ m.prog["http"].inst = m.prog["json"].inst + 1
      /\ Traced(source, Gathered(R, stream), m, wire) /\ wire \in Wires
  BY <1>4 DEF Live
<1>6. m.entry \in [Conns -> Entry] /\ m.count \in Nat BY <1>5 DEF Machines
<1>7. i \in Pos /\ i = m.prog["http"].inst + 1
  <2>1. m.prog["http"].inst \in Nat BY <1>5, MachineFacts
  <2> QED BY <1>2, <2>1 DEF i, Pos
<1>8. /\ Pair(i) \in [Programs -> Bind] /\ Pair(i)["json"].inst = i /\ Pair(i)["http"].inst = i + 1
      /\ Pair(i)["json"].calls = 0
  BY <1>7, PairIs
<1>9. /\ MapOk(M) /\ M.entry \in [Conns -> Entry] /\ n \in Nat
      /\ \A c \in Conns : M.entry[c] = m.entry[c] \/ M.entry[c] = NoEntry
  <2>1. CASE keep
    <3>1. M.entry = m.entry /\ M.count = m.count /\ n = m.count BY <1>2, <1>3, <2>1 DEF E, n
    <3>2. MapOk(M) BY <1>5, <3>1 DEF MapOk, Entries
    <3> QED BY <1>6, <3>1, <3>2
  <2>2. CASE ~keep
    <3>1. M.entry = [c \in Conns |-> NoEntry] /\ M.count = 0 /\ n = 0 BY <1>3, <2>2 DEF E, n
    <3>2. MapOk(M) /\ M.entry \in [Conns -> Entry] BY <3>1, NoEntries
    <3> QED BY <3>1, <3>2
  <2> QED BY <2>1, <2>2
<1>10. M \in Machines
  <2>1. << >> \in Seq(Row) OBVIOUS
  <2>2. E \in [Conns -> Entry] BY <1>3, <1>9
  <2> HIDE DEF E
  <2> QED BY <1>3, <1>8, <1>9, <2>1, <2>2 DEF Machines
<1>11. M.prog["json"].inst = m.prog["http"].inst + 1 /\ M.prog["http"].inst = M.prog["json"].inst + 1
  BY <1>3, <1>7, <1>8
<1>12. Traced(source, Gathered(R, stream), M, wire) /\ Onward(source, m.prog, source, M.prog)
  BY <1>4, <1>5, <1>9, <1>10, <1>11, Loads
<1>13. Live(source, q, pend, R, M, stream, wire) BY <1>4, <1>5, <1>9, <1>10, <1>11, <1>12, Becomes
<1>14. Turn(M, 0)
  <2>1. 0 \in Nat /\ 0 = 4 * 0 + 0 OBVIOUS
  <2> QED BY <1>3, <1>8, <2>1 DEF Turn
<1> QED BY <1>1, <1>4, <1>13, <1>14 DEF Does, Producing, M

\* Restart.
LEMMA RestartDoes ==
  ASSUME NEW q, NEW pend, NEW R, Now(q, pend, R), Restart
  PROVE  Does(q, pend, R)
<1> DEFINE m == Machine
           M == Machine'
           E == [c \in Conns |-> NoEntry]
           W == [c \in Conns |-> << >>]
           n == [type |-> "source_boundary", source |-> source + 1]
<1>1. /\ prog' = Pair(1) /\ entry' = E /\ count' = 0
      /\ wire' = W /\ made' = made /\ source' = source + 1 /\ stream' = Append(stream, n)
  BY DEF Restart
<1>2. M.prog = Pair(1) /\ M.entry = E /\ M.count = 0
      /\ M = [entry |-> E, count |-> 0, prog |-> Pair(1), rows |-> << >>]
  BY <1>1 DEF Machine
<1>3. W \in Wires BY DEF Wires
<1>4. \A c \in Conns : E[c] = NoEntry OBVIOUS
<1> HIDE DEF m, M, W
<1>5. Live(source, q, pend, R, m, stream, wire) /\ source \in Nat /\ made \in Nat
  BY DEF Now, Producing, m
<1>6. n \in Notice BY <1>5 DEF Notice
<1> HIDE DEF n
<1>7. m \in Machines /\ Traced(source, Gathered(R, stream), m, wire) BY <1>5 DEF Live
<1>8. 1 \in Pos BY DEF Pos
<1>9. /\ Pair(1) \in [Programs -> Bind] /\ Pair(1)["json"].inst = 1 /\ Pair(1)["http"].inst = 1 + 1
      /\ Pair(1)["json"].calls = 0
  BY <1>8, PairIs
<1>10. MapOk(M) /\ E \in [Conns -> Entry] BY <1>2, NoEntries
<1> HIDE DEF E
<1>11. M \in Machines
  <2>1. << >> \in Seq(Row) OBVIOUS
  <2> QED BY <1>2, <1>9, <1>10, <2>1 DEF Machines
<1>12. Traced(source + 1, Gathered(R, stream), M, W) /\ Onward(source, m.prog, source + 1, M.prog)
  BY <1>2, <1>4, <1>5, <1>7, <1>11, Restarts
<1>13. source + 1 \in Nat BY <1>5
<1>14. M.prog["http"].inst = M.prog["json"].inst + 1 BY <1>2, <1>9
<1>15. Live(source + 1, q, pend, R, M, stream, W)
  <2> DEFINE src2 == source + 1
  <2>1. src2 \in Nat /\ Traced(src2, Gathered(R, stream), M, W) /\ Onward(source, m.prog, src2, M.prog) BY <1>12, <1>13
  <2> HIDE DEF src2
  <2>2. Live(src2, q, pend, R, M, stream, W) BY <1>3, <1>5, <1>10, <1>11, <1>14, <2>1, Becomes
  <2> QED BY <2>2 DEF src2
<1>16. Live(source + 1, q, pend, R, M, Append(stream, n), W) BY <1>6, <1>13, <1>15, NoticeAppends
<1>17. Turn(M, 0)
  <2>1. 0 \in Nat /\ 0 = 4 * 0 + 0 OBVIOUS
  <2> QED BY <1>2, <1>9, <2>1 DEF Turn
<1> QED BY <1>1, <1>5, <1>13, <1>16, <1>17 DEF Does, Producing, M

\* Every step of the programs keeps what the stream, the map and the groups say.
LEMMA GroupNextDoes ==
  ASSUME NEW q, NEW pend, NEW R, Now(q, pend, R), GroupNext
  PROVE  Does(q, pend, R)
<1>1. CASE Traffic BY <1>1, TrafficDoes
<1>2. CASE Padding \/ Unqualified \/ Gap
  <2>1. PICK type \in {"discard", "unqualified_record", "observation_gap"} :
          Diagnostic(type) /\ UNCHANGED <<wire, made, entry, count, prog, source>>
    BY <1>2 DEF Padding, Unqualified, Gap
  <2>2. type \in {"discard", "unqualified_record", "observation_gap", "source_boundary"} OBVIOUS
  <2> QED BY <2>1, <2>2, DiagnosticDoes
<1>3. CASE \E p \in Programs, more \in 0 .. 1 : Publish(p, prog[p].run + more)
  BY <1>3, PublishDoes
<1>4. CASE \E keep \in BOOLEAN : Reload(keep) BY <1>4, ReloadDoes
<1>5. CASE Restart BY <1>5, RestartDoes
<1> QED BY <1>1, <1>2, <1>3, <1>4, <1>5 DEF GroupNext
=============================================================================
