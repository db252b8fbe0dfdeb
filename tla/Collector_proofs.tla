-------------------------- MODULE Collector_proofs --------------------------
(***************************************************************************)
(* Proofs about Collector for every ring size, every record size, every    *)
(* number of emits and faults, and every retention and page limit.         *)
(*                                                                         *)
(* Three layers: the layout of the ring between its two cursors, the       *)
(* lock step of reader and collector, and the journal against both.        *)
(***************************************************************************)
EXTENDS Collector, FiniteSetTheorems, TLAPS

-----------------------------------------------------------------------------
(* The inductive invariant.                                                *)

\* Every emit drops at most once.
CountInv ==
  /\ drops <= emit.id /\ (epc # "idle" => drops < emit.id)
  /\ inc <= faults + 1
  /\ epc # "idle" => emit.need \in Needs /\ emit.need <= Size

\* What follows a record that ends at e begins right there or behind a pad.
Follows(e, b) == b = e \/ (Off(e) # 0 /\ b = e + Size - Off(e))

\* Where what follows record k begins.
After(k) == IF k < Len(emitted) THEN emitted[k + 1].begin ELSE prod

Header(k)    == [busy |-> FALSE, discard |-> FALSE, len |-> emitted[k].end - emitted[k].begin,
                 id |-> emitted[k].id]
PadHeader(p) == [busy |-> FALSE, discard |-> TRUE, len |-> Size - Off(p), id |-> 0]

\* The records that landed lie one behind the other up to prod.
Layout ==
  /\ emitted = << >> => prod = 0
  /\ \A k \in 1 .. Len(emitted) :
       /\ emitted[k].begin < emitted[k].end /\ emitted[k].end <= prod
       /\ emitted[k].end - emitted[k].begin <= Size - Off(emitted[k].begin)
       /\ k = 1 => emitted[k].begin = 0
       /\ Follows(emitted[k].end, After(k))
  /\ \A k, m \in 1 .. Len(emitted) : k < m => emitted[k].end <= emitted[m].begin

\* No more than the ring holds lies between the cursors, and the consumer's is
\* at the beginning of a record or a pad, or at prod.
Cursor ==
  /\ cons <= prod /\ prod - cons <= Size
  /\ \/ cons = 0
     \/ \E k \in 1 .. Len(emitted) : cons = emitted[k].end \/ cons = After(k)

\* The headers that the consumer has not passed are intact.
Intact ==
  \A k \in 1 .. Len(emitted) :
    /\ cons <= emitted[k].begin => cell[Off(emitted[k].begin)] = Header(k)
    /\ cons <= emitted[k].end /\ After(k) # emitted[k].end =>
         cell[Off(emitted[k].end)] = PadHeader(emitted[k].end)

\* The emit in progress.
Emitting ==
  /\ epc # "idle" => emit.prod = prod
  /\ epc \in {"pad", "publish pad"} => Off(prod) # 0
  /\ epc = "publish pad" => cell[Off(prod)] = PadHeader(prod)
  /\ epc \in {"check", "write", "commit", "advance"} => Off(prod) + emit.need <= Size
  /\ epc \in {"write", "commit", "advance"} => prod - cons + emit.need <= Size
  /\ epc \in {"commit", "advance"} =>
       cell[Off(prod)] = [busy |-> epc = "commit", discard |-> FALSE, len |-> emit.need, id |-> emit.id]

RingInv == ~crossed /\ ~overrun => Layout /\ Cursor /\ Intact /\ Emitting

\* One frame at a time: it is offered, or taken and not yet acknowledged, or
\* acknowledged, or there is none.
LockStep ==
  /\ cpc \in {"down", "checked"} => rpc = "off" /\ frame = None /\ ack = None
  /\ cpc # "down" => bound <= inc
  /\ cpc \in {"read", "ack"} => rpc # "off" /\ rd.src = bound
  /\ cpc = "ack" => frame = None /\ ack = None /\ rpc \in {"hello", "health", "wait"}
  /\ frame # None => /\ cpc = "read" /\ ack = None
                     /\ \/ rpc = "hello" /\ frame = [kind |-> "source", src |-> rd.src]
                        \/ rpc = "health" /\ frame.kind = "ring_health"
                        \/ rpc = "wait" /\ frame.kind \in {"record", "discard"}
  /\ ack # None => cpc = "read" /\ frame = None /\ rpc \in {"hello", "health", "wait", "failed"}
  /\ cpc \in {"read", "ack"} /\ rpc # "failed" /\ (rpc = "hello" => frame = None) =>
       journal.source = rd.src

\* The reader works on the ring of the TMM it was started for.
ReaderInv ==
  ~crossed =>
    /\ rpc \in Window => rd.src = inc
    /\ rpc \in {"header", "wait", "store"} /\ rd.src = inc => rd.cons = cons
    /\ ~overrun /\ rpc = "header" => cons < rd.prod /\ rd.prod <= prod

\* The frame of record k was committed for the running TMM.
Committed(k) == \E i \in Journalled(inc) : log[i].frame = RecordFrame(k)

\* What the reader has offered is what lies at the cursor, and once it is
\* taken it is in the log.
Offered ==
  ~crossed /\ ~overrun /\ rpc \in {"wait", "store"} /\ rd.src = inc =>
    \E k \in 1 .. Len(emitted) :
      \/ /\ cons = emitted[k].begin /\ rd.step = emitted[k].end - emitted[k].begin
         /\ IF frame # None THEN frame = RecordFrame(k) ELSE Committed(k)
      \/ /\ cons = emitted[k].end /\ After(k) # cons /\ After(k) = cons + rd.step
         /\ frame # None => frame.kind = "discard" /\ frame.end = After(k)

\* The log: whose events it holds, and what the checkpoint of the current
\* journal says of it.
LogInv ==
  /\ \A i \in 1 .. Len(log) : log[i].src <= (IF cpc = "down" THEN inc ELSE bound)
  /\ journal.ring.pos # Unset /\ journal.ring.print.kind = "record" =>
       \E i \in Journalled(journal.source) : log[i].frame = journal.ring.print
  /\ journal.id = 1 =>
       \A i \in Journalled(inc) :
         journal.source = inc /\ log[i].frame.end <= journal.ring.pos

\* The records of the running TMM in the log: none beyond the cursor, in order,
\* all that the cursor has passed.
RecordsInv ==
  ~crossed /\ ~overrun =>
    /\ \A i \in Journalled(inc) : log[i].frame.begin <= cons
    /\ \A g, h \in Journalled(inc) : g < h => log[g].frame.begin <= log[h].frame.begin
    /\ \A k \in 1 .. Len(emitted) : emitted[k].end <= cons => Committed(k)

CInv ==
  /\ TypeOK /\ CountInv /\ RingInv /\ LockStep /\ ReaderInv /\ Offered
  /\ LogInv /\ RecordsInv /\ JournalExact

-----------------------------------------------------------------------------
(* Offsets.                                                                *)

\* Positions fold into the data area; a position is a multiple of the size and
\* its offset.
LEMMA OffParts ==
  ASSUME NEW p \in Nat
  PROVE  /\ Off(p) \in 0 .. Size - 1 /\ Off(p) \in Offsets /\ Off(p) \in Nat
         /\ \E i \in Nat : p = Size * i + Off(p)
<1>1. Size \in Nat /\ Size > 0  BY RingAssumption DEF RingAssumption
<1>2. p % Size \in 0 .. Size - 1 /\ p = Size * (p \div Size) + (p % Size)  BY <1>1
<1>3. p \div Size \in Nat  BY <1>1
<1>4. Off(p) = p % Size  BY DEF Off
<1>5. \E i \in Nat : p = Size * i + Off(p)  BY <1>2, <1>3, <1>4
<1>6. Off(p) \in 0 .. Size - 1  BY <1>2, <1>4
<1> HIDE DEF Off
<1>7. Off(p) \in Nat  BY <1>1, <1>6
<1> QED BY <1>5, <1>6, <1>7 DEF Offsets

\* Two positions less than the size apart have different offsets.
LEMMA OffDistinct ==
  ASSUME NEW p \in Nat, NEW q \in Nat, p < q, q - p < Size
  PROVE  Off(p) # Off(q)
<1>1. Size \in Nat /\ Size > 0  BY RingAssumption DEF RingAssumption
<1>2. PICK i \in Nat : p = Size * i + Off(p)  BY OffParts
<1>3. PICK j \in Nat : q = Size * j + Off(q)  BY OffParts
<1>4. Off(p) \in Nat /\ Off(q) \in Nat  BY OffParts
<1>5. ASSUME Off(p) = Off(q) PROVE FALSE
  <2>1. q - p = Size * j - Size * i  BY <1>1, <1>2, <1>3, <1>4, <1>5
  <2>2. Size * j - Size * i = Size * (j - i)  BY <1>1
  <2>3. j - i > 0  BY <1>1, <2>1, <2>2
  <2>4. Size * (j - i) >= Size  BY <1>1, <2>3
  <2> QED BY <1>1, <2>1, <2>2, <2>4
<1> QED BY <1>5

\* The end of the data area behind a position has offset zero.
LEMMA OffRound ==
  ASSUME NEW p \in Nat
  PROVE  /\ p + Size - Off(p) \in Nat /\ Off(p + Size - Off(p)) = 0 /\ Off(0) = 0
         /\ p < p + Size - Off(p)
<1>1. Size \in Nat /\ Size > 0  BY RingAssumption DEF RingAssumption
<1>2. PICK i \in Nat : p = Size * i + Off(p)  BY OffParts
<1>3. Off(p) \in 0 .. Size - 1  BY OffParts
<1>4. p + Size - Off(p) = Size * i + Size  BY <1>1, <1>2, <1>3
<1>5. Size * i + Size = Size * (i + 1)  BY <1>1
<1>6. Size * (i + 1) \in Nat  BY <1>1
<1>7. PICK j \in Nat : Size * (i + 1) = Size * j + Off(Size * (i + 1))  BY <1>6, OffParts
<1>8. Off(Size * (i + 1)) \in 0 .. Size - 1  BY <1>6, OffParts
<1>9. Size * (i + 1 - j) = Off(Size * (i + 1))  BY <1>1, <1>7, <1>8
<1>10. i + 1 - j = 0
  <2>1. CASE i + 1 - j > 0
    <3>1. Size * (i + 1 - j) >= Size  BY <1>1, <2>1
    <3> QED BY <1>1, <1>8, <1>9, <3>1
  <2>2. CASE i + 1 - j < 0
    <3>1. Size * (i + 1 - j) < 0  BY <1>1, <2>2
    <3> QED BY <1>1, <1>8, <1>9, <3>1
  <2> QED BY <2>1, <2>2
<1>11. Off(Size * (i + 1)) = 0  BY <1>1, <1>9, <1>10
<1>12. Off(0) = 0  BY <1>1 DEF Off
<1> QED BY <1>1, <1>3, <1>4, <1>5, <1>6, <1>11, <1>12

\* While no more than the ring holds lies between the cursors, the comparison
\* modulo 2^64 is exact.
LEMMA RoomExact ==
  ASSUME emit.prod \in Nat, emit.need \in Nat, emit.need <= Size, NEW c \in Nat,
         c <= emit.prod, emit.prod - c <= Size
  PROVE  Room(c) <=> emit.prod - c + emit.need <= Size
<1>1. Size \in Nat /\ Word \in Nat /\ Word > 2 * Size  BY RingAssumption DEF RingAssumption
<1> DEFINE x == emit.prod - c + emit.need
<1>2. x \in Nat /\ x < Word  BY <1>1
<1> HIDE DEF x
<1>3. x % Word = x  BY <1>1, <1>2
<1> QED BY <1>3 DEF Room, x

-----------------------------------------------------------------------------
(* Types.                                                                  *)

TInv == TypeOK /\ CountInv

ReaderRecord == [src : Nat, last : Nat \union {Unset}, cons : Nat, prod : Nat, step : Nat, drops : Nat]

\* The constants of the reader.
LEMMA ReaderConstants ==
  /\ NoReader \in ReaderRecord
  /\ \A n \in Nat : [NoReader EXCEPT !.src = n] \in ReaderRecord /\ [NoReader EXCEPT !.src = n].src = n
  /\ None \notin Frames /\ None.kind = "none"
  /\ NoCheck \in Checks
BY DEF NoReader, ReaderRecord, None, Frames, HealthFrames, RingFrames, NoCheck, Checks, Unset

CellRecord == [busy : BOOLEAN, discard : BOOLEAN, len : 0 .. Size, id : 0 .. EmitMax]
EmitRecord == [id : 0 .. EmitMax, need : {0} \union Needs, prod : Nat]
LandRecord == [id : 1 .. EmitMax, begin : Nat, end : Nat]

\* The types of the ring in their parts, with the constants' facts.
LEMMA RingTypes ==
  ASSUME TInv
  PROVE  /\ prod \in Nat /\ cons \in Nat /\ drops \in 0 .. EmitMax /\ drops \in Nat
         /\ cell \in [Offsets -> CellRecord] /\ emit \in EmitRecord /\ emitted \in Seq(LandRecord)
         /\ emit.id \in 0 .. EmitMax /\ emit.id \in Nat /\ emit.prod \in Nat /\ emit.need \in Nat
         /\ drops <= emit.id /\ (epc # "idle" => drops < emit.id)
         /\ (epc # "idle" => emit.need \in Needs /\ emit.need <= Size /\ emit.need > 0)
         /\ inc \in Nat /\ faults \in Nat
         /\ Size \in Nat /\ Size > 0 /\ EmitMax \in Nat /\ (\A n \in Needs : n \in Nat /\ n > 0)
<1>1. Size \in Nat /\ Size > 0 /\ EmitMax \in Nat /\ FaultMax \in Nat
  BY RingAssumption, CollectorAssumption DEF RingAssumption, CollectorAssumption
<1>2. \A n \in Needs : n \in Nat /\ n > 0  BY RingAssumption DEF RingAssumption
<1>3. emit \in EmitRecord /\ emitted \in Seq(LandRecord) /\ cell \in [Offsets -> CellRecord]
  BY DEF TInv, TypeOK, RingTypeOK, EmitRecord, LandRecord, CellRecord
<1>4. emit.id \in 0 .. EmitMax /\ emit.prod \in Nat /\ emit.need \in {0} \union Needs
  BY <1>3 DEF EmitRecord
<1>5. emit.id \in Nat /\ emit.need \in Nat  BY <1>1, <1>2, <1>4
<1>6. prod \in Nat /\ cons \in Nat /\ drops \in 0 .. EmitMax /\ inc \in 1 .. FaultMax + 1 /\ faults \in 0 .. FaultMax
  BY DEF TInv, TypeOK, RingTypeOK
<1>7. drops \in Nat /\ inc \in Nat /\ faults \in Nat  BY <1>1, <1>6
<1>8. /\ drops <= emit.id /\ (epc # "idle" => drops < emit.id)
      /\ (epc # "idle" => emit.need \in Needs /\ emit.need <= Size)
  BY DEF TInv, CountInv
<1>9. epc # "idle" => emit.need > 0  BY <1>2, <1>8
<1> QED BY <1>1, <1>2, <1>3, <1>4, <1>5, <1>6, <1>7, <1>8, <1>9

\* The emit keeps the ring in its types and counts a dropped record once.
LEMMA EmitTypes ==
  ASSUME TInv, Emit, UNCHANGED <<inc, faults>>
  PROVE  RingTypeOK' /\ CountInv'
<1> USE RingTypes
<1>0. inc <= faults + 1 /\ overrun \in BOOLEAN
      /\ epc \in {"idle", "pad", "publish pad", "check", "write", "commit", "advance"}
  BY DEF TInv, CountInv, TypeOK, RingTypeOK
<1>1. ASSUME NEW n \in Needs, EmitStart(n) PROVE RingTypeOK' /\ CountInv'
  <2>1. emit' = [id |-> emit.id + 1, need |-> n, prod |-> prod] /\ emit.id < EmitMax /\ n <= Size
        /\ epc' \in {"pad", "check"} /\ UNCHANGED <<prod, cons, drops, cell, emitted, overrun>>
    BY <1>1 DEF EmitStart
  <2>2. emit.id + 1 \in 0 .. EmitMax /\ drops < emit.id + 1 /\ drops <= emit.id + 1  BY <2>1
  <2>3. emit' \in EmitRecord /\ emit'.id = emit.id + 1 /\ emit'.need = n
    BY <2>1, <2>2 DEF EmitRecord
  <2>4. RingTypeOK'  BY <1>0, <2>1, <2>3 DEF RingTypeOK, EmitRecord, CellRecord, LandRecord
  <2>5. CountInv'  BY <1>0, <2>1, <2>2, <2>3 DEF CountInv
  <2> QED BY <2>4, <2>5
<1>2. ASSUME EmitPadHeader PROVE RingTypeOK' /\ CountInv'
  <2>0. emit.prod \in Nat  OBVIOUS
  <2>a. Off(emit.prod) \in Offsets /\ Off(emit.prod) \in 0 .. Size - 1  BY <2>0, OffParts
  <2>1. Off(emit.prod) \in Offsets /\ Size - Off(emit.prod) \in 0 .. Size  BY <2>a
  <2> DEFINE h == [busy |-> FALSE, discard |-> TRUE, len |-> Size - Off(emit.prod), id |-> 0]
  <2>2. h \in CellRecord  BY <2>1 DEF CellRecord
  <2>3. cell' = [cell EXCEPT ![Off(emit.prod)] = h]  BY <1>2 DEF EmitPadHeader
  <2> HIDE DEF h
  <2>4. cell' \in [Offsets -> CellRecord]  BY <2>1, <2>2, <2>3
  <2>5. epc = "pad" /\ epc' = "publish pad" /\ overrun' \in BOOLEAN /\ UNCHANGED <<prod, cons, drops, emit, emitted>>
    BY <1>0, <1>2 DEF EmitPadHeader
  <2>6. RingTypeOK'  BY <2>4, <2>5 DEF RingTypeOK, EmitRecord, CellRecord, LandRecord
  <2>7. CountInv'  BY <1>0, <2>5 DEF CountInv
  <2> QED BY <2>6, <2>7
<1>3. ASSUME EmitPadPublish PROVE RingTypeOK' /\ CountInv'
  <2> DEFINE p == emit.prod + Size - Off(emit.prod)
  <2>1. p \in Nat  BY OffRound
  <2>2. epc = "publish pad" /\ epc' = "check" /\ prod' = p /\ emit' = [emit EXCEPT !.prod = p]
        /\ overrun' \in BOOLEAN /\ UNCHANGED <<cons, drops, cell, emitted>>
    BY <1>0, <1>3 DEF EmitPadPublish
  <2> HIDE DEF p
  <2>3. emit' \in EmitRecord /\ emit'.id = emit.id /\ emit'.need = emit.need
    BY <2>1, <2>2 DEF EmitRecord
  <2>4. RingTypeOK'  BY <2>1, <2>2, <2>3 DEF RingTypeOK, EmitRecord, CellRecord, LandRecord
  <2>5. CountInv'  BY <1>0, <2>2, <2>3 DEF CountInv
  <2> QED BY <2>4, <2>5
<1>4. ASSUME EmitCheck PROVE RingTypeOK' /\ CountInv'
  <2>1. epc = "check" /\ UNCHANGED <<prod, cons, cell, emit, emitted, overrun>>
        /\ ((epc' = "write" /\ drops' = drops) \/ (epc' = "idle" /\ drops' = drops + 1))
    BY <1>4 DEF EmitCheck
  <2>2. drops' \in 0 .. EmitMax /\ drops' <= emit.id /\ (epc' # "idle" => drops' < emit.id)  BY <2>1
  <2>3. RingTypeOK'  BY <1>0, <2>1, <2>2 DEF RingTypeOK, EmitRecord, CellRecord, LandRecord
  <2>4. CountInv'  BY <1>0, <2>1, <2>2 DEF CountInv
  <2> QED BY <2>3, <2>4
<1>5. ASSUME EmitWrite PROVE RingTypeOK' /\ CountInv'
  <2>0. epc # "idle" /\ emit.prod \in Nat  BY <1>5 DEF EmitWrite
  <2>a. Off(emit.prod) \in Offsets  BY <2>0, OffParts
  <2>1. Off(emit.prod) \in Offsets /\ emit.need \in 0 .. Size  BY <2>0, <2>a
  <2> DEFINE h == [busy |-> TRUE, discard |-> FALSE, len |-> emit.need, id |-> emit.id]
  <2>2. h \in CellRecord  BY <2>1 DEF CellRecord
  <2>3. cell' = [cell EXCEPT ![Off(emit.prod)] = h]  BY <1>5 DEF EmitWrite
  <2> HIDE DEF h
  <2>4. cell' \in [Offsets -> CellRecord]  BY <2>1, <2>2, <2>3
  <2>5. epc = "write" /\ epc' = "commit" /\ UNCHANGED <<prod, cons, drops, emit, emitted, overrun>>
    BY <1>5 DEF EmitWrite
  <2>6. RingTypeOK'  BY <1>0, <2>4, <2>5 DEF RingTypeOK, EmitRecord, CellRecord, LandRecord
  <2>7. CountInv'  BY <1>0, <2>5 DEF CountInv
  <2> QED BY <2>6, <2>7
<1>6. ASSUME EmitCommit PROVE RingTypeOK' /\ CountInv'
  <2>1. Off(emit.prod) \in Offsets  BY OffParts
  <2> DEFINE h == [cell[Off(emit.prod)] EXCEPT !.busy = FALSE]
  <2>2. h \in CellRecord  BY <2>1 DEF CellRecord
  <2>3. cell' = [cell EXCEPT ![Off(emit.prod)] = h]  BY <1>6, <2>1 DEF EmitCommit
  <2> HIDE DEF h
  <2>4. cell' \in [Offsets -> CellRecord]  BY <2>1, <2>2, <2>3
  <2>5. epc = "commit" /\ epc' = "advance" /\ UNCHANGED <<prod, cons, drops, emit, emitted, overrun>>
    BY <1>6 DEF EmitCommit
  <2>6. RingTypeOK'  BY <1>0, <2>4, <2>5 DEF RingTypeOK, EmitRecord, CellRecord, LandRecord
  <2>7. CountInv'  BY <1>0, <2>5 DEF CountInv
  <2> QED BY <2>6, <2>7
<1>7. ASSUME EmitAdvance PROVE RingTypeOK' /\ CountInv'
  <2> DEFINE r == [id |-> emit.id, begin |-> emit.prod, end |-> emit.prod + emit.need]
  <2>1. epc = "advance" /\ epc' = "idle" /\ prod' = emit.prod + emit.need /\ emitted' = Append(emitted, r)
        /\ UNCHANGED <<cons, drops, cell, emit, overrun>>
    BY <1>7 DEF EmitAdvance
  <2>2. r \in LandRecord
    <3>1. emit.id \in 1 .. EmitMax  BY <2>1
    <3> QED BY <3>1 DEF LandRecord
  <2> HIDE DEF r
  <2>3. emitted' \in Seq(LandRecord)  BY <2>1, <2>2
  <2>4. prod' \in Nat  BY <2>1
  <2>5. RingTypeOK'  BY <1>0, <2>1, <2>3, <2>4 DEF RingTypeOK, EmitRecord, CellRecord, LandRecord
  <2>6. CountInv'  BY <1>0, <2>1 DEF CountInv
  <2> QED BY <2>5, <2>6
<1> QED BY <1>1, <1>2, <1>3, <1>4, <1>5, <1>6, <1>7 DEF Emit

\* A frame is known by its kind.
LEMMA FrameKinds ==
  ASSUME NEW f \in Frames \union {None}
  PROVE  /\ f.kind \in {"record", "discard"} => f \in RingFrames /\ f.begin \in Nat /\ f.end \in Nat
         /\ f.kind = "ring_health" => f \in HealthFrames /\ f.drops \in Nat
         /\ f.kind = "source" => f \in [kind : {"source"}, src : Nat] /\ f.src \in Nat
         /\ f = None <=> f.kind = "none"
         /\ f.kind \in {"none", "source", "ring_health", "record", "discard"}
         /\ f # None => f \in Frames
<1>1. CASE f = None  BY <1>1 DEF None
<1>2. CASE f \in [kind : {"source"}, src : Nat]  BY <1>2 DEF None, Frames
<1>3. CASE f \in HealthFrames  BY <1>3 DEF None, HealthFrames, Frames
<1>4. CASE f \in RingFrames  BY <1>4 DEF None, RingFrames, Frames
<1> QED BY <1>1, <1>2, <1>3, <1>4 DEF Frames

JournalRecord == [id : Nat \ {0}, source : Nat, epoch : Nat, ring : Checks, drops : Checks, oldest : Nat]

\* Journal.insert keeps the retained rows a final part of the log.
LEMMA InsertTypes ==
  ASSUME JournalTypes, NEW j \in JournalRecord, j.oldest = journal.oldest, NEW e \in Events, Insert(j, e)
  PROVE  /\ JournalTypes' /\ log' = Append(log, e) /\ Len(log') = Len(log) + 1 /\ Len(log) \in Nat
         /\ log'[Len(log) + 1] = e /\ \A i \in 1 .. Len(log) : log'[i] = log[i]
         /\ journal'.id = j.id /\ journal'.source = j.source /\ journal'.ring = j.ring
         /\ journal'.drops = j.drops
<1>0. Retain \in Nat /\ Retain >= 2  BY CollectorAssumption DEF CollectorAssumption
<1>1. log \in Seq(Events) /\ Len(log) \in Nat /\ Newest = Len(log)  BY DEF JournalTypes, Newest
<1>2. log' = Append(log, e)  BY DEF Insert
<1>3. log' \in Seq(Events) /\ Len(log') = Len(log) + 1 /\ log'[Len(log) + 1] = e
      /\ \A i \in 1 .. Len(log) : log'[i] = log[i]
  BY <1>1, <1>2
<1> DEFINE o == IF Newest - j.oldest + 1 > Retain - 1 THEN Newest - Retain + 2 ELSE j.oldest
<1>4. journal.oldest \in 1 .. Len(log) + 1  BY <1>1 DEF JournalTypes
<1>5. o \in Nat /\ o \in 1 .. Len(log) + 2  BY <1>0, <1>1, <1>4
<1>6. journal' = [j EXCEPT !.oldest = o]  BY DEF Insert
<1> HIDE DEF o
<1>7. /\ journal' \in JournalRecord /\ journal'.oldest = o
      /\ journal'.id = j.id /\ journal'.source = j.source /\ journal'.ring = j.ring
      /\ journal'.drops = j.drops
  BY <1>5, <1>6 DEF JournalRecord
<1>8. Newest' = Len(log) + 1  BY <1>3 DEF Newest
<1>9. journal'.oldest \in 1 .. Newest' + 1  BY <1>1, <1>5, <1>7, <1>8
<1>10. JournalTypes'  BY <1>3, <1>7, <1>9 DEF JournalTypes, JournalRecord
<1> QED BY <1>1, <1>2, <1>3, <1>7, <1>10

\* The parts of the journal.
LEMMA JournalParts ==
  ASSUME JournalTypes
  PROVE  /\ journal \in JournalRecord /\ journal.id \in Nat /\ journal.source \in Nat /\ journal.epoch \in Nat
         /\ journal.ring \in Checks /\ journal.drops \in Checks
         /\ journal.ring.pos \in Int /\ journal.drops.pos \in Int
         /\ log \in Seq(Events) /\ Len(log) \in Nat
         /\ journal.oldest \in Nat /\ journal.oldest >= 1 /\ journal.oldest <= Len(log) + 1
<1>1. journal \in JournalRecord  BY DEF JournalTypes, JournalRecord
<1>2. /\ journal.id \in Nat /\ journal.source \in Nat /\ journal.epoch \in Nat
      /\ journal.ring \in Checks /\ journal.drops \in Checks /\ journal.oldest \in Nat
  BY <1>1 DEF JournalRecord
<1>3. journal.ring.pos \in Int /\ journal.drops.pos \in Int  BY <1>2 DEF Checks, Unset
<1>4. log \in Seq(Events) /\ Len(log) \in Nat /\ journal.oldest \in 1 .. Len(log) + 1
  BY DEF JournalTypes, Newest
<1> QED BY <1>1, <1>2, <1>3, <1>4

\* The frames that are offered to the journal.
RecordEvent == [frame |-> frame, kind |-> frame.kind, epoch |-> journal.epoch, src |-> journal.source]

\* What accept does with a source frame.
LEMMA SourceAccepted ==
  ASSUME JournalTypes, ProcTypes, AcceptSource
  PROVE  /\ frame.kind = "source" /\ frame.src \in Nat
         /\ \/ journal.source = frame.src /\ UNCHANGED <<journal, log>>
            \/ /\ journal.source # frame.src /\ JournalTypes'
               /\ Len(log') = Len(log) + 1 /\ Len(log) \in Nat
               /\ \A i \in 1 .. Len(log) : log'[i] = log[i]
               /\ log'[Len(log) + 1].kind = "source_boundary" /\ log'[Len(log) + 1].src = frame.src
               /\ journal'.id = journal.id /\ journal'.source = frame.src /\ journal'.ring = NoCheck
<1>1. frame.kind = "source" /\ frame.src \in Nat
  <2>1. frame \in Frames \union {None} /\ frame.kind = "source"  BY DEF ProcTypes, AcceptSource
  <2> QED BY <2>1, FrameKinds
<1>2. CASE journal.source = frame.src  BY <1>1, <1>2 DEF AcceptSource
<1>3. CASE journal.source # frame.src
  <2> DEFINE n == Len(log) + 1
             j == [journal EXCEPT !.source = frame.src, !.epoch = n, !.ring = NoCheck, !.drops = NoCheck]
             e == [kind |-> "source_boundary", epoch |-> n, src |-> frame.src]
  <2>1. Insert(j, e)  BY <1>3 DEF AcceptSource
  <2>2. n \in Nat /\ journal \in JournalRecord  BY JournalParts
  <2>3. e \in Events /\ e.kind = "source_boundary" /\ e.src = frame.src  BY <1>1, <2>2 DEF Events
  <2>4. /\ j \in JournalRecord /\ j.oldest = journal.oldest /\ j.id = journal.id
        /\ j.source = frame.src /\ j.ring = NoCheck
    BY <1>1, <2>2, ReaderConstants DEF JournalRecord
  <2> HIDE DEF j, e
  <2> QED BY <1>1, <1>3, <2>1, <2>3, <2>4, InsertTypes
<1> QED BY <1>2, <1>3

\* What accept does with a frame of the ring.
LEMMA FrameAccepted ==
  ASSUME JournalTypes, ProcTypes, AcceptFrame
  PROVE  /\ frame.kind \in {"record", "discard", "ring_health"} /\ ~Refused
         /\ \/ Repeated /\ UNCHANGED <<journal, log>>
            \/ /\ ~Repeated /\ JournalTypes'
               /\ Len(log') = Len(log) + 1 /\ Len(log) \in Nat
               /\ \A i \in 1 .. Len(log) : log'[i] = log[i]
               /\ log'[Len(log) + 1] = RecordEvent
               /\ journal'.id = journal.id /\ journal'.source = journal.source
               /\ IF frame.kind = "ring_health" THEN journal'.ring = journal.ring
                  ELSE journal'.ring = [pos |-> frame.end, print |-> frame]
<1>1. frame.kind \in {"record", "discard", "ring_health"} /\ ~Refused /\ frame \in Frames \union {None}
  BY DEF ProcTypes, AcceptFrame
<1>2. CASE Repeated  BY <1>1, <1>2 DEF AcceptFrame
<1>3. CASE ~Repeated
  <2>1. Insert(Checkpointed, RecordEvent)  BY <1>3 DEF AcceptFrame, RecordEvent
  <2>2. journal \in JournalRecord /\ journal.epoch \in Nat /\ journal.source \in Nat  BY JournalParts
  <2>3. frame \in Frames /\ Position \in Nat
    BY <1>1, FrameKinds DEF Position, None
  <2>4. RecordEvent \in Events
    <3>1. CASE frame.kind = "ring_health"
      <4>1. frame \in HealthFrames  BY <1>1, <3>1, FrameKinds
      <4> QED BY <2>2, <3>1, <4>1 DEF RecordEvent, Events
    <3>2. CASE frame.kind \in {"record", "discard"}
      <4>1. frame \in RingFrames  BY <1>1, <3>2, FrameKinds
      <4> QED BY <2>2, <3>2, <4>1 DEF RecordEvent, Events
    <3> QED BY <1>1, <3>1, <3>2
  <2> DEFINE c == [pos |-> Position, print |-> frame]
  <2>5. c \in Checks  BY <2>3 DEF Checks
  <2>6. /\ Checkpointed \in JournalRecord /\ Checkpointed.oldest = journal.oldest
        /\ Checkpointed.id = journal.id /\ Checkpointed.source = journal.source
        /\ IF frame.kind = "ring_health" THEN Checkpointed.ring = journal.ring ELSE Checkpointed.ring = c
    <3>1. Checkpointed = IF frame.kind = "ring_health" THEN [journal EXCEPT !.drops = c]
                                                       ELSE [journal EXCEPT !.ring = c]
      BY DEF Checkpointed
    <3> HIDE DEF c
    <3> QED BY <2>2, <2>5, <3>1 DEF JournalRecord
  <2>7. frame.kind # "ring_health" => c = [pos |-> frame.end, print |-> frame]  BY DEF Position
  <2> HIDE DEF c
  <2> QED BY <1>1, <1>3, <2>1, <2>4, <2>6, <2>7, InsertTypes
<1> QED BY <1>2, <1>3

\* The reader's and collector's types in their parts.
LEMMA ProcParts ==
  ASSUME ProcTypes
  PROVE  /\ rd \in ReaderRecord /\ rd.src \in Nat /\ rd.cons \in Nat /\ rd.prod \in Nat /\ rd.step \in Nat
         /\ rd.drops \in Nat /\ frame \in Frames \union {None} /\ bound \in Nat
BY DEF ProcTypes, ReaderRecord

\* A frame of the ring.
LEMMA RingFrameType ==
  ASSUME NEW k \in {"record", "discard"}, NEW b \in Nat, NEW e \in Nat, NEW i \in Nat
  PROVE  /\ [kind |-> k, begin |-> b, end |-> e, id |-> i] \in Frames
         /\ [kind |-> k, begin |-> b, end |-> e, id |-> i].kind = k
BY DEF Frames, RingFrames

\* The supervisor's and the reader's steps keep the types.
LEMMA StartTypes ==
  ASSUME ProcTypes, inc \in Nat, Start \/ Spawn \/ Down \/ SendAck,
         UNCHANGED <<inc, journal, log>>
  PROVE  ProcTypes'
<1>1. CASE Start  BY <1>1 DEF Start, ProcTypes
<1>2. CASE Spawn
  <2>1. bound \in Nat /\ rd' \in ReaderRecord  BY <1>2, ProcParts, ReaderConstants DEF Spawn
  <2>2. frame' \in Frames \union {None}  BY <1>2, <2>1 DEF Spawn, Frames
  <2> QED BY <1>2, <2>1, <2>2 DEF Spawn, ProcTypes, ReaderRecord
<1>3. CASE Down  BY <1>3, ReaderConstants DEF Down, ProcTypes, ReaderRecord
<1>4. CASE SendAck  BY <1>4 DEF SendAck, ProcTypes
<1> QED BY <1>1, <1>2, <1>3, <1>4

LEMMA ReaderTypes ==
  ASSUME TInv, Reader
  PROVE  ProcTypes' /\ cons' \in Nat
<1> USE RingTypes
<1>0. ProcTypes  BY DEF TInv, TypeOK
<1>a. rd \in ReaderRecord /\ rd.cons \in Nat /\ rd.step \in Nat  BY <1>0, ProcParts
<1>b. ASSUME Fails, UNCHANGED <<cpc, bound>> PROVE ProcTypes'  BY <1>0, <1>b DEF Fails, ProcTypes
<1>1. CASE Acknowledged
  <2>1. CASE ~SameSource  BY <1>1, <1>b, <2>1 DEF Acknowledged, ringVars
  <2>2. CASE SameSource
    <3>1. /\ ack' = None /\ frame' = frame /\ cpc' = cpc /\ bound' = bound /\ cons' = cons
          /\ rd' = IF rpc = "health" THEN [rd EXCEPT !.last = rd.drops] ELSE rd
          /\ rpc' = CASE rpc = "hello" -> "poll" [] rpc = "health" -> "pos" [] rpc = "wait" -> "store"
          /\ rpc \in {"hello", "health", "wait"}
      BY <1>1, <2>2 DEF Acknowledged, ringVars
    <3>2. rd' \in ReaderRecord  BY <1>a, <3>1 DEF ReaderRecord
    <3>3. rpc' \in {"poll", "pos", "store"}  BY <3>1
    <3> QED BY <1>0, <3>1, <3>2, <3>3 DEF ProcTypes, ReaderRecord
  <2> QED BY <2>1, <2>2
<1>2. CASE Poll
  <2>1. CASE ~SameSource  BY <1>2, <1>b, <2>1 DEF Poll, ringVars
  <2>2. CASE SameSource  BY <1>0, <1>2, <2>2 DEF Poll, ProcTypes, ringVars
  <2> QED BY <2>1, <2>2
<1>3. CASE LoadDrops
  <2>1. rd' = [rd EXCEPT !.drops = drops] /\ ack' = ack /\ cpc' = cpc /\ bound' = bound /\ cons' = cons
        /\ rpc' \in {"pos", "health"} /\ (frame' = frame \/ frame' = [kind |-> "ring_health", drops |-> drops])
    BY <1>3 DEF LoadDrops, ringVars
  <2>2. rd' \in ReaderRecord  BY <1>a, <2>1 DEF ReaderRecord
  <2>3. frame' \in Frames \union {None}  BY <1>0, <2>1 DEF Frames, HealthFrames, ProcTypes
  <2> QED BY <1>0, <2>1, <2>2, <2>3 DEF ProcTypes, ReaderRecord
<1>4. CASE LoadPositions
  <2>1. CASE Fails  BY <1>4, <1>b, <2>1 DEF LoadPositions, ringVars
  <2>2. CASE ~Fails
    <3>1. rd' = [rd EXCEPT !.cons = cons, !.prod = prod] /\ UNCHANGED <<frame, ack, cpc, bound, cons>>
          /\ rpc' \in {"poll", "header"}
      BY <1>4, <2>2 DEF LoadPositions, ringVars
    <3>2. rd' \in ReaderRecord  BY <1>a, <3>1 DEF ReaderRecord
    <3> QED BY <1>0, <3>1, <3>2 DEF ProcTypes, ReaderRecord
  <2> QED BY <2>1, <2>2
<1>5. CASE LoadHeader
  <2> DEFINE h == cell[Off(rd.cons)]
  <2>0. cons' = cons /\ UNCHANGED <<cpc, bound>>  BY <1>5 DEF LoadHeader, ringVars
  <2>1. h \in CellRecord
    <3>1. Off(rd.cons) \in Offsets  BY <1>0, ProcParts, OffParts
    <3> QED BY <3>1
  <2>2. h.len \in Nat /\ h.id \in Nat  BY <2>1 DEF CellRecord
  <2>3. CASE Fails  BY <1>b, <2>0, <2>3
  <2>4. CASE rpc' = "poll" /\ UNCHANGED <<rd, frame, ack>>  BY <1>0, <2>0, <2>4 DEF ProcTypes
  <2>5. CASE /\ rpc' = "wait" /\ UNCHANGED ack
             /\ rd' = [rd EXCEPT !.step = h.len]
             /\ frame' = [kind |-> IF h.discard THEN "discard" ELSE "record",
                          begin |-> rd.cons, end |-> rd.cons + h.len, id |-> h.id]
    <3>1. rd' \in ReaderRecord  BY <1>a, <2>2, <2>5 DEF ReaderRecord
    <3>2. rd.cons \in Nat /\ rd.cons + h.len \in Nat
      <4> HIDE DEF h
      <4>1. \A x, y \in Nat : x + y \in Nat  OBVIOUS
      <4> QED BY <1>a, <2>2, <4>1
    <3> DEFINE k == IF h.discard THEN "discard" ELSE "record"
    <3>3. k \in {"record", "discard"}  OBVIOUS
    <3>4. frame' = [kind |-> k, begin |-> rd.cons, end |-> rd.cons + h.len, id |-> h.id]  BY <2>5
    <3> HIDE DEF k, h
    <3>5. frame' \in Frames  BY <2>2, <3>2, <3>3, <3>4, RingFrameType
    <3> QED BY <1>0, <2>0, <2>5, <3>1, <3>5 DEF ProcTypes, ReaderRecord
  <2> QED BY <1>5, <2>3, <2>4, <2>5 DEF LoadHeader
<1>6. CASE StoreCons
  <2>1. CASE Fails /\ cons' = cons  BY <1>6, <1>b, <2>1 DEF StoreCons
  <2>2. CASE cons' = rd.cons + rd.step /\ rpc' = "poll" /\ UNCHANGED <<rd, frame, ack>>
    <3>1. cons' \in Nat  BY <1>a, <2>2
    <3> QED BY <1>0, <1>6, <2>2, <3>1 DEF StoreCons, ProcTypes
  <2> QED BY <1>6, <2>1, <2>2 DEF StoreCons
<1> QED BY <1>1, <1>2, <1>3, <1>4, <1>5, <1>6 DEF Reader

LEMMA IntervalEnds ==
  ASSUME NEW a \in Nat, NEW b \in Nat, a + 1 <= b
  PROVE  a + 1 \in a + 1 .. b /\ b \in a + 1 .. b /\ \A k \in a + 1 .. b : k <= b /\ k \in Nat
OBVIOUS

\* The rows after a cursor that is not behind the retained ones are an interval
\* that begins right after it, and so is the page.
LEMMA PageFacts ==
  ASSUME JournalTypes, client.after \in Nat, ~Gap(client.after),
         NEW rows, rows = {i \in Retained : i > client.after},
         NEW page, page = {i \in rows : Cardinality({k \in rows : k < i}) < PageMax}, page # {}
  PROVE  /\ client.after + 1 \in page
         /\ (CHOOSE i \in page : \A k \in page : k <= i) \in Nat
<1>0. PageMax \in Nat /\ PageMax > 0  BY CollectorAssumption DEF CollectorAssumption
<1> DEFINE a == client.after
           n == Len(log)
<1>1. n \in Nat /\ journal.oldest \in Nat /\ journal.oldest >= 1  BY JournalParts
<1>2. a + 1 >= journal.oldest  BY <1>1 DEF Gap
<1>3. rows = a + 1 .. n  BY <1>1, <1>2 DEF Retained, Newest
<1>4. a + 1 <= n  BY <1>1, <1>3
<1> HIDE DEF n, a
<1>a. a \in Nat  BY DEF a
<1>5. ASSUME NEW i \in rows PROVE Cardinality({k \in rows : k < i}) = i - 1 - a
  <2>1. {k \in rows : k < i} = a + 1 .. i - 1  BY <1>1, <1>a, <1>3
  <2>2. a + 1 \in Int /\ i - 1 \in Int  BY <1>1, <1>a, <1>3
  <2>3. Cardinality(a + 1 .. i - 1) = IF a + 1 > i - 1 THEN 0 ELSE i - 1 - (a + 1) + 1
    BY <2>2, FS_Interval
  <2>4. i \in Int /\ i >= a + 1  BY <1>1, <1>a, <1>3
  <2>5. (IF a + 1 > i - 1 THEN 0 ELSE i - 1 - (a + 1) + 1) = i - 1 - a  BY <1>a, <2>4
  <2> QED BY <2>1, <2>3, <2>5
<1> DEFINE b == IF a + PageMax < n THEN a + PageMax ELSE n
<1>6. b \in Nat /\ a + 1 <= b  BY <1>0, <1>1, <1>4, <1>a
<1>7. page = a + 1 .. b
  <2>1. page = {i \in rows : i - 1 - a < PageMax}  BY <1>5
  <2> QED BY <1>0, <1>1, <1>3, <1>a, <2>1
<1> HIDE DEF b
<1>8. a + 1 \in page  BY <1>6, <1>7, <1>a, IntervalEnds
<1>9. b \in page /\ \A k \in page : k <= b  BY <1>6, <1>7, <1>a, IntervalEnds
<1>10. (CHOOSE i \in page : \A k \in page : k <= i) \in page  BY <1>9
<1>11. \A i \in page : i \in Nat  BY <1>6, <1>7, <1>a, IntervalEnds
<1> QED BY <1>8, <1>10, <1>11 DEF a

ClientRecord == [journal : Nat, after : Nat, skipped : BOOLEAN]

\* The client's cursor is a row number, and a page never begins behind a hole.
LEMMA ClientTypes ==
  ASSUME TypeOK, Client
  PROVE  client' \in ClientRecord /\ client'.skipped = client.skipped
<1>0. JournalTypes /\ client \in ClientRecord  BY DEF TypeOK, ClientRecord
<1>1. journal.id \in Nat /\ journal.oldest \in Nat /\ journal.oldest >= 1  BY <1>0, JournalParts
<1>2. CASE ClientRefused
  <2>1. journal.oldest - 1 \in Nat  BY <1>1
  <2>2. client' = [client EXCEPT !.journal = journal.id, !.after = journal.oldest - 1]
    BY <1>2 DEF ClientRefused
  <2> QED BY <1>0, <1>1, <2>1, <2>2 DEF ClientRecord
<1>3. CASE ClientPage
  <2> DEFINE rows == {i \in Retained : i > client.after}
             page == {i \in rows : Cardinality({k \in rows : k < i}) < PageMax}
             m    == CHOOSE i \in page : \A k \in page : k <= i
  <2>1. /\ ~Gap(client.after) /\ page # {}
        /\ client' = [client EXCEPT !.after = m,
                                    !.skipped = @ \/ client.after + 1 \notin page]
    BY <1>3 DEF ClientPage
  <2>2. client.after \in Nat  BY <1>0 DEF ClientRecord
  <2>3. client.after + 1 \in page /\ m \in Nat
    <3> HIDE DEF m
    <3>1. PICK r : r = rows  OBVIOUS
    <3>2. PICK p : p = {i \in r : Cardinality({k \in r : k < i}) < PageMax}  OBVIOUS
    <3>3. p = page  BY <3>1, <3>2
    <3>4. client.after + 1 \in p /\ (CHOOSE i \in p : \A k \in p : k <= i) \in Nat
      BY <1>0, <2>1, <2>2, <3>1, <3>2, <3>3, PageFacts
    <3> QED BY <3>3, <3>4 DEF m
  <2> HIDE DEF rows, page, m
  <2>4. client' = [client EXCEPT !.after = m, !.skipped = client.skipped \/ client.after + 1 \notin page]
    BY <1>0, <2>1 DEF ClientRecord
  <2>5. client.skipped \in BOOLEAN  BY <1>0 DEF ClientRecord
  <2>6. (client.skipped \/ client.after + 1 \notin page) = client.skipped  BY <2>3, <2>5
  <2>7. client' = [client EXCEPT !.after = m, !.skipped = client.skipped]  BY <2>4, <2>6
  <2> QED BY <1>0, <2>3, <2>5, <2>7 DEF ClientRecord
<1> QED BY <1>2, <1>3 DEF Client

\* A new TMM finds the ring in its initial state.
LEMMA ResetTypes ==
  ASSUME TInv, TmmRestart
  PROVE  RingTypeOK' /\ CountInv' /\ inc' \in 1 .. FaultMax + 1 /\ faults' \in 0 .. FaultMax
<1> USE RingTypes
<1>0. FaultMax \in Nat /\ inc \in 1 .. FaultMax + 1 /\ inc <= faults + 1
  BY CollectorAssumption DEF CollectorAssumption, TInv, TypeOK, CountInv
<1>1. /\ inc' = inc + 1 /\ faults' = faults + 1 /\ faults < FaultMax
      /\ prod' = 0 /\ cons' = 0 /\ drops' = 0 /\ cell' = [o \in Offsets |-> Blank]
      /\ epc' = "idle" /\ emit' = [NoEmit EXCEPT !.id = emit.id]
      /\ emitted' = << >> /\ overrun' = FALSE
  BY DEF TmmRestart, Fault, RingReset
<1>a. inc \in Nat /\ faults \in Nat  OBVIOUS
<1>b. \A i, f \in Nat : i <= f + 1 /\ f < FaultMax =>
        i + 1 \in 1 .. FaultMax + 1 /\ f + 1 \in 0 .. FaultMax /\ i + 1 <= f + 1 + 1
  BY <1>0
<1>2. inc' \in 1 .. FaultMax + 1 /\ faults' \in 0 .. FaultMax /\ inc' <= faults' + 1
  BY <1>0, <1>1, <1>a, <1>b
<1>3. emit' \in EmitRecord /\ emit'.id = emit.id  BY <1>1 DEF NoEmit, EmitRecord
<1>4. Blank \in CellRecord
  <2>1. 0 \in 0 .. Size /\ 0 \in 0 .. EmitMax  OBVIOUS
  <2> QED BY <2>1 DEF Blank, CellRecord
<1>5. cell' \in [Offsets -> CellRecord]  BY <1>1, <1>4
<1>6. emitted' \in Seq(LandRecord)  BY <1>1
<1>7. 0 \in 0 .. EmitMax /\ 0 <= emit.id  OBVIOUS
<1>8. RingTypeOK'  BY <1>1, <1>3, <1>5, <1>6, <1>7 DEF RingTypeOK, EmitRecord, CellRecord, LandRecord
<1>9. CountInv'  BY <1>1, <1>2, <1>3, <1>7 DEF CountInv
<1> QED BY <1>2, <1>8, <1>9

\* The ring types are kept when only the consumer moves.
LEMMA ConsTypes ==
  ASSUME TInv, cons' \in Nat, UNCHANGED <<prod, drops, cell, epc, emit, emitted, overrun>>
  PROVE  RingTypeOK'
BY DEF TInv, TypeOK, RingTypeOK

\* Every step keeps every variable in its range.
LEMMA NextTypes == TInv /\ [Next]_vars => TInv'
<1> DEFINE Env == /\ inc \in 1 .. FaultMax + 1 /\ faults \in 0 .. FaultMax /\ crossed \in BOOLEAN
                  /\ client \in [journal : Nat, after : Nat, skipped : BOOLEAN]
<1> SUFFICES ASSUME TInv, [Next]_vars PROVE TInv'
  OBVIOUS
<1>a. RingTypeOK /\ ProcTypes /\ JournalTypes /\ Env /\ CountInv /\ inc \in Nat  BY RingTypes DEF TInv, TypeOK
<1>b. RingTypeOK' /\ ProcTypes' /\ JournalTypes' /\ Env' /\ CountInv' => TInv'  BY DEF TInv, TypeOK
<1>c. ASSUME UNCHANGED ringVars PROVE RingTypeOK'  BY <1>a, <1>c DEF ringVars, RingTypeOK
<1>d. ASSUME UNCHANGED procVars PROVE ProcTypes'  BY <1>a, <1>d DEF procVars, ProcTypes
<1>e. ASSUME UNCHANGED <<journal, log>> PROVE JournalTypes'  BY <1>a, <1>e DEF JournalTypes, Newest
<1>f. ASSUME UNCHANGED <<inc, client, faults, crossed>> PROVE Env'  BY <1>a, <1>f
<1>g. ASSUME UNCHANGED <<drops, epc, emit, inc, faults>> PROVE CountInv'  BY <1>a, <1>g DEF CountInv
<1>h. ASSUME Fault PROVE faults' \in 0 .. FaultMax /\ (inc' = inc => inc' <= faults' + 1)
  <2>1. FaultMax \in Nat /\ faults \in 0 .. FaultMax /\ faults < FaultMax /\ faults' = faults + 1
    BY <1>a, <1>h, CollectorAssumption DEF Fault, CollectorAssumption
  <2>2. faults' \in 0 .. FaultMax  BY <2>1
  <2>3. inc <= faults + 1  BY <1>a DEF CountInv
  <2>4. inc <= faults' + 1  BY <1>a, <2>1, <2>3
  <2> QED BY <2>2, <2>4
<1>1. CASE Producer
  <2>1. Emit /\ UNCHANGED <<inc, procVars, journal, log, client, faults, crossed>>  BY <1>1 DEF Producer
  <2>2. RingTypeOK' /\ CountInv'  BY <2>1, EmitTypes
  <2> QED BY <1>b, <1>d, <1>e, <1>f, <2>1, <2>2
<1>2. CASE Start \/ Spawn \/ ReaderGone \/ Refuse \/ SendAck
  <2>1. UNCHANGED <<ringVars, inc, journal, log, client, faults, crossed>>
    BY <1>2 DEF Start, Spawn, ReaderGone, Refuse, SendAck
  <2>2. Start \/ Spawn \/ Down \/ SendAck  BY <1>2 DEF ReaderGone, Refuse
  <2>3. ProcTypes'  BY <1>a, <2>1, <2>2, StartTypes
  <2>4. UNCHANGED <<drops, epc, emit>>  BY <2>1 DEF ringVars
  <2> QED BY <1>b, <1>c, <1>e, <1>f, <1>g, <2>1, <2>3, <2>4
<1>3. CASE Reader
  <2>1. ProcTypes' /\ cons' \in Nat  BY <1>3, ReaderTypes
  <2>2. UNCHANGED <<prod, drops, cell, epc, emit, emitted, overrun, inc, journal, log, client, faults, crossed>>
    BY <1>3 DEF Reader, Acknowledged, Poll, LoadDrops, LoadPositions, LoadHeader, StoreCons, ringVars
  <2>3. RingTypeOK'  BY <2>1, <2>2, ConsTypes
  <2> QED BY <1>b, <1>e, <1>f, <1>g, <2>1, <2>2, <2>3
<1>4. CASE Commit
  <2>1. /\ cpc' = "ack" /\ frame' = None /\ UNCHANGED <<ringVars, inc, rpc, rd, ack, bound, client, faults, crossed>>
        /\ AcceptSource \/ AcceptFrame
    BY <1>4 DEF Commit
  <2>2. ProcTypes'  BY <1>a, <2>1 DEF ProcTypes
  <2>3. JournalTypes'  BY <1>a, <1>e, <2>1, SourceAccepted, FrameAccepted
  <2>4. UNCHANGED <<drops, epc, emit>>  BY <2>1 DEF ringVars
  <2> QED BY <1>b, <1>c, <1>f, <1>g, <2>1, <2>2, <2>3, <2>4
<1>5. CASE Client
  <2>1. UNCHANGED <<ringVars, inc, procVars, journal, log, faults, crossed>>
    BY <1>5 DEF Client, ClientRefused, ClientPage
  <2>2. client' \in [journal : Nat, after : Nat, skipped : BOOLEAN]
    BY <1>5, ClientTypes DEF TInv, ClientRecord
  <2>3. UNCHANGED <<drops, epc, emit>>  BY <2>1 DEF ringVars
  <2> QED BY <1>a, <1>b, <1>c, <1>d, <1>e, <1>g, <2>1, <2>2, <2>3
<1>6. CASE Crash
  <2>1. Fault /\ Down /\ UNCHANGED <<ringVars, inc, journal, log, client, crossed>>  BY <1>6 DEF Crash
  <2>2. ProcTypes'  BY <1>a, <2>1, StartTypes
  <2>3. CountInv'  BY <1>a, <1>h, <2>1 DEF CountInv, ringVars
  <2> QED BY <1>a, <1>b, <1>c, <1>e, <1>h, <2>1, <2>2, <2>3
<1>7. CASE ReplaceJournal
  <2>1. Fault /\ journal' = NewJournalState(journal.id + 1) /\ UNCHANGED <<ringVars, inc, procVars, log, client, crossed>>
    BY <1>7 DEF ReplaceJournal
  <2>2. journal.id \in Nat /\ Len(log) \in Nat /\ log \in Seq(Events)  BY <1>a, JournalParts
  <2>3. journal' = [id |-> journal.id + 1, source |-> 0, epoch |-> 0, ring |-> NoCheck, drops |-> NoCheck,
                    oldest |-> Len(log) + 1]
    BY <2>1 DEF NewJournalState
  <2>4. journal' \in JournalRecord /\ journal'.oldest = Len(log) + 1
    <3>1. journal.id + 1 \in Nat \ {0} /\ Len(log) + 1 \in Nat  BY <2>2
    <3> QED BY <2>3, <3>1, ReaderConstants DEF JournalRecord
  <2>5. Len(log) + 1 \in 1 .. Len(log) + 1  BY <2>2
  <2>6. JournalTypes'  BY <2>1, <2>2, <2>4, <2>5 DEF JournalTypes, JournalRecord, Newest
  <2>7. CountInv'  BY <1>a, <1>h, <2>1 DEF CountInv, ringVars
  <2> QED BY <1>a, <1>b, <1>c, <1>d, <1>h, <2>1, <2>6, <2>7
<1>8. CASE TmmRestart
  <2>1. RingTypeOK' /\ CountInv' /\ inc' \in 1 .. FaultMax + 1 /\ faults' \in 0 .. FaultMax
    BY <1>8, ResetTypes
  <2>2. crossed' \in BOOLEAN /\ UNCHANGED <<procVars, journal, log, client>>
    BY <1>a, <1>8 DEF TmmRestart
  <2> QED BY <1>a, <1>b, <1>d, <1>e, <2>1, <2>2
<1>9. CASE UNCHANGED vars
  <2>1. UNCHANGED <<ringVars, inc, procVars, journal, log, client, faults, crossed>>  BY <1>9 DEF vars
  <2>2. UNCHANGED <<drops, epc, emit>>  BY <2>1 DEF ringVars
  <2> QED BY <1>b, <1>c, <1>d, <1>e, <1>f, <1>g, <2>1, <2>2
<1> QED BY <1>1, <1>2, <1>3, <1>4, <1>5, <1>6, <1>7, <1>8, <1>9 DEF Next

\* The initial state.
LEMMA InitTypes == Init => TInv
<1> SUFFICES ASSUME Init PROVE TInv
  OBVIOUS
<1>0. Size \in Nat /\ EmitMax \in Nat /\ FaultMax \in Nat
  BY RingAssumption, CollectorAssumption DEF RingAssumption, CollectorAssumption
<1>1. 0 \in 0 .. Size /\ 0 \in 0 .. EmitMax /\ 0 \in 0 .. FaultMax /\ 1 \in 1 .. FaultMax + 1  BY <1>0
<1>2. Blank \in CellRecord /\ NoEmit \in EmitRecord /\ NoEmit.id = 0  BY <1>1 DEF Blank, CellRecord, NoEmit, EmitRecord
<1>3. RingTypeOK
  <2>1. /\ prod = 0 /\ cons = 0 /\ drops = 0 /\ cell = [o \in Offsets |-> Blank]
        /\ epc = "idle" /\ emit = NoEmit /\ emitted = << >> /\ overrun = FALSE
    BY DEF Init, RingInit
  <2>2. cell \in [Offsets -> CellRecord]  BY <1>2, <2>1
  <2>3. emitted \in Seq(LandRecord)  BY <2>1
  <2> QED BY <1>1, <1>2, <2>1, <2>2, <2>3 DEF RingTypeOK, CellRecord, EmitRecord, LandRecord
<1>4. ProcTypes  BY ReaderConstants DEF Init, ProcTypes, ReaderRecord
<1>5. JournalTypes
  <2>1. journal \in JournalRecord /\ journal.oldest = 1  BY ReaderConstants DEF Init, JournalRecord
  <2>2. log = << >> /\ Len(log) = 0  BY DEF Init
  <2> QED BY <2>1, <2>2 DEF JournalTypes, JournalRecord, Newest
<1>6. CountInv  BY <1>2 DEF Init, RingInit, CountInv
<1>7. client \in [journal : Nat, after : Nat, skipped : BOOLEAN]  BY DEF Init
<1> QED BY <1>1, <1>3, <1>4, <1>5, <1>6, <1>7 DEF Init, TInv, TypeOK

\* Every variable of ring, reader, journal and client stays in its range, so
\* that in particular a record dropped by a full ring is counted once and the
\* retained rows are a final part of what was journalled.
THEOREM TypeCorrect == Spec => []TypeOK
<1>1. TInv => TypeOK  BY DEF TInv
<1> QED BY <1>1, InitTypes, NextTypes, PTL DEF Spec

\* Replay: whatever expires or is replaced while a client pages through the
\* journal, it never gets rows behind ones it has not seen without being told.
THEOREM HonestReplay == Spec => []ReplayHonest
<1> DEFINE H == TInv /\ ReplayHonest
<1>1. Init => H  BY InitTypes DEF Init, ReplayHonest
<1>2. H /\ [Next]_vars => H'
  <2> SUFFICES ASSUME TInv, ReplayHonest, [Next]_vars PROVE ReplayHonest'
    BY NextTypes
  <2>1. CASE Client  BY <2>1, ClientTypes DEF TInv, ReplayHonest
  <2>2. CASE ~Client
    <3>1. UNCHANGED client
      BY <2>2 DEF Next, vars, Producer, Start, Spawn, ReaderGone, Reader, Acknowledged, Poll, LoadDrops,
        LoadPositions, LoadHeader, StoreCons, Commit, Refuse, SendAck, Crash, ReplaceJournal, TmmRestart
    <3> QED BY <3>1 DEF ReplayHonest
  <2> QED BY <2>1, <2>2
<1>3. H => ReplayHonest  OBVIOUS
<1> QED BY <1>1, <1>2, <1>3, PTL DEF Spec

-----------------------------------------------------------------------------
(* The layout of the ring.                                                 *)

\* The records that landed.
LEMMA Landed ==
  ASSUME TInv, NEW k \in 1 .. Len(emitted)
  PROVE  /\ emitted[k] \in LandRecord /\ emitted[k].begin \in Nat /\ emitted[k].end \in Nat
         /\ emitted[k].id \in Nat /\ Len(emitted) \in Nat /\ k \in Nat /\ k >= 1 /\ k <= Len(emitted)
         /\ Off(emitted[k].begin) \in Nat /\ Off(emitted[k].end) \in Nat
<1>1. emitted \in Seq(LandRecord) /\ EmitMax \in Nat  BY RingTypes
<1>2. emitted[k] \in LandRecord /\ Len(emitted) \in Nat  BY <1>1
<1>3. emitted[k].begin \in Nat /\ emitted[k].end \in Nat /\ emitted[k].id \in 1 .. EmitMax  BY <1>2 DEF LandRecord
<1>4. emitted[k].id \in Nat  BY <1>1, <1>3
<1>5. Off(emitted[k].begin) \in Nat /\ Off(emitted[k].end) \in Nat  BY <1>3, OffParts
<1>6. k \in Nat /\ k >= 1 /\ k <= Len(emitted)  BY <1>2
<1> QED BY <1>2, <1>3, <1>4, <1>5, <1>6

\* What follows a record: it lies between the record's end and prod.
LEMMA AfterFacts ==
  ASSUME TInv, Layout, NEW k \in 1 .. Len(emitted)
  PROVE  /\ After(k) \in Nat /\ emitted[k].end <= After(k) /\ After(k) <= prod
         /\ emitted[k].begin < emitted[k].end /\ emitted[k].end <= prod
         /\ emitted[k].begin < prod
         /\ k < Len(emitted) => k + 1 \in 1 .. Len(emitted) /\ After(k) = emitted[k + 1].begin /\ After(k) < prod
         /\ k = Len(emitted) => After(k) = prod
<1>1. emitted[k].begin < emitted[k].end /\ emitted[k].end <= prod /\ prod \in Nat  BY RingTypes DEF Layout
<1>2. emitted[k].begin \in Nat /\ emitted[k].end \in Nat /\ Len(emitted) \in Nat /\ k \in Nat /\ k >= 1
      /\ k <= Len(emitted)
  BY Landed
<1>3. CASE k < Len(emitted)
  <2>1. k + 1 \in 1 .. Len(emitted) /\ k < k + 1  BY <1>2, <1>3
  <2>2. emitted[k + 1].begin \in Nat /\ emitted[k + 1].end \in Nat  BY <2>1, Landed
  <2>3. emitted[k].end <= emitted[k + 1].begin  BY <2>1 DEF Layout
  <2>4. emitted[k + 1].begin < emitted[k + 1].end /\ emitted[k + 1].end <= prod  BY <2>1 DEF Layout
  <2>5. After(k) = emitted[k + 1].begin  BY <1>3 DEF After
  <2> QED BY <1>1, <1>2, <1>3, <2>1, <2>2, <2>3, <2>4, <2>5
<1>4. CASE ~(k < Len(emitted))  BY <1>1, <1>2, <1>4 DEF After
<1> QED BY <1>3, <1>4

\* A header between the cursors is not where the producer writes next.
LEMMA OtherCell ==
  ASSUME TInv, NEW p \in Nat, cons <= p, p < prod, prod - cons < Size
  PROVE  Off(p) # Off(prod) /\ Off(p) \in Offsets /\ Off(prod) \in Offsets
<1>1. prod \in Nat /\ cons \in Nat /\ Size \in Nat  BY RingTypes
<1>2. prod - p < Size  BY <1>1
<1> QED BY <1>1, <1>2, OffDistinct, OffParts

\* So a header written there leaves the others intact.
LEMMA IntactKept ==
  ASSUME TInv, Layout, Cursor, Intact, prod - cons < Size, NEW h,
         cell' = [cell EXCEPT ![Off(prod)] = h], UNCHANGED <<prod, cons, emitted>>
  PROVE  Intact' /\ Layout' /\ Cursor' /\ cell'[Off(prod)] = h
<1>0. cell \in [Offsets -> CellRecord] /\ prod \in Nat /\ cons \in Nat /\ Off(prod) \in Offsets
  BY RingTypes, OffParts
<1>1. \A k : After(k)' = After(k)  BY DEF After
<1>2. Layout' /\ Cursor'  BY <1>1 DEF Layout, Cursor
<1>3. \A k : Header(k)' = Header(k)  BY DEF Header
<1>4. ASSUME NEW k \in 1 .. Len(emitted), cons <= emitted[k].begin
      PROVE  cell'[Off(emitted[k].begin)] = Header(k)
  <2>1. emitted[k].begin \in Nat /\ emitted[k].begin < prod  BY Landed, AfterFacts
  <2>2. Off(emitted[k].begin) # Off(prod) /\ Off(emitted[k].begin) \in Offsets  BY <1>4, <2>1, OtherCell
  <2>3. cell[Off(emitted[k].begin)] = Header(k)  BY <1>4 DEF Intact
  <2> QED BY <1>0, <2>2, <2>3
<1>5. ASSUME NEW k \in 1 .. Len(emitted), cons <= emitted[k].end, After(k) # emitted[k].end
      PROVE  cell'[Off(emitted[k].end)] = PadHeader(emitted[k].end)
  <2>0. emitted[k].end \in Nat /\ emitted[k].end <= After(k) /\ After(k) <= prod /\ After(k) \in Nat
    BY Landed, AfterFacts
  <2>1. emitted[k].end < prod  BY <1>0, <1>5, <2>0
  <2>2. Off(emitted[k].end) # Off(prod) /\ Off(emitted[k].end) \in Offsets  BY <1>5, <2>0, <2>1, OtherCell
  <2>3. cell[Off(emitted[k].end)] = PadHeader(emitted[k].end)  BY <1>5 DEF Intact
  <2> QED BY <1>0, <2>2, <2>3
<1>6. Intact'  BY <1>1, <1>3, <1>4, <1>5 DEF Intact, PadHeader
<1> QED BY <1>0, <1>2, <1>6

Sound == Layout /\ Cursor /\ Intact /\ Emitting

\* The emit keeps the ring sound while its padding does not pass the consumer.
LEMMA EmitStartRing ==
  ASSUME TInv, Sound, NEW n \in Needs, EmitStart(n)
  PROVE  Sound'
<1> USE RingTypes
<1>1. UNCHANGED <<prod, cons, cell, emitted>> /\ epc' = (IF Off(prod) + n > Size THEN "pad" ELSE "check")
      /\ emit'.prod = prod /\ emit'.need = n /\ n <= Size
  BY DEF EmitStart
<1>2. \A k : After(k)' = After(k) /\ Header(k)' = Header(k)  BY <1>1 DEF After, Header
<1>3. Layout' /\ Cursor'  BY <1>1, <1>2 DEF Sound, Layout, Cursor
<1>4. Intact'  BY <1>1, <1>2 DEF Sound, Intact, PadHeader
<1>5. Off(prod) \in Nat /\ n \in Nat /\ Size \in Nat  BY OffParts
<1>6. epc' = "pad" => Off(prod) # 0  BY <1>1, <1>5
<1>7. epc' = "check" => Off(prod) + n <= Size  BY <1>1, <1>5
<1>8. Emitting'  BY <1>1, <1>6, <1>7 DEF Emitting
<1> QED BY <1>3, <1>4, <1>8 DEF Sound

LEMMA EmitPadHeaderRing ==
  ASSUME TInv, Sound, EmitPadHeader, ~overrun'
  PROVE  Sound'
<1> USE RingTypes
<1>1. epc = "pad" /\ epc' = "publish pad" /\ UNCHANGED <<prod, cons, drops, emit, emitted>>
      /\ emit.prod - cons # Size
  BY DEF EmitPadHeader
<1>2. emit.prod = prod /\ Off(prod) # 0  BY <1>1 DEF Sound, Emitting
<1>3. cell' = [cell EXCEPT ![Off(prod)] = PadHeader(prod)]  BY <1>2 DEF EmitPadHeader, PadHeader
<1>4. prod - cons < Size
  <2>1. cons <= prod /\ prod - cons <= Size  BY DEF Sound, Cursor
  <2>2. prod - cons # Size  BY <1>1, <1>2
  <2>3. prod \in Nat /\ cons \in Nat /\ Size \in Nat  OBVIOUS
  <2>4. \A x, y, z \in Nat : x - y <= z /\ x - y # z => x - y < z  OBVIOUS
  <2> QED BY <2>1, <2>2, <2>3, <2>4
<1>5. Intact' /\ Layout' /\ Cursor' /\ cell'[Off(prod)] = PadHeader(prod)
  BY <1>1, <1>3, <1>4, IntactKept DEF Sound
<1>6. Emitting'  BY <1>1, <1>2, <1>5 DEF Emitting, PadHeader
<1> QED BY <1>5, <1>6 DEF Sound

\* Publishing the pad behind the last record.
LEMMA EmitPadPublishRing ==
  ASSUME TInv, Sound, EmitPadPublish, ~overrun'
  PROVE  Sound' /\ \A k \in 1 .. Len(emitted) : After(k) # emitted[k].end => After(k)' = After(k)
<1> USE RingTypes
<1> DEFINE p == prod + Size - Off(prod)
           n == Len(emitted)
<1>1. epc = "publish pad" /\ emit.prod = prod /\ Off(prod) # 0 /\ cell[Off(prod)] = PadHeader(prod)
  BY DEF EmitPadPublish, Sound, Emitting
<1>2. /\ prod' = p /\ emit' = [emit EXCEPT !.prod = p] /\ ~(p - cons > Size) /\ epc' = "check"
      /\ UNCHANGED <<cons, drops, cell, emitted>>
  BY <1>1 DEF EmitPadPublish
<1>3. p \in Nat /\ Off(p) = 0 /\ prod < p /\ Off(0) = 0  BY OffRound
<1> HIDE DEF p
<1>4. n \in Nat /\ n # 0
  <2>1. n \in Nat  OBVIOUS
  <2>2. ASSUME n = 0 PROVE FALSE
    <3>1. emitted = << >>  BY <2>2
    <3> QED BY <1>1, <1>3, <3>1 DEF Sound, Layout
  <2> QED BY <2>1, <2>2
<1>5. n \in 1 .. n /\ After(n) = prod  BY <1>4 DEF After
<1>6. emitted[n].end = prod
  <2>1. Follows(emitted[n].end, prod)  BY <1>5 DEF Sound, Layout
  <2>2. emitted[n].end \in Nat  BY <1>5, Landed
  <2>3. Off(emitted[n].end + Size - Off(emitted[n].end)) = 0  BY <2>2, OffRound
  <2> QED BY <1>1, <2>1, <2>3 DEF Follows
<1>7. \A k \in 1 .. n : k # n => After(k)' = After(k)
  BY <1>2, <1>4 DEF After
<1>8. \A k \in 1 .. n : k = n => After(k)' = p  BY <1>2, <1>4 DEF After
<1>9. Follows(emitted[n].end, p)  BY <1>1, <1>6 DEF Follows, p
<1>10. Layout'
  <2>1. ASSUME NEW k \in 1 .. n
        PROVE  emitted[k].end <= p /\ Follows(emitted[k].end, After(k)')
    <3>1. emitted[k].end <= prod /\ emitted[k].end \in Nat /\ Follows(emitted[k].end, After(k))
      BY Landed DEF Sound, Layout
    <3>2. emitted[k].end <= p  BY <1>3, <3>1
    <3>3. CASE k = n  BY <1>8, <1>9, <3>2, <3>3
    <3>4. CASE k # n
      <4>1. After(k)' = After(k)  BY <1>7, <3>4
      <4> QED BY <3>1, <3>2, <4>1
    <3> QED BY <3>3, <3>4
  <2>2. emitted' # << >>  BY <1>2, <1>4
  <2> QED BY <1>2, <2>1, <2>2 DEF Sound, Layout, Follows
<1>11. Cursor'
  <2>1. cons <= prod  BY DEF Sound, Cursor
  <2>2. cons <= p /\ p - cons <= Size  BY <1>2, <1>3, <2>1
  <2>3. cons = 0 \/ \E k \in 1 .. n : cons = emitted[k].end \/ cons = After(k)'
    <3>1. cons = 0 \/ \E k \in 1 .. n : cons = emitted[k].end \/ cons = After(k)  BY DEF Sound, Cursor
    <3> QED BY <1>5, <1>6, <1>7, <3>1
  <2> QED BY <1>2, <2>2, <2>3 DEF Cursor
<1>12. Intact'
  <2>1. \A k : Header(k)' = Header(k)  BY <1>2 DEF Header
  <2>2. ASSUME NEW k \in 1 .. n, cons <= emitted[k].end, After(k)' # emitted[k].end
        PROVE  cell[Off(emitted[k].end)] = PadHeader(emitted[k].end)
    <3>1. CASE k = n  BY <1>1, <1>6, <3>1
    <3>2. CASE k # n  BY <1>7, <2>2, <3>2 DEF Sound, Intact
    <3> QED BY <3>1, <3>2
  <2> QED BY <1>2, <2>1, <2>2 DEF Sound, Intact, PadHeader
<1>13. Emitting'
  <2>1. emit'.prod = p /\ emit'.need = emit.need  BY <1>2 DEF EmitRecord
  <2>2. emit.need <= Size  BY <1>1
  <2>3. Off(p) + emit.need <= Size  BY <1>3, <2>2
  <2> QED BY <1>2, <2>1, <2>3 DEF Emitting
<1> QED BY <1>5, <1>6, <1>7, <1>10, <1>11, <1>12, <1>13 DEF Sound

LEMMA EmitCheckRing ==
  ASSUME TInv, Sound, EmitCheck
  PROVE  Sound'
<1> USE RingTypes
<1>1. epc = "check" /\ UNCHANGED <<prod, cons, cell, emit, emitted>> /\ epc' \in {"write", "idle"}
      /\ (epc' = "write" => Room(cons))
  BY DEF EmitCheck
<1>2. \A k : After(k)' = After(k) /\ Header(k)' = Header(k)  BY <1>1 DEF After, Header
<1>3. Layout' /\ Cursor'  BY <1>1, <1>2 DEF Sound, Layout, Cursor
<1>4. Intact'  BY <1>1, <1>2 DEF Sound, Intact, PadHeader
<1>5. emit.prod = prod /\ Off(prod) + emit.need <= Size  BY <1>1 DEF Sound, Emitting
<1>6. cons <= prod /\ prod - cons <= Size  BY DEF Sound, Cursor
<1>7. Room(cons) => prod - cons + emit.need <= Size  BY <1>1, <1>5, <1>6, RoomExact
<1>8. Emitting'  BY <1>1, <1>5, <1>7 DEF Emitting
<1> QED BY <1>3, <1>4, <1>8 DEF Sound

\* Between the check and the end of the emit there is room for the record.
LEMMA RoomLeft ==
  ASSUME TInv, Sound, epc \in {"write", "commit", "advance"}
  PROVE  /\ prod - cons < Size /\ emit.prod = prod /\ prod - cons + emit.need <= Size
         /\ Off(prod) + emit.need <= Size /\ emit.need > 0
<1>1. emit.prod = prod /\ prod - cons + emit.need <= Size /\ Off(prod) + emit.need <= Size
  BY DEF Sound, Emitting
<1>2. prod \in Nat /\ cons \in Nat /\ emit.need \in Nat /\ emit.need > 0 /\ Size \in Nat  BY RingTypes
<1>3. prod - cons < Size  BY <1>1, <1>2
<1> QED BY <1>1, <1>2, <1>3

LEMMA EmitWriteRing ==
  ASSUME TInv, Sound, EmitWrite
  PROVE  Sound'
<1> DEFINE h == [busy |-> TRUE, discard |-> FALSE, len |-> emit.need, id |-> emit.id]
<1>1. epc = "write" /\ epc' = "commit" /\ UNCHANGED <<prod, cons, emit, emitted>>
  BY DEF EmitWrite
<1>2. prod - cons < Size /\ emit.prod = prod /\ prod - cons + emit.need <= Size
      /\ Off(prod) + emit.need <= Size
  BY <1>1, RoomLeft
<1>3. cell' = [cell EXCEPT ![Off(prod)] = h]  BY <1>2 DEF EmitWrite
<1> HIDE DEF h
<1>4. Intact' /\ Layout' /\ Cursor' /\ cell'[Off(prod)] = h  BY <1>1, <1>2, <1>3, IntactKept DEF Sound
<1>5. h = [busy |-> epc' = "commit", discard |-> FALSE, len |-> emit.need, id |-> emit.id]  BY <1>1 DEF h
<1>6. Emitting'  BY <1>1, <1>2, <1>4, <1>5 DEF Emitting
<1> QED BY <1>4, <1>6 DEF Sound

LEMMA BusyCleared ==
  ASSUME NEW c \in CellRecord
  PROVE  [c EXCEPT !.busy = FALSE] = [busy |-> FALSE, discard |-> c.discard, len |-> c.len, id |-> c.id]
<1>1. \A d \in CellRecord : d = [busy |-> d.busy, discard |-> d.discard, len |-> d.len, id |-> d.id]
  BY DEF CellRecord
<1> DEFINE d == [c EXCEPT !.busy = FALSE]
<1>2. d \in CellRecord  BY DEF CellRecord
<1>3. d.busy = FALSE /\ d.discard = c.discard /\ d.len = c.len /\ d.id = c.id  BY DEF CellRecord
<1> HIDE DEF d
<1>4. d = [busy |-> d.busy, discard |-> d.discard, len |-> d.len, id |-> d.id]  BY <1>1, <1>2
<1>5. d = [busy |-> FALSE, discard |-> c.discard, len |-> c.len, id |-> c.id]  BY <1>3, <1>4
<1> QED BY <1>5 DEF d

LEMMA EmitCommitRing ==
  ASSUME TInv, Sound, EmitCommit
  PROVE  Sound'
<1> DEFINE h == [cell[Off(prod)] EXCEPT !.busy = FALSE]
<1>1. epc = "commit" /\ epc' = "advance" /\ UNCHANGED <<prod, cons, emit, emitted>>
  BY DEF EmitCommit
<1>2. prod - cons < Size /\ emit.prod = prod /\ prod - cons + emit.need <= Size
      /\ Off(prod) + emit.need <= Size
  BY <1>1, RoomLeft
<1>3. cell \in [Offsets -> CellRecord] /\ Off(prod) \in Offsets  BY RingTypes, OffParts
<1>4. cell' = [cell EXCEPT ![Off(prod)] = h]  BY <1>2, <1>3 DEF EmitCommit
<1>5. cell[Off(prod)] = [busy |-> TRUE, discard |-> FALSE, len |-> emit.need, id |-> emit.id]
  BY <1>1 DEF Sound, Emitting
<1>6. h = [busy |-> FALSE, discard |-> FALSE, len |-> emit.need, id |-> emit.id]
  <2>1. cell[Off(prod)] \in CellRecord  BY <1>3
  <2>2. h = [busy |-> FALSE, discard |-> cell[Off(prod)].discard, len |-> cell[Off(prod)].len,
             id |-> cell[Off(prod)].id]
    BY <2>1, BusyCleared
  <2>3. cell[Off(prod)].discard = FALSE /\ cell[Off(prod)].len = emit.need /\ cell[Off(prod)].id = emit.id
    BY <1>5
  <2> QED BY <2>2, <2>3
<1> HIDE DEF h
<1>7. Intact' /\ Layout' /\ Cursor' /\ cell'[Off(prod)] = h  BY <1>1, <1>2, <1>4, IntactKept DEF Sound
<1>8. h = [busy |-> epc' = "commit", discard |-> FALSE, len |-> emit.need, id |-> emit.id]
  BY <1>1, <1>6
<1>9. Emitting'  BY <1>1, <1>2, <1>7, <1>8 DEF Emitting
<1> QED BY <1>7, <1>9 DEF Sound

\* A record lands.
LEMMA EmitAdvanceRing ==
  ASSUME TInv, Sound, EmitAdvance
  PROVE  /\ Sound'
         /\ Len(emitted') = Len(emitted) + 1
         /\ \A k \in 1 .. Len(emitted) : emitted'[k] = emitted[k] /\ After(k)' = After(k)
         /\ emitted'[Len(emitted) + 1].begin = prod /\ emitted'[Len(emitted) + 1].end = prod'
         /\ prod < prod'
<1> DEFINE r == [id |-> emit.id, begin |-> prod, end |-> prod + emit.need]
           n == Len(emitted)
<1>0. /\ prod \in Nat /\ cons \in Nat /\ emit.need \in Nat /\ emit.need > 0 /\ emitted \in Seq(LandRecord)
      /\ Off(prod) \in Nat /\ n \in Nat /\ emit.id \in Nat /\ Size \in Nat
  <2>1. /\ prod \in Nat /\ cons \in Nat /\ emit.need \in Nat /\ emitted \in Seq(LandRecord)
        /\ emit.id \in Nat /\ Size \in Nat
    BY RingTypes
  <2>2. Off(prod) \in Nat  BY <2>1, OffParts
  <2>3. emit.need > 0  BY RoomLeft DEF EmitAdvance
  <2>4. n \in Nat  BY <2>1
  <2> QED BY <2>1, <2>2, <2>3, <2>4
<1>1. epc = "advance" /\ epc' = "idle" /\ UNCHANGED <<cons, cell, emit>>  BY DEF EmitAdvance
<1>2. emit.prod = prod /\ prod - cons + emit.need <= Size /\ Off(prod) + emit.need <= Size
  BY <1>1, RoomLeft
<1>3. prod' = prod + emit.need /\ emitted' = Append(emitted, r)  BY <1>2 DEF EmitAdvance
<1>4. r.begin = prod /\ r.end = prod + emit.need /\ r.id = emit.id  OBVIOUS
<1> HIDE DEF r
<1>5. Len(emitted') = n + 1 /\ emitted'[n + 1] = r /\ \A k \in 1 .. n : emitted'[k] = emitted[k]
  BY <1>0, <1>3
<1>6. ASSUME NEW k \in 1 .. n PROVE After(k)' = After(k)
  <2>1. After(k)' = emitted'[k + 1].begin  BY <1>0, <1>5 DEF After
  <2>2. CASE k < n
    <3>1. k + 1 \in 1 .. n  BY <1>0, <2>2
    <3> QED BY <1>5, <2>1, <2>2, <3>1 DEF After
  <2>3. CASE ~(k < n)
    <3>1. k = n  BY <1>0, <2>3
    <3> QED BY <1>4, <1>5, <2>1, <3>1 DEF After
  <2> QED BY <2>2, <2>3
<1>7. \A k \in 1 .. n + 1 : k \in 1 .. n \/ k = n + 1  BY <1>0
<1>8. \A k : k = n + 1 => After(k)' = prod'
  <2>1. ~(n + 1 < n + 1)  BY <1>0
  <2> QED BY <1>5, <2>1 DEF After
<1>9. prod < prod' /\ r.begin < r.end /\ r.end = prod' /\ r.end - r.begin <= Size - Off(prod)
  BY <1>0, <1>2, <1>3, <1>4
<1>10. Layout'
  <2>1. emitted' # << >>
    <3>1. Len(emitted') # 0  BY <1>0, <1>5
    <3> QED BY <3>1
  <2>2. ASSUME NEW k \in 1 .. n + 1
        PROVE  /\ emitted'[k].begin < emitted'[k].end /\ emitted'[k].end <= prod'
               /\ emitted'[k].end - emitted'[k].begin <= Size - Off(emitted'[k].begin)
               /\ k = 1 => emitted'[k].begin = 0
               /\ Follows(emitted'[k].end, After(k)')
    <3>1. CASE k \in 1 .. n
      <4>1. /\ emitted[k].begin < emitted[k].end /\ emitted[k].end <= prod
            /\ emitted[k].end - emitted[k].begin <= Size - Off(emitted[k].begin)
            /\ k = 1 => emitted[k].begin = 0
            /\ Follows(emitted[k].end, After(k))
        BY <3>1 DEF Sound, Layout
      <4>2. emitted'[k] = emitted[k] /\ After(k)' = After(k)  BY <1>5, <1>6, <3>1
      <4>3. emitted[k].end \in Nat  BY <3>1, Landed
      <4>4. emitted[k].end <= prod'  BY <1>0, <1>3, <4>1, <4>3
      <4> QED BY <4>1, <4>2, <4>4
    <3>2. CASE k = n + 1
      <4>1. emitted'[k] = r /\ After(k)' = prod'  BY <1>5, <1>8, <3>2
      <4>2. k = 1 => r.begin = 0
        <5>1. k = 1 => n = 0  BY <1>0, <3>2
        <5>2. n = 0 => emitted = << >>  BY <1>0
        <5> QED BY <1>4, <5>1, <5>2 DEF Sound, Layout
      <4>3. Follows(r.end, prod')  BY <1>9 DEF Follows
      <4>4. r.end <= prod'  BY <1>0, <1>3, <1>9
      <4> QED BY <1>4, <1>9, <4>1, <4>2, <4>3, <4>4
    <3> QED BY <1>7, <3>1, <3>2
  <2>3. ASSUME NEW k \in 1 .. n + 1, NEW m \in 1 .. n + 1, k < m
        PROVE  emitted'[k].end <= emitted'[m].begin
    <3>1. k \in 1 .. n  BY <1>0, <2>3
    <3>2. CASE m \in 1 .. n
      <4>1. emitted[k].end <= emitted[m].begin  BY <2>3, <3>1, <3>2 DEF Sound, Layout
      <4> QED BY <1>5, <3>1, <3>2, <4>1
    <3>3. CASE m = n + 1
      <4>1. emitted[k].end <= prod  BY <3>1 DEF Sound, Layout
      <4> QED BY <1>4, <1>5, <3>1, <3>3, <4>1
    <3> QED BY <1>7, <3>2, <3>3
  <2> QED BY <1>5, <2>1, <2>2, <2>3 DEF Layout, Follows
<1>11. Cursor'
  <2>1. cons <= prod  BY DEF Sound, Cursor
  <2>2. cons <= prod' /\ prod' - cons <= Size  BY <1>0, <1>2, <1>3, <2>1
  <2>3. cons = 0 \/ \E k \in 1 .. n : cons = emitted[k].end \/ cons = After(k)  BY DEF Sound, Cursor
  <2>4. \A k \in 1 .. n : k \in 1 .. n + 1  BY <1>0
  <2>5. cons = 0 \/ \E k \in 1 .. n + 1 : cons = emitted'[k].end \/ cons = After(k)'
    BY <1>5, <1>6, <2>3, <2>4
  <2> QED BY <1>1, <1>5, <2>2, <2>5 DEF Cursor
<1>12. Intact'
  <2>1. ASSUME NEW k \in 1 .. n + 1, cons <= emitted'[k].begin
        PROVE  cell[Off(emitted'[k].begin)] = Header(k)'
    <3>1. CASE k \in 1 .. n
      <4>1. emitted'[k] = emitted[k]  BY <1>5, <3>1
      <4>2. Header(k)' = Header(k)  BY <4>1 DEF Header
      <4>3. cons <= emitted[k].begin  BY <2>1, <4>1
      <4>4. cell[Off(emitted[k].begin)] = Header(k)  BY <3>1, <4>3 DEF Sound, Intact
      <4> QED BY <4>1, <4>2, <4>4
    <3>2. CASE k = n + 1
      <4>1. emitted'[k] = r  BY <1>5, <3>2
      <4>2. cell[Off(prod)] = [busy |-> FALSE, discard |-> FALSE, len |-> emit.need, id |-> emit.id]
        BY <1>1 DEF Sound, Emitting
      <4>3. r.end - r.begin = emit.need  BY <1>0, <1>4
      <4> QED BY <1>4, <4>1, <4>2, <4>3 DEF Header
    <3> QED BY <1>7, <3>1, <3>2
  <2>2. ASSUME NEW k \in 1 .. n + 1, cons <= emitted'[k].end, After(k)' # emitted'[k].end
        PROVE  cell[Off(emitted'[k].end)] = PadHeader(emitted'[k].end)
    <3>1. CASE k \in 1 .. n
      <4>1. emitted'[k] = emitted[k] /\ After(k)' = After(k)  BY <1>5, <1>6, <3>1
      <4> QED BY <2>2, <3>1, <4>1 DEF Sound, Intact
    <3>2. CASE k = n + 1
      <4>1. emitted'[k] = r /\ After(k)' = prod'  BY <1>5, <1>8, <3>2
      <4> QED BY <1>9, <2>2, <4>1
    <3> QED BY <1>7, <3>1, <3>2
  <2> QED BY <1>1, <1>5, <2>1, <2>2 DEF Intact, PadHeader
<1>13. Emitting'  BY <1>1 DEF Emitting
<1> QED BY <1>4, <1>5, <1>6, <1>9, <1>10, <1>11, <1>12, <1>13 DEF Sound

\* A step of the producer: the ring stays sound, the consumer's cursor and the
\* records that landed stay, and so does the pad behind a record.
LEMMA EmitRing ==
  ASSUME TInv, RingInv, Emit, ~crossed, ~overrun'
  PROVE  /\ Sound /\ ~overrun /\ Sound' /\ cons' = cons /\ prod <= prod' /\ Len(emitted) \in Nat
         /\ \A k \in 1 .. Len(emitted) :
              /\ k \in 1 .. Len(emitted') /\ emitted'[k] = emitted[k]
              /\ After(k) # emitted[k].end => After(k)' = After(k)
         /\ \A k \in 1 .. Len(emitted') : k \in 1 .. Len(emitted) \/ prod < emitted'[k].end
<1>0. prod \in Nat /\ cons \in Nat /\ Len(emitted) \in Nat /\ emit.prod \in Nat  BY RingTypes
<1>1. ~overrun
  BY DEF Emit, EmitStart, EmitPadHeader, EmitPadPublish, EmitCheck, EmitWrite, EmitCommit, EmitAdvance
<1>2. Sound  BY <1>1 DEF RingInv, Sound
<1>3. cons' = cons
  BY DEF Emit, EmitStart, EmitPadHeader, EmitPadPublish, EmitCheck, EmitWrite, EmitCommit, EmitAdvance
<1>4. CASE EmitAdvance
  <2>1. /\ Sound' /\ Len(emitted') = Len(emitted) + 1
        /\ \A k \in 1 .. Len(emitted) : emitted'[k] = emitted[k] /\ After(k)' = After(k)
        /\ emitted'[Len(emitted) + 1].end = prod' /\ prod < prod'
    BY <1>2, <1>4, EmitAdvanceRing
  <2>2. prod' \in Nat
    <3>1. emit.need \in Nat  BY RingTypes
    <3> QED BY <1>0, <1>4, <3>1 DEF EmitAdvance
  <2>3. prod <= prod'  BY <1>0, <2>1, <2>2
  <2>4. \A k \in 1 .. Len(emitted) : k \in 1 .. Len(emitted')  BY <1>0, <2>1
  <2>5. \A k \in 1 .. Len(emitted') : k \in 1 .. Len(emitted) \/ k = Len(emitted) + 1  BY <1>0, <2>1
  <2> QED BY <1>0, <1>1, <1>2, <1>3, <2>1, <2>3, <2>4, <2>5
<1>5. CASE EmitPadPublish
  <2>1. Sound' /\ \A k \in 1 .. Len(emitted) : After(k) # emitted[k].end => After(k)' = After(k)
    BY <1>2, <1>5, EmitPadPublishRing
  <2>2. emitted' = emitted /\ prod' = emit.prod + Size - Off(emit.prod) /\ emit.prod = prod
    BY <1>2, <1>5 DEF EmitPadPublish, Sound, Emitting
  <2>3. prod < prod' /\ prod' \in Nat  BY <1>0, <2>2, OffRound
  <2>4. prod <= prod'  BY <1>0, <2>3
  <2> QED BY <1>0, <1>1, <1>2, <1>3, <2>1, <2>2, <2>4
<1>6. CASE ~EmitAdvance /\ ~EmitPadPublish
  <2>1. emitted' = emitted /\ prod' = prod
    BY <1>6 DEF Emit, EmitStart, EmitPadHeader, EmitCheck, EmitWrite, EmitCommit
  <2>2. Sound'
    BY <1>2, <1>6, EmitStartRing, EmitPadHeaderRing, EmitCheckRing, EmitWriteRing, EmitCommitRing DEF Emit
  <2>3. \A k : After(k)' = After(k)  BY <2>1 DEF After
  <2>4. prod <= prod'  BY <1>0, <2>1
  <2> QED BY <1>0, <1>1, <1>2, <1>3, <2>1, <2>2, <2>3, <2>4
<1> QED BY <1>4, <1>5, <1>6

\* What lies at the consumer's cursor: a record, with its header, or a pad.
LEMMA AtCursor ==
  ASSUME TInv, Sound, cons < prod
  PROVE  \E k \in 1 .. Len(emitted) :
           \/ cons = emitted[k].begin /\ cell[Off(cons)] = Header(k)
           \/ cons = emitted[k].end /\ After(k) # cons /\ cell[Off(cons)] = PadHeader(cons)
<1>0. prod \in Nat /\ cons \in Nat /\ Len(emitted) \in Nat /\ emitted \in Seq(LandRecord)  BY RingTypes
<1>1. ASSUME NEW k \in 1 .. Len(emitted), cons = emitted[k].begin PROVE cell[Off(cons)] = Header(k)
  <2>1. cons <= emitted[k].begin  BY <1>0, <1>1
  <2> QED BY <1>1, <2>1 DEF Sound, Intact
<1>2. ASSUME NEW k \in 1 .. Len(emitted), cons = After(k)
      PROVE  k + 1 \in 1 .. Len(emitted) /\ cons = emitted[k + 1].begin
  <2>1. k = Len(emitted) => After(k) = prod  BY AfterFacts DEF Sound
  <2>2. k < Len(emitted)  BY <1>0, <1>2, <2>1
  <2> QED BY <1>2, <2>2, AfterFacts DEF Sound
<1>3. CASE cons = 0
  <2>1. emitted # << >>  BY <1>0, <1>3 DEF Sound, Layout
  <2>2. 1 \in 1 .. Len(emitted)  BY <1>0, <2>1
  <2>3. emitted[1].begin = 0  BY <2>2 DEF Sound, Layout
  <2> QED BY <1>1, <1>3, <2>2, <2>3
<1>4. ASSUME NEW k \in 1 .. Len(emitted), cons = emitted[k].end
      PROVE  \E m \in 1 .. Len(emitted) :
               \/ cons = emitted[m].begin /\ cell[Off(cons)] = Header(m)
               \/ cons = emitted[m].end /\ After(m) # cons /\ cell[Off(cons)] = PadHeader(cons)
  <2>1. CASE After(k) = cons  BY <1>1, <1>2, <2>1
  <2>2. CASE After(k) # cons
    <3>1. cons <= emitted[k].end  BY <1>0, <1>4
    <3>2. cell[Off(emitted[k].end)] = PadHeader(emitted[k].end)
      BY <1>4, <2>2, <3>1 DEF Sound, Intact
    <3> QED BY <1>4, <2>2, <3>2
  <2> QED BY <2>1, <2>2
<1>5. ASSUME NEW k \in 1 .. Len(emitted), cons = After(k)
      PROVE  \E m \in 1 .. Len(emitted) : cons = emitted[m].begin /\ cell[Off(cons)] = Header(m)
  BY <1>1, <1>2, <1>5
<1> QED BY <1>3, <1>4, <1>5 DEF Sound, Cursor

\* The consumer moves on to the next record or pad.
LEMMA ConsRing ==
  ASSUME TInv, Sound, NEW k \in 1 .. Len(emitted), cons <= cons', cons' \in Nat,
         cons' = emitted[k].end \/ cons' = After(k),
         UNCHANGED <<prod, cell, epc, emit, emitted>>
  PROVE  Sound'
<1>0. prod \in Nat /\ cons \in Nat /\ Size \in Nat /\ emit.need \in Nat  BY RingTypes
<1>1. \A m : After(m)' = After(m) /\ Header(m)' = Header(m)  BY DEF After, Header
<1>2. Layout'  BY <1>1 DEF Sound, Layout
<1>3. cons' <= prod  BY AfterFacts DEF Sound
<1>4. Cursor'
  <2>1. prod - cons <= Size  BY DEF Sound, Cursor
  <2>2. \A x, y, z, s \in Nat : y <= z /\ x - y <= s => x - z <= s  OBVIOUS
  <2>3. prod - cons' <= Size
    <3> HIDE DEF TInv, Sound
    <3> QED BY <1>0, <2>1, <2>2
  <2> QED BY <1>1, <1>3, <2>3 DEF Cursor
<1>5. Intact'
  <2>1. ASSUME NEW m \in 1 .. Len(emitted), cons' <= emitted[m].begin PROVE cons <= emitted[m].begin
    BY <1>0, <2>1, Landed
  <2>2. ASSUME NEW m \in 1 .. Len(emitted), cons' <= emitted[m].end PROVE cons <= emitted[m].end
    BY <1>0, <2>2, Landed
  <2> QED BY <1>1, <2>1, <2>2 DEF Sound, Intact, PadHeader
<1>6. Emitting'
  <2>1. \A x, y, z, n, s \in Nat : y <= z /\ x - y + n <= s => x - z + n <= s  OBVIOUS
  <2>2. prod - cons + emit.need <= Size => prod - cons' + emit.need <= Size  BY <1>0, <2>1
  <2> QED BY <2>2 DEF Sound, Emitting, PadHeader
<1> QED BY <1>2, <1>4, <1>5, <1>6 DEF Sound

-----------------------------------------------------------------------------
(* The lock step of reader and collector.                                  *)

\* The journal after a commit: a source frame names the journal's source, the
\* other frames leave it.
LEMMA CommitSource ==
  ASSUME TInv, Commit
  PROVE  /\ frame.kind = "source" => journal'.source = frame.src
         /\ frame.kind # "source" => journal'.source = journal.source
<1>1. JournalTypes /\ ProcTypes /\ (AcceptSource \/ AcceptFrame)  BY DEF TInv, TypeOK, Commit
<1>2. CASE AcceptSource  BY <1>1, <1>2, SourceAccepted
<1>3. CASE AcceptFrame  BY <1>1, <1>3, FrameAccepted
<1> QED BY <1>1, <1>2, <1>3

\* Every step keeps the lock step.
LEMMA LockStepNext ==
  ASSUME TInv, LockStep, [Next]_vars
  PROVE  LockStep'
<1>0. /\ frame \in Frames \union {None} /\ bound \in Nat /\ inc \in Nat /\ rd \in ReaderRecord
      /\ frame = None <=> frame.kind = "none"
  BY RingTypes, ProcParts, FrameKinds DEF TInv, TypeOK
<1>1. None \notin Frames /\ None # [kind |-> "ack"] /\ None.kind = "none"  BY ReaderConstants DEF None
<1>2. CASE Producer \/ Client
  <2>1. UNCHANGED <<inc, procVars, journal>>  BY <1>2 DEF Producer, Client, ClientRefused, ClientPage
  <2> QED BY <2>1 DEF LockStep, procVars
<1>3. CASE Start
  <2>1. inc <= inc  BY <1>0
  <2> QED BY <1>1, <1>3, <2>1 DEF Start, LockStep
<1>4. CASE Spawn
  <2>1. rd'.src = bound  BY <1>0, <1>4, ReaderConstants DEF Spawn
  <2>2. bound = inc => frame' = [kind |-> "source", src |-> bound] /\ frame' # None
    BY <1>4 DEF Spawn, None
  <2> QED BY <1>4, <2>1, <2>2 DEF Spawn, LockStep
<1>5. CASE ReaderGone \/ Refuse \/ Crash
  <2>1. Down /\ journal' = journal /\ inc' = inc  BY <1>5 DEF ReaderGone, Refuse, Crash
  <2> QED BY <2>1 DEF Down, LockStep
<1>6. CASE Acknowledged
  <2>0. UNCHANGED <<inc, cpc, bound, journal, frame>> /\ rpc \in {"hello", "health", "wait"} /\ ack # None
    BY <1>1, <1>6 DEF Acknowledged, Fails
  <2>1. cpc = "read" /\ frame = None  BY <2>0 DEF LockStep
  <2>2. CASE ~SameSource
    <3>1. rpc' = "failed" /\ UNCHANGED <<rd, ack>>  BY <1>6, <2>2 DEF Acknowledged, Fails
    <3> QED BY <2>0, <2>1, <3>1 DEF LockStep
  <2>3. CASE SameSource
    <3>1. ack' = None /\ rpc' \in {"poll", "pos", "store"}  BY <1>6, <2>3 DEF Acknowledged
    <3>2. rd'.src = rd.src  BY <1>0, <1>6, <2>3 DEF Acknowledged, ReaderRecord
    <3> QED BY <2>0, <2>1, <3>1, <3>2 DEF LockStep
  <2> QED BY <2>2, <2>3
<1>7. CASE Poll \/ LoadPositions \/ StoreCons
  <2>1. UNCHANGED <<inc, cpc, bound, journal, frame, ack>>
    BY <1>7 DEF Poll, LoadPositions, StoreCons, Fails
  <2>2. rpc \in {"poll", "pos", "store"} /\ rpc' \in {"failed", "drops", "poll", "header"}
    BY <1>7 DEF Poll, LoadPositions, StoreCons, Fails
  <2>3. rd'.src = rd.src  BY <1>0, <1>7 DEF Poll, LoadPositions, StoreCons, Fails, ReaderRecord
  <2> QED BY <2>1, <2>2, <2>3 DEF LockStep
<1>8. CASE LoadDrops
  <2>1. UNCHANGED <<inc, cpc, bound, journal, ack>> /\ rpc = "drops"  BY <1>8 DEF LoadDrops
  <2>2. rd'.src = rd.src  BY <1>0, <1>8 DEF LoadDrops, ReaderRecord
  <2>3. cpc = "read" /\ frame = None /\ ack = None
    <3>1. cpc \in {"down", "checked", "read", "ack"} /\ ack \in {None, [kind |-> "ack"]}
      BY DEF TInv, TypeOK, ProcTypes
    <3> QED BY <2>1, <3>1 DEF LockStep
  <2>4. \/ rpc' = "pos" /\ frame' = None
        \/ rpc' = "health" /\ frame' = [kind |-> "ring_health", drops |-> drops] /\ frame'.kind = "ring_health"
    BY <1>8, <2>3 DEF LoadDrops
  <2> QED BY <2>1, <2>2, <2>3, <2>4 DEF LockStep
<1>9. CASE LoadHeader
  <2>1. UNCHANGED <<inc, cpc, bound, journal, ack>> /\ rpc = "header"  BY <1>9 DEF LoadHeader, Fails
  <2>2. rd'.src = rd.src  BY <1>0, <1>9 DEF LoadHeader, Fails, ReaderRecord
  <2>3. cpc = "read" /\ frame = None /\ ack = None
    <3>1. cpc \in {"down", "checked", "read", "ack"} /\ ack \in {None, [kind |-> "ack"]}
      BY DEF TInv, TypeOK, ProcTypes
    <3> QED BY <2>1, <3>1 DEF LockStep
  <2>4. \/ rpc' \in {"poll", "failed"} /\ frame' = None
        \/ rpc' = "wait" /\ frame'.kind \in {"record", "discard"}
    BY <1>9, <2>3 DEF LoadHeader, Fails
  <2> QED BY <2>1, <2>2, <2>3, <2>4 DEF LockStep
<1>10. CASE Commit
  <2>1. /\ cpc = "read" /\ frame # None /\ cpc' = "ack" /\ frame' = None
        /\ UNCHANGED <<inc, rpc, rd, ack, bound>>
    BY <1>0, <1>10 DEF Commit
  <2>2. ack = None /\ rpc \in {"hello", "health", "wait"} /\ (rpc = "hello" <=> frame.kind = "source")
        /\ (rpc = "hello" => frame.src = rd.src)
    BY <2>1 DEF LockStep
  <2>3. journal'.source = rd.src
    <3>1. CASE rpc = "hello"  BY <1>10, <2>2, <3>1, CommitSource
    <3>2. CASE rpc # "hello"
      <4>1. journal.source = rd.src  BY <2>1, <2>2, <3>2 DEF LockStep
      <4> QED BY <1>10, <2>2, <3>2, <4>1, CommitSource
    <3> QED BY <3>1, <3>2
  <2> QED BY <2>1, <2>2, <2>3 DEF LockStep
<1>11. CASE SendAck
  <2>1. /\ cpc = "ack" /\ cpc' = "read" /\ ack' # None /\ UNCHANGED <<inc, rpc, rd, frame, bound, journal>>
    BY <1>1, <1>11 DEF SendAck
  <2> QED BY <2>1 DEF LockStep
<1>12. CASE ReplaceJournal
  <2>1. cpc = "down" /\ UNCHANGED <<inc, procVars>>  BY <1>12 DEF ReplaceJournal
  <2> QED BY <2>1 DEF LockStep, procVars
<1>13. CASE TmmRestart
  <2>1. inc' = inc + 1 /\ UNCHANGED <<procVars, journal>>  BY <1>13 DEF TmmRestart
  <2>2. bound <= inc => bound <= inc'  BY <1>0, <2>1
  <2> QED BY <2>1, <2>2 DEF LockStep, procVars
<1>14. CASE UNCHANGED vars  BY <1>14 DEF vars, procVars, LockStep
<1> QED BY <1>2, <1>3, <1>4, <1>5, <1>6, <1>7, <1>8, <1>9, <1>10, <1>11, <1>12, <1>13, <1>14 DEF Next, Reader

-----------------------------------------------------------------------------
(* The reader on the ring.                                                 *)

\* A reader that is not off belongs to a collector that runs, and was started
\* for the running TMM or an earlier one.
LEMMA ReaderUp ==
  ASSUME TInv, LockStep, rpc # "off"
  PROVE  cpc \in {"read", "ack"} /\ rd.src = bound /\ bound <= inc /\ rd.src \in Nat /\ inc \in Nat
<1>1. cpc \in {"down", "checked", "read", "ack"} /\ rd.src \in Nat /\ inc \in Nat
  BY RingTypes, ProcParts DEF TInv, TypeOK, ProcTypes
<1> QED BY <1>1 DEF LockStep

\* Every step keeps the reader on the ring of the TMM it was started for.
LEMMA ReaderNext ==
  ASSUME TInv, RingInv, LockStep, ReaderInv, [Next]_vars
  PROVE  ReaderInv'
<1> SUFFICES ASSUME ~crossed' PROVE ReaderInv'
  BY DEF ReaderInv
<1>0. prod \in Nat /\ cons \in Nat /\ inc \in Nat /\ rd \in ReaderRecord /\ rd.prod \in Nat
  BY RingTypes, ProcParts DEF TInv, TypeOK
<1>1. CASE Producer
  <2>1. Emit /\ UNCHANGED <<inc, procVars, crossed>>  BY <1>1 DEF Producer
  <2>2. cons' = cons
    BY <2>1 DEF Emit, EmitStart, EmitPadHeader, EmitPadPublish, EmitCheck, EmitWrite, EmitCommit, EmitAdvance
  <2>3. ASSUME ~overrun' PROVE ~overrun /\ prod <= prod' /\ prod' \in Nat
    <3>1. ~overrun /\ prod <= prod'  BY <2>1, <2>3, EmitRing
    <3>2. prod' \in Nat  BY NextTypes DEF TInv, TypeOK, RingTypeOK
    <3> QED BY <3>1, <3>2
  <2>4. \A x \in Nat : x <= prod /\ prod <= prod' /\ prod' \in Nat => x <= prod'  BY <1>0
  <2> QED BY <1>0, <2>1, <2>2, <2>3, <2>4 DEF ReaderInv, procVars
<1>2. CASE Start \/ Commit \/ SendAck \/ Client \/ ReplaceJournal \/ UNCHANGED vars
  <2>1. UNCHANGED <<ringVars, inc, rpc, rd, crossed>>
    BY <1>2 DEF Start, Commit, SendAck, Client, ClientRefused, ClientPage, ReplaceJournal, vars, procVars
  <2> QED BY <2>1 DEF ReaderInv, ringVars
<1>3. CASE Spawn \/ ReaderGone \/ Refuse \/ Crash
  <2>1. rpc' \in {"hello", "failed", "off"}  BY <1>3 DEF Spawn, ReaderGone, Refuse, Crash, Down
  <2> QED BY <2>1 DEF ReaderInv, Window
<1>4. CASE Acknowledged
  <2>0. UNCHANGED <<cons, inc, crossed>>  BY <1>4 DEF Acknowledged, ringVars
  <2>1. CASE ~SameSource  BY <1>4, <2>1 DEF Acknowledged, Fails, ReaderInv, Window
  <2>2. CASE SameSource
    <3>1. /\ rpc \in {"hello", "health", "wait"} /\ rpc' \in {"poll", "pos", "store"}
          /\ rpc' = "store" => rpc = "wait"
      BY <1>4, <2>2 DEF Acknowledged
    <3>2. rd'.src = rd.src /\ rd'.cons = rd.cons  BY <1>0, <1>4, <2>2 DEF Acknowledged, ReaderRecord
    <3> QED BY <2>0, <2>2, <3>1, <3>2 DEF ReaderInv, Window, SameSource
  <2> QED BY <2>1, <2>2
<1>5. CASE Poll  BY <1>5 DEF Poll, Fails, ReaderInv, Window, SameSource
<1>6. CASE LoadDrops
  <2>1. rpc = "drops" /\ rpc' \in {"pos", "health"} /\ UNCHANGED <<inc, crossed>>  BY <1>6 DEF LoadDrops
  <2>2. rd'.src = rd.src  BY <1>0, <1>6 DEF LoadDrops, ReaderRecord
  <2> QED BY <2>1, <2>2 DEF ReaderInv, Window
<1>7. CASE LoadPositions
  <2>0. rpc = "pos" /\ UNCHANGED <<cons, prod, overrun, inc, crossed>>  BY <1>7 DEF LoadPositions, ringVars
  <2>1. CASE cons > prod \/ prod - cons > Size  BY <1>7, <2>1 DEF LoadPositions, Fails, ReaderInv, Window
  <2>2. CASE ~(cons > prod \/ prod - cons > Size)
    <3>1. rpc' = (IF cons = prod THEN "poll" ELSE "header") /\ rd' = [rd EXCEPT !.cons = cons, !.prod = prod]
      BY <1>7, <2>2 DEF LoadPositions
    <3>2. rd'.src = rd.src /\ rd'.cons = cons /\ rd'.prod = prod  BY <1>0, <3>1 DEF ReaderRecord
    <3>3. cons # prod => cons < prod /\ prod <= prod  BY <1>0, <2>2
    <3> QED BY <2>0, <3>1, <3>2, <3>3 DEF ReaderInv, Window
  <2> QED BY <2>1, <2>2
<1>8. CASE LoadHeader
  <2>0. rpc = "header" /\ UNCHANGED <<cons, inc, crossed>> /\ rpc' \in {"poll", "failed", "wait"}
    BY <1>8 DEF LoadHeader, Fails, ringVars
  <2>1. rd'.src = rd.src /\ rd'.cons = rd.cons  BY <1>0, <1>8 DEF LoadHeader, Fails, ReaderRecord
  <2> QED BY <2>0, <2>1 DEF ReaderInv, Window
<1>9. CASE StoreCons  BY <1>9 DEF StoreCons, Fails, ReaderInv, Window
<1>10. CASE TmmRestart
  <2>1. inc' = inc + 1 /\ UNCHANGED procVars /\ rpc \notin Window  BY <1>10 DEF TmmRestart
  <2>2. rpc = "wait" => rd.src # inc'
    <3>1. rpc = "wait" => rd.src <= inc /\ rd.src \in Nat  BY ReaderUp
    <3> QED BY <1>0, <2>1, <3>1
  <2> QED BY <2>1, <2>2 DEF ReaderInv, Window, procVars
<1> QED BY <1>1, <1>2, <1>3, <1>4, <1>5, <1>6, <1>7, <1>8, <1>9, <1>10 DEF Next, Reader

-----------------------------------------------------------------------------
(* The log.                                                                *)

\* The records of an incarnation in the log, in their parts.
LEMMA LogRecord ==
  ASSUME TInv, NEW n, NEW i \in Journalled(n)
  PROVE  /\ i \in 1 .. Len(log) /\ i \in Nat /\ i <= Len(log) /\ Len(log) \in Nat
         /\ log[i].kind = "record" /\ log[i].src = n /\ log[i].frame \in RingFrames
         /\ log[i].frame.begin \in Nat /\ log[i].frame.end \in Nat
<1>1. i \in 1 .. Len(log) /\ log[i].kind = "record" /\ log[i].src = n  BY DEF Journalled
<1>2. log \in Seq(Events) /\ Len(log) \in Nat  BY JournalParts DEF TInv, TypeOK
<1>3. log[i] \in Events  BY <1>1, <1>2
<1>4. log[i].frame \in RingFrames  BY <1>1, <1>3 DEF Events
<1>5. log[i].frame.begin \in Nat /\ log[i].frame.end \in Nat  BY <1>4 DEF RingFrames
<1> QED BY <1>1, <1>2, <1>4, <1>5

\* Nobody journalled for a TMM that has not started.
LEMMA FutureEmpty ==
  ASSUME TInv, LockStep, LogInv
  PROVE  Journalled(inc + 1) = {}
<1>1. ASSUME NEW i \in Journalled(inc + 1) PROVE FALSE
  <2>1. i \in 1 .. Len(log) /\ log[i].src = inc + 1  BY <1>1, LogRecord
  <2>2. log[i].src <= (IF cpc = "down" THEN inc ELSE bound)  BY <2>1 DEF LogInv
  <2>3. bound \in Nat /\ inc \in Nat  BY RingTypes, ProcParts DEF TInv, TypeOK
  <2>4. cpc # "down" => bound <= inc  BY DEF LockStep
  <2> QED BY <2>1, <2>2, <2>3, <2>4
<1> QED BY <1>1

\* What a commit adds: nothing, or one row that is not a record, or the record
\* in the frame, under the incarnation of the reader.
LEMMA CommitLog ==
  ASSUME TInv, LockStep, Commit
  PROVE  /\ cpc = "read" /\ frame # None /\ journal'.id = journal.id /\ Len(log) \in Nat
         /\ rpc \in {"hello", "health", "wait"} /\ rd.src = bound /\ bound <= inc
         /\ \/ UNCHANGED <<journal, log>> /\ frame.kind = "source"
            \/ UNCHANGED <<journal, log>> /\ frame.kind # "source" /\ journal.source = rd.src /\ Repeated
            \/ /\ Len(log') = Len(log) + 1 /\ \A i \in 1 .. Len(log) : log'[i] = log[i]
               /\ log'[Len(log) + 1].src = rd.src /\ journal'.source = rd.src
               /\ \/ /\ frame.kind = "source" /\ journal.source # rd.src
                     /\ log'[Len(log) + 1].kind = "source_boundary" /\ journal'.ring = NoCheck
                  \/ /\ frame.kind \in {"record", "discard", "ring_health"} /\ ~Refused /\ ~Repeated
                     /\ journal.source = rd.src
                     /\ log'[Len(log) + 1].kind = frame.kind /\ log'[Len(log) + 1].frame = frame
                     /\ IF frame.kind = "ring_health" THEN journal'.ring = journal.ring
                        ELSE journal'.ring = [pos |-> frame.end, print |-> frame]
<1>0. JournalTypes /\ ProcTypes /\ (AcceptSource \/ AcceptFrame) /\ Len(log) \in Nat
  BY JournalParts DEF TInv, TypeOK, Commit
<1>1. cpc = "read" /\ frame # None
  <2>1. frame.kind # "none" /\ cpc = "read"  BY DEF Commit
  <2> QED BY <2>1 DEF None
<1>2. /\ rpc \in {"hello", "health", "wait"} /\ rd.src = bound /\ bound <= inc
      /\ frame.kind = "source" => frame.src = rd.src
      /\ frame.kind # "source" => journal.source = rd.src
  BY <1>1 DEF LockStep
<1>3. CASE AcceptSource  BY <1>0, <1>1, <1>2, <1>3, SourceAccepted
<1>4. CASE AcceptFrame
  <2>1. RecordEvent.kind = frame.kind /\ RecordEvent.frame = frame /\ RecordEvent.src = journal.source
    BY DEF RecordEvent
  <2> HIDE DEF RecordEvent
  <2> QED BY <1>0, <1>1, <1>2, <1>4, <2>1, FrameAccepted
<1> QED BY <1>0, <1>3, <1>4

\* So the records of an incarnation grow by the record in the frame or not at
\* all, and no row changes.
LEMMA CommitRecords ==
  ASSUME TInv, LockStep, Commit
  PROVE  \A n :
           /\ \A i \in Journalled(n) : i \in Journalled(n)' /\ log'[i] = log[i] /\ i < Len(log) + 1
           /\ \A i \in Journalled(n)' :
                \/ i \in Journalled(n)
                \/ /\ i = Len(log) + 1 /\ n = rd.src /\ frame.kind = "record" /\ log'[i].frame = frame
                   /\ ~Refused /\ ~Repeated
<1>1. CASE UNCHANGED log
  <2>1. \A n : Journalled(n)' = Journalled(n)  BY <1>1 DEF Journalled
  <2>2. \A n : \A i \in Journalled(n) : i < Len(log) + 1  BY LogRecord
  <2> QED BY <1>1, <2>1, <2>2
<1>2. CASE ~UNCHANGED log
  <2>1. /\ Len(log) \in Nat /\ Len(log') = Len(log) + 1 /\ \A i \in 1 .. Len(log) : log'[i] = log[i]
        /\ log'[Len(log) + 1].src = rd.src
        /\ \/ log'[Len(log) + 1].kind = "source_boundary"
           \/ log'[Len(log) + 1].kind = frame.kind /\ log'[Len(log) + 1].frame = frame /\ ~Refused /\ ~Repeated
    BY <1>2, CommitLog
  <2>2. ASSUME NEW n, NEW i \in Journalled(n) PROVE i \in Journalled(n)' /\ log'[i] = log[i] /\ i < Len(log) + 1
    <3>1. i \in 1 .. Len(log) /\ log'[i] = log[i]  BY <2>1, <2>2, LogRecord
    <3>2. i \in 1 .. Len(log') /\ i < Len(log) + 1  BY <2>1, <3>1
    <3> QED BY <2>2, <3>1, <3>2 DEF Journalled
  <2>3. ASSUME NEW n, NEW i \in Journalled(n)'
        PROVE  \/ i \in Journalled(n)
               \/ /\ i = Len(log) + 1 /\ n = rd.src /\ frame.kind = "record" /\ log'[i].frame = frame
                  /\ ~Refused /\ ~Repeated
    <3>1. i \in 1 .. Len(log') /\ log'[i].kind = "record" /\ log'[i].src = n  BY <2>3 DEF Journalled
    <3>2. CASE i \in 1 .. Len(log)  BY <2>1, <3>1, <3>2 DEF Journalled
    <3>3. CASE i = Len(log) + 1  BY <2>1, <3>1, <3>3
    <3>4. i \in 1 .. Len(log) \/ i = Len(log) + 1  BY <2>1, <3>1
    <3> QED BY <3>2, <3>3, <3>4
  <2> QED BY <2>2, <2>3
<1> QED BY <1>1, <1>2

\* The frame's place against the checkpoint, when it is committed.
LEMMA NotBack ==
  ASSUME TInv, frame.kind \in {"record", "discard"}, ~Refused
  PROVE  /\ frame.end \in Nat /\ journal.ring.pos \in Int /\ journal.ring.pos <= frame.end
         /\ journal.ring.pos = frame.end => Repeated
<1>1. frame \in Frames \union {None} /\ journal.ring.pos \in Int
  BY ProcParts, JournalParts DEF TInv, TypeOK
<1>2. frame.end \in Nat /\ Position = frame.end /\ Previous = journal.ring
  BY <1>1, FrameKinds DEF Position, Previous
<1>3. journal.ring.pos # Unset => ~(frame.end < journal.ring.pos)  BY <1>2 DEF Refused
<1>4. journal.ring.pos # Unset /\ journal.ring.pos = frame.end => journal.ring.print = frame
  BY <1>2 DEF Refused
<1>5. Unset = -1  BY DEF Unset
<1>6. journal.ring.pos <= frame.end
  <2>1. CASE journal.ring.pos = Unset  BY <1>2, <1>5, <2>1
  <2>2. CASE journal.ring.pos # Unset  BY <1>1, <1>2, <1>3, <2>2
  <2> QED BY <2>1, <2>2
<1>7. journal.ring.pos = frame.end => journal.ring.pos # Unset  BY <1>2, <1>5
<1> QED BY <1>1, <1>2, <1>4, <1>6, <1>7 DEF Repeated

\* A commit keeps the log's invariant.
LEMMA CommitKeepsLog ==
  ASSUME TInv, LockStep, LogInv, Commit
  PROVE  LogInv'
<1>0. /\ UNCHANGED <<inc, rpc, rd, bound>> /\ cpc' = "ack" /\ inc \in Nat /\ bound \in Nat
  BY RingTypes, ProcParts DEF TInv, TypeOK, Commit
<1>1. cpc = "read" /\ rd.src = bound /\ bound <= inc /\ journal'.id = journal.id  BY CommitLog
<1>2. \A i \in 1 .. Len(log) : log[i].src <= bound  BY <1>1 DEF LogInv
<1>3. \A n : Journalled(n)' = {i \in 1 .. Len(log') : log'[i].kind = "record" /\ log'[i].src = n}
  BY DEF Journalled
<1>4. Journalled(inc)' = {i \in 1 .. Len(log') : log'[i].kind = "record" /\ log'[i].src = inc}
  BY <1>0 DEF Journalled
<1>a. \A i \in 1 .. Len(log') : log'[i].src <= bound
  <2>1. CASE UNCHANGED log  BY <1>2, <2>1
  <2>2. CASE ~UNCHANGED log
    <3>1. /\ Len(log) \in Nat /\ Len(log') = Len(log) + 1 /\ \A i \in 1 .. Len(log) : log'[i] = log[i]
          /\ log'[Len(log) + 1].src = rd.src
      BY <2>2, CommitLog
    <3>2. \A i \in 1 .. Len(log') : i \in 1 .. Len(log) \/ i = Len(log) + 1  BY <3>1
    <3>3. bound <= bound  BY <1>0
    <3> QED BY <1>1, <1>2, <3>1, <3>2, <3>3
  <2> QED BY <2>1, <2>2
<1>b. ASSUME journal'.ring.pos # Unset, journal'.ring.print.kind = "record"
      PROVE  \E i \in 1 .. Len(log') : /\ log'[i].kind = "record" /\ log'[i].src = journal'.source
                                       /\ log'[i].frame = journal'.ring.print
  <2>1. CASE journal'.ring = journal.ring /\ journal'.source = journal.source
    <3>1. PICK i \in Journalled(journal.source) : log[i].frame = journal.ring.print
      BY <1>b, <2>1 DEF LogInv
    <3>2. PICK n : n = journal.source  OBVIOUS
    <3>3. i \in Journalled(n)' /\ log'[i] = log[i]  BY <3>1, <3>2, CommitRecords
    <3> QED BY <1>3, <2>1, <3>1, <3>2, <3>3
  <2>2. CASE journal'.ring = NoCheck  BY <1>b, <2>2 DEF NoCheck
  <2>3. CASE ~(journal'.ring = journal.ring /\ journal'.source = journal.source) /\ journal'.ring # NoCheck
    <3>1. /\ Len(log') = Len(log) + 1 /\ Len(log) \in Nat /\ log'[Len(log) + 1].src = rd.src
          /\ journal'.source = rd.src
          /\ log'[Len(log) + 1].kind = frame.kind /\ log'[Len(log) + 1].frame = frame
          /\ journal'.ring = [pos |-> frame.end, print |-> frame]
      BY <2>3, CommitLog
    <3>2. journal'.ring.print = frame  BY <3>1
    <3>3. Len(log) + 1 \in 1 .. Len(log')  BY <3>1
    <3> QED BY <1>b, <3>1, <3>2, <3>3
  <2> QED BY <2>1, <2>2, <2>3
<1>c. ASSUME journal'.id = 1, NEW i \in Journalled(inc)'
      PROVE  journal'.source = inc /\ log'[i].frame.end <= journal'.ring.pos
  <2>0. PICK n : n = inc  OBVIOUS
  <2>1. i \in Journalled(n)'  BY <1>3, <1>4, <1>c, <2>0
  <2>2. CASE i \in Journalled(n)
    <3>0. i \in Journalled(inc)  BY <2>0, <2>2
    <3>1. journal.source = inc /\ log[i].frame.end <= journal.ring.pos /\ log'[i] = log[i]
      BY <1>1, <1>c, <2>2, <3>0, CommitRecords DEF LogInv
    <3>2. log[i].src = inc /\ i \in 1 .. Len(log) /\ log[i].frame.end \in Nat  BY <3>0, LogRecord
    <3>3. inc <= bound  BY <1>2, <3>2
    <3>4. bound = inc  BY <1>0, <1>1, <3>3
    <3>5. CASE journal'.ring = journal.ring /\ journal'.source = journal.source  BY <3>1, <3>5
    <3>6. CASE ~(journal'.ring = journal.ring /\ journal'.source = journal.source)
      <4>1. /\ frame.kind \in {"record", "discard"} /\ ~Refused /\ journal'.source = rd.src
            /\ journal'.ring = [pos |-> frame.end, print |-> frame]
        BY <1>1, <3>1, <3>4, <3>6, CommitLog
      <4>2. frame.end \in Nat /\ journal.ring.pos \in Int /\ journal.ring.pos <= frame.end  BY <4>1, NotBack
      <4>3. journal'.ring.pos = frame.end  BY <4>1
      <4> QED BY <1>1, <3>1, <3>2, <3>4, <4>1, <4>2, <4>3
    <3> QED BY <3>5, <3>6
  <2>3. CASE i \notin Journalled(n)
    <3>1. n = rd.src /\ frame.kind = "record" /\ log'[i].frame = frame /\ ~Refused /\ ~Repeated
      BY <2>1, <2>3, CommitRecords
    <3>2. journal'.source = rd.src /\ journal'.ring = [pos |-> frame.end, print |-> frame]
      BY <3>1, CommitLog
    <3>3. frame.end \in Nat  BY <3>1, NotBack
    <3>4. journal'.ring.pos = frame.end /\ frame.end <= frame.end  BY <3>2, <3>3
    <3> QED BY <2>0, <3>1, <3>2, <3>4
  <2> QED BY <2>2, <2>3
<1>5. \A i \in 1 .. Len(log') : log'[i].src <= (IF cpc' = "down" THEN inc' ELSE bound')  BY <1>0, <1>a
<1>6. journal'.ring.pos # Unset /\ journal'.ring.print.kind = "record" =>
        \E i \in Journalled(journal.source)' : log'[i].frame = journal'.ring.print
  BY <1>b DEF Journalled
<1> QED BY <1>0, <1>5, <1>6, <1>c DEF LogInv

\* Every step keeps the log's invariant.
LEMMA LogNext ==
  ASSUME TInv, LockStep, LogInv, [Next]_vars
  PROVE  LogInv'
<1>0. inc \in Nat /\ bound \in Nat /\ (cpc # "down" => bound <= inc)
  BY RingTypes, ProcParts DEF TInv, TypeOK, LockStep
<1>1. \A i \in 1 .. Len(log) : log[i].src \in Nat
  <2>1. log \in Seq(Events)  BY JournalParts DEF TInv, TypeOK
  <2>2. \A i \in 1 .. Len(log) : log[i] \in Events  BY <2>1
  <2> QED BY <2>2 DEF Events
<1>2. \A i \in 1 .. Len(log) : log[i].src <= inc  BY <1>0, <1>1 DEF LogInv
<1>3. CASE Commit  BY <1>3, CommitKeepsLog
<1>4. CASE TmmRestart
  <2>1. inc' = inc + 1 /\ UNCHANGED <<procVars, journal, log>>  BY <1>4 DEF TmmRestart
  <2>2. \A i \in 1 .. Len(log) : log[i].src <= inc'  BY <1>0, <1>1, <1>2, <2>1
  <2>3. Journalled(inc)' = {}
    <3>1. Journalled(inc)' = Journalled(inc + 1)  BY <2>1 DEF Journalled
    <3> QED BY <3>1, FutureEmpty
  <2>4. Journalled(journal.source)' = Journalled(journal.source)  BY <2>1 DEF Journalled
  <2>5. UNCHANGED <<cpc, bound>>  BY <2>1 DEF procVars
  <2> QED BY <2>1, <2>2, <2>3, <2>4, <2>5 DEF LogInv
<1>5. CASE ReplaceJournal
  <2>1. journal' = NewJournalState(journal.id + 1) /\ UNCHANGED <<procVars, inc, log>>  BY <1>5 DEF ReplaceJournal
  <2>2. journal'.id = journal.id + 1 /\ journal'.ring = NoCheck  BY <2>1 DEF NewJournalState
  <2>3. journal.id \in Nat \ {0}  BY DEF TInv, TypeOK, JournalTypes
  <2>4. journal'.id # 1 /\ journal'.ring.pos = Unset  BY <2>2, <2>3 DEF NoCheck
  <2>5. UNCHANGED <<cpc, bound>>  BY <2>1 DEF procVars
  <2> QED BY <2>1, <2>4, <2>5 DEF LogInv
<1>6. CASE ~Commit /\ ~TmmRestart /\ ~ReplaceJournal
  <2>1. UNCHANGED <<inc, journal, log>>
    BY <1>6 DEF Next, vars, Producer, Start, Spawn, ReaderGone, Reader, Acknowledged, Poll, LoadDrops,
        LoadPositions, LoadHeader, StoreCons, Refuse, SendAck, Client, ClientRefused, ClientPage, Crash
  <2>2. cpc' = "down" \/ (cpc = "down" /\ bound' = inc) \/ (UNCHANGED bound /\ cpc # "down") \/ UNCHANGED <<cpc, bound>>
    BY <1>6 DEF Next, vars, procVars, Producer, Start, Spawn, ReaderGone, Reader, Acknowledged, Poll, LoadDrops,
        LoadPositions, LoadHeader, StoreCons, Refuse, SendAck, Client, ClientRefused, ClientPage, Crash, Down
  <2>3. \A i \in 1 .. Len(log) : log[i].src <= (IF cpc' = "down" THEN inc ELSE bound')
    BY <1>2, <2>2 DEF LogInv
  <2>4. Journalled(inc)' = Journalled(inc) /\ Journalled(journal.source)' = Journalled(journal.source)
    BY <2>1 DEF Journalled
  <2> QED BY <2>1, <2>3, <2>4 DEF LogInv
<1> QED BY <1>3, <1>4, <1>5, <1>6

-----------------------------------------------------------------------------
(* The journal against the ring.                                           *)

\* A committed record stays committed while nothing but the log's end and the
\* ring's end change.
LEMMA CommittedKept ==
  ASSUME TInv, NEW k, emitted'[k] = emitted[k], inc' = inc, Committed(k),
         \A i \in Journalled(inc) : i \in Journalled(inc)' /\ log'[i] = log[i]
  PROVE  Committed(k)'
<1>1. RecordFrame(k)' = RecordFrame(k)  BY DEF RecordFrame
<1>2. PICK i \in Journalled(inc) : log[i].frame = RecordFrame(k)  BY DEF Committed
<1>3. i \in Journalled(inc)' /\ log'[i].frame = RecordFrame(k)'  BY <1>1, <1>2
<1> QED BY <1>3 DEF Committed

\* The records of the running TMM in the log, and after a commit.
LEMMA CommitRunning ==
  ASSUME TInv, LockStep, Commit
  PROVE  /\ \A i \in Journalled(inc) : i \in Journalled(inc)' /\ log'[i] = log[i] /\ i < Len(log) + 1
         /\ \A i \in Journalled(inc)' :
              \/ i \in Journalled(inc)
              \/ /\ i = Len(log) + 1 /\ inc = rd.src /\ frame.kind = "record" /\ log'[i].frame = frame
                 /\ ~Refused /\ ~Repeated
<1>1. inc' = inc  BY DEF Commit
<1>2. PICK n : n = inc  OBVIOUS
<1>3. Journalled(inc)' = Journalled(n)' /\ Journalled(inc) = Journalled(n)  BY <1>1, <1>2 DEF Journalled
<1> QED BY <1>2, <1>3, CommitRecords

\* The record that is committed is the one at the cursor.
LEMMA CommitOffered ==
  ASSUME TInv, LockStep, Offered, Commit, ~crossed, ~overrun, rd.src = inc, frame.kind = "record"
  PROVE  rpc = "wait" /\ \E k \in 1 .. Len(emitted) : cons = emitted[k].begin /\ frame = RecordFrame(k)
<1>1. frame # None  BY CommitLog
<1>2. rpc = "wait"  BY <1>1 DEF LockStep
<1>3. PICK k \in 1 .. Len(emitted) :
      \/ cons = emitted[k].begin /\ (IF frame # None THEN frame = RecordFrame(k) ELSE Committed(k))
      \/ frame # None => frame.kind = "discard"
  BY <1>2 DEF Offered
<1> QED BY <1>1, <1>2, <1>3

\* What is offered stays what lies at the cursor until the cursor moves.
LEMMA OfferedNext ==
  ASSUME TInv, RingInv, LockStep, ReaderInv, Offered, LogInv, [Next]_vars
  PROVE  Offered'
<1> SUFFICES ASSUME ~crossed', ~overrun', rpc' \in {"wait", "store"}, rd'.src = inc' PROVE Offered'
  BY DEF Offered
<1> DEFINE P(k) == \/ /\ cons = emitted[k].begin /\ rd.step = emitted[k].end - emitted[k].begin
                      /\ IF frame # None THEN frame = RecordFrame(k) ELSE Committed(k)
                   \/ /\ cons = emitted[k].end /\ After(k) # cons /\ After(k) = cons + rd.step
                      /\ frame # None => frame.kind = "discard" /\ frame.end = After(k)
<1>a. ASSUME ~crossed, ~overrun, rpc \in {"wait", "store"}, rd.src = inc PROVE \E k \in 1 .. Len(emitted) : P(k)
  BY <1>a DEF Offered
<1>b. ASSUME NEW k \in 1 .. Len(emitted'), P(k)' PROVE Offered'
  BY <1>b DEF Offered
<1>0. prod \in Nat /\ cons \in Nat /\ Size \in Nat /\ inc \in Nat /\ rd \in ReaderRecord /\ rd.prod \in Nat
  BY RingTypes, ProcParts DEF TInv, TypeOK
<1>1. CASE Producer
  <2>1. Emit /\ UNCHANGED <<inc, procVars, log, crossed>>  BY <1>1 DEF Producer
  <2>2. UNCHANGED <<rpc, rd, frame>> /\ Journalled(inc)' = Journalled(inc)  BY <2>1 DEF procVars, Journalled
  <2>3. ~overrun /\ cons' = cons  BY <2>1, EmitRing
  <2>4. PICK k \in 1 .. Len(emitted) : P(k)  BY <1>a, <2>1, <2>2, <2>3
  <2>5. /\ k \in 1 .. Len(emitted') /\ emitted'[k] = emitted[k]
        /\ After(k) # emitted[k].end => After(k)' = After(k)
    BY <2>1, EmitRing
  <2>6. Committed(k) => Committed(k)'  BY <2>1, <2>2, <2>5, CommittedKept
  <2>7. RecordFrame(k)' = RecordFrame(k)  BY <2>5 DEF RecordFrame
  <2>8. P(k)'  BY <2>2, <2>3, <2>4, <2>5, <2>6, <2>7
  <2> HIDE DEF P
  <2> QED BY <1>b, <2>5, <2>8
<1>2. CASE Start \/ SendAck \/ Client \/ UNCHANGED vars \/ Acknowledged
  <2>1. UNCHANGED <<ringVars, inc, frame, log, crossed>>
    BY <1>2 DEF Start, SendAck, Client, ClientRefused, ClientPage, vars, procVars, Acknowledged, Fails
  <2>2. rpc \in {"wait", "store"} /\ rd' = rd
    BY <1>2 DEF Start, SendAck, Client, ClientRefused, ClientPage, vars, procVars, Acknowledged, Fails
  <2>3. PICK k \in 1 .. Len(emitted) : P(k)  BY <1>a, <2>1, <2>2 DEF ringVars
  <2>4. After(k)' = After(k) /\ RecordFrame(k)' = RecordFrame(k) /\ Committed(k)' = Committed(k)
    BY <2>1 DEF After, RecordFrame, Committed, Journalled, ringVars
  <2>5. P(k)' /\ k \in 1 .. Len(emitted')  BY <2>1, <2>2, <2>3, <2>4 DEF ringVars
  <2> HIDE DEF P
  <2> QED BY <1>b, <2>5
<1>3. CASE Spawn \/ ReaderGone \/ Refuse \/ Crash \/ Poll \/ LoadDrops \/ LoadPositions \/ StoreCons
  BY <1>3 DEF Spawn, ReaderGone, Refuse, Crash, Down, Poll, LoadDrops, LoadPositions, StoreCons, Fails
<1>4. CASE LoadHeader
  <2> DEFINE h == cell[Off(rd.cons)]
  <2>1. /\ rpc = "header" /\ rpc' = "wait" /\ rd' = [rd EXCEPT !.step = h.len]
        /\ frame' = [kind |-> IF h.discard THEN "discard" ELSE "record",
                     begin |-> rd.cons, end |-> rd.cons + h.len, id |-> h.id]
        /\ UNCHANGED <<ringVars, inc, log, crossed>>
    BY <1>4 DEF LoadHeader, Fails
  <2>2. rd'.src = rd.src /\ rd'.step = h.len  BY <1>0, <2>1 DEF ReaderRecord
  <2>3. UNCHANGED <<prod, cons, cell, emitted, overrun>>  BY <2>1 DEF ringVars
  <2>4. rd.cons = cons /\ cons < rd.prod /\ rd.prod <= prod  BY <2>1, <2>2, <2>3 DEF ReaderInv
  <2>5. Sound /\ cons < prod  BY <1>0, <2>1, <2>3, <2>4 DEF RingInv, Sound
  <2>6. PICK k \in 1 .. Len(emitted) :
           \/ cons = emitted[k].begin /\ cell[Off(cons)] = Header(k)
           \/ cons = emitted[k].end /\ After(k) # cons /\ cell[Off(cons)] = PadHeader(cons)
    BY <2>5, AtCursor
  <2>7. After(k)' = After(k) /\ RecordFrame(k)' = RecordFrame(k)  BY <2>3 DEF After, RecordFrame
  <2>8. emitted[k].begin \in Nat /\ emitted[k].end \in Nat  BY Landed
  <2>9. frame' # None  BY <2>1 DEF None
  <2>10. CASE cons = emitted[k].begin /\ cell[Off(cons)] = Header(k)
    <3>1. h = Header(k)  BY <2>4, <2>10
    <3>2. h.len = emitted[k].end - emitted[k].begin /\ h.discard = FALSE /\ h.id = emitted[k].id
      BY <3>1 DEF Header
    <3>3. cons + h.len = emitted[k].end  BY <2>8, <2>10, <3>2
    <3>4. frame' = RecordFrame(k)  BY <2>1, <2>4, <2>10, <3>2, <3>3 DEF RecordFrame
    <3>5. P(k)'  BY <2>2, <2>3, <2>7, <2>9, <2>10, <3>2, <3>4
    <3> HIDE DEF P
    <3> QED BY <1>b, <2>3, <3>5
  <2>11. CASE cons = emitted[k].end /\ After(k) # cons /\ cell[Off(cons)] = PadHeader(cons)
    <3>1. h = PadHeader(cons)  BY <2>4, <2>11
    <3>2. h.len = Size - Off(cons) /\ h.discard = TRUE  BY <3>1 DEF PadHeader
    <3>3. After(k) = cons + Size - Off(cons)  BY <2>5, <2>11 DEF Sound, Layout, Follows
    <3>4. cons + h.len = After(k)
      <4>1. Off(cons) \in Nat  BY <1>0, OffParts
      <4>2. \A c, s, o \in Nat : c + (s - o) = c + s - o  OBVIOUS
      <4> QED BY <1>0, <3>2, <3>3, <4>1, <4>2
    <3>5. frame'.kind = "discard" /\ frame'.end = After(k)  BY <2>1, <2>4, <3>2, <3>4
    <3>6. P(k)'  BY <2>2, <2>3, <2>7, <2>9, <2>11, <3>4, <3>5
    <3> HIDE DEF P
    <3> QED BY <1>b, <2>3, <3>6
  <2> QED BY <2>6, <2>10, <2>11
<1>5. CASE Commit
  <2>1. UNCHANGED <<ringVars, inc, rpc, rd, crossed>> /\ frame' = None  BY <1>5 DEF Commit
  <2>2. UNCHANGED <<prod, cons, emitted, overrun>>  BY <2>1 DEF ringVars
  <2>3. frame # None /\ rpc = "wait"  BY <1>5, <2>1, CommitLog
  <2>4. PICK k \in 1 .. Len(emitted) : P(k)  BY <1>a, <2>1, <2>2
  <2>5. After(k)' = After(k) /\ RecordFrame(k)' = RecordFrame(k)  BY <2>2 DEF After, RecordFrame
  <2>6. ASSUME frame = RecordFrame(k) PROVE Committed(k)'
    <3>0. frame.kind = "record"  BY <2>6 DEF RecordFrame
    <3>1. \E i \in Journalled(inc)' : log'[i].frame = frame
      <4>1. CASE UNCHANGED <<journal, log>>
        <5>1. Repeated /\ journal.source = rd.src  BY <1>5, <3>0, <4>1, CommitLog
        <5>2. journal.ring.pos = frame.end /\ journal.ring.print = frame
          BY <3>0, <5>1 DEF Repeated, Position, Previous
        <5>3. frame.end \in Nat
          <6>1. frame \in Frames \union {None}  BY ProcParts DEF TInv, TypeOK
          <6> QED BY <3>0, <6>1, FrameKinds
        <5>4. journal.ring.pos # Unset  BY <5>2, <5>3 DEF Unset
        <5>5. PICK i \in Journalled(journal.source) : log[i].frame = frame
          BY <3>0, <5>2, <5>4 DEF LogInv
        <5>6. journal.source = inc  BY <2>1, <5>1
        <5>7. i \in Journalled(inc)' /\ log'[i] = log[i]  BY <1>5, <5>5, <5>6, CommitRunning
        <5> QED BY <5>5, <5>7
      <4>2. CASE ~UNCHANGED <<journal, log>>
        <5>1. /\ Len(log') = Len(log) + 1 /\ Len(log) \in Nat
              /\ log'[Len(log) + 1].src = rd.src
              /\ log'[Len(log) + 1].kind = "record" /\ log'[Len(log) + 1].frame = frame
          BY <1>5, <3>0, <4>2, CommitLog
        <5>2. Len(log) + 1 \in Journalled(inc)'
          <6>1. Len(log) + 1 \in 1 .. Len(log')  BY <5>1
          <6> QED BY <2>1, <5>1, <6>1 DEF Journalled
        <5> QED BY <5>1, <5>2
      <4> QED BY <4>1, <4>2
    <3> QED BY <2>5, <2>6, <3>1 DEF Committed
  <2>7. P(k)'  BY <2>1, <2>2, <2>3, <2>4, <2>5, <2>6
  <2> HIDE DEF P
  <2> QED BY <1>b, <2>2, <2>7
<1>6. CASE ReplaceJournal
  <2>1. cpc = "down" /\ UNCHANGED procVars  BY <1>6 DEF ReplaceJournal
  <2> QED BY <2>1 DEF LockStep, procVars
<1>7. CASE TmmRestart
  <2>1. inc' = inc + 1 /\ UNCHANGED procVars  BY <1>7 DEF TmmRestart
  <2>2. UNCHANGED <<rpc, rd>>  BY <2>1 DEF procVars
  <2>3. rd.src <= inc /\ rd.src \in Nat  BY <2>2, ReaderUp
  <2> QED BY <1>0, <2>1, <2>2, <2>3
<1> QED BY <1>1, <1>2, <1>3, <1>4, <1>5, <1>6, <1>7 DEF Next, Reader

\* The records lie in the ring in the order they landed.
LEMMA InOrder ==
  ASSUME TInv, Layout, NEW k \in 1 .. Len(emitted), NEW m \in 1 .. Len(emitted)
  PROVE  /\ k < m => emitted[k].end <= emitted[m].begin /\ After(k) <= emitted[m].begin
         /\ emitted[m].begin <= emitted[k].begin => m <= k
         /\ emitted[m].end <= emitted[k].end => m <= k
<1>1. /\ emitted[k].begin \in Nat /\ emitted[k].end \in Nat /\ emitted[m].begin \in Nat /\ emitted[m].end \in Nat
      /\ k \in Nat /\ m \in Nat /\ k >= 1 /\ Len(emitted) \in Nat /\ m <= Len(emitted)
  BY Landed
<1>2. emitted[k].begin < emitted[k].end /\ emitted[m].begin < emitted[m].end  BY DEF Layout
<1>3. k < m => emitted[k].end <= emitted[m].begin  BY DEF Layout
<1>4. ASSUME k < m PROVE After(k) <= emitted[m].begin
  <2>1. k < Len(emitted)  BY <1>1, <1>4
  <2>2. k + 1 \in 1 .. Len(emitted) /\ After(k) = emitted[k + 1].begin  BY <2>1, AfterFacts
  <2>3. emitted[k + 1].begin \in Nat /\ emitted[k + 1].end \in Nat  BY <2>2, Landed
  <2>4. CASE k + 1 = m  BY <1>1, <2>2, <2>4
  <2>5. CASE k + 1 # m
    <3>1. k + 1 < m  BY <1>1, <1>4, <2>5
    <3>2. emitted[k + 1].end <= emitted[m].begin /\ emitted[k + 1].begin < emitted[k + 1].end
      BY <2>2, <3>1 DEF Layout
    <3> QED BY <1>1, <2>2, <2>3, <3>2
  <2> QED BY <2>4, <2>5
<1>5. \A kb, ke, mb, me \in Nat : kb < ke /\ mb < me /\ ke <= mb => ~(mb <= kb) /\ ~(me <= ke)  OBVIOUS
<1>6. k < m => ~(emitted[m].begin <= emitted[k].begin) /\ ~(emitted[m].end <= emitted[k].end)
  BY <1>1, <1>2, <1>3, <1>5
<1>7. ~(k < m) => m <= k  BY <1>1
<1> QED BY <1>3, <1>4, <1>6, <1>7

\* What a step of the cursor passes.
LEMMA StoreFacts ==
  ASSUME TInv, RingInv, LockStep, ReaderInv, Offered, StoreCons, ~crossed, ~overrun, cons' # cons
  PROVE  Sound /\ cons <= cons' /\ cons' \in Nat /\
         \E k \in 1 .. Len(emitted) :
           \/ cons = emitted[k].begin /\ cons' = emitted[k].end /\ Committed(k)
           \/ cons = emitted[k].end /\ cons' = After(k)
<1>0. cons \in Nat /\ rd.step \in Nat /\ rd.cons \in Nat  BY RingTypes, ProcParts DEF TInv, TypeOK
<1>1. rpc = "store" /\ cons = rd.cons /\ cons' = rd.cons + rd.step  BY DEF StoreCons
<1>2. Sound  BY DEF RingInv, Sound
<1>3. rd.src = inc  BY <1>1 DEF ReaderInv, Window
<1>4. frame = None  BY <1>1 DEF LockStep
<1>5. PICK k \in 1 .. Len(emitted) :
      \/ cons = emitted[k].begin /\ rd.step = emitted[k].end - emitted[k].begin /\ Committed(k)
      \/ cons = emitted[k].end /\ After(k) = cons + rd.step
  BY <1>1, <1>3, <1>4 DEF Offered
<1>6. emitted[k].begin \in Nat /\ emitted[k].end \in Nat  BY Landed
<1>7. cons <= cons' /\ cons' \in Nat  BY <1>0, <1>1
<1>8. CASE cons = emitted[k].begin /\ rd.step = emitted[k].end - emitted[k].begin /\ Committed(k)
  <2>1. \A b, e \in Nat : b + (e - b) = e  OBVIOUS
  <2>2. cons' = emitted[k].end  BY <1>1, <1>6, <1>8, <2>1
  <2> QED BY <1>2, <1>7, <1>8, <2>2
<1>9. CASE cons = emitted[k].end /\ After(k) = cons + rd.step  BY <1>1, <1>2, <1>7, <1>9
<1> QED BY <1>5, <1>8, <1>9

\* Every step keeps the ring sound.
LEMMA RingNext ==
  ASSUME TInv, RingInv, LockStep, ReaderInv, Offered, [Next]_vars
  PROVE  RingInv'
<1> SUFFICES ASSUME ~crossed', ~overrun' PROVE Sound'
  BY DEF RingInv, Sound
<1>a. ASSUME UNCHANGED ringVars, ~crossed PROVE Sound'
  <2>1. UNCHANGED <<prod, cons, cell, epc, emit, emitted, overrun>>  BY <1>a DEF ringVars
  <2>2. Sound  BY <1>a, <2>1 DEF RingInv, Sound
  <2>3. \A k : After(k)' = After(k) /\ Header(k)' = Header(k)  BY <2>1 DEF After, Header
  <2>4. Layout'  BY <2>1, <2>2, <2>3 DEF Sound, Layout
  <2>5. Cursor'  BY <2>1, <2>2, <2>3 DEF Sound, Cursor
  <2>6. Intact'  BY <2>1, <2>2, <2>3 DEF Sound, Intact, PadHeader
  <2>7. Emitting'  BY <2>1, <2>2 DEF Sound, Emitting, PadHeader
  <2> QED BY <2>4, <2>5, <2>6, <2>7 DEF Sound
<1>1. CASE Producer
  <2>1. Emit /\ crossed' = crossed  BY <1>1 DEF Producer
  <2> QED BY <2>1, EmitRing
<1>2. CASE StoreCons
  <2>1. UNCHANGED <<prod, drops, cell, epc, emit, emitted, overrun, crossed>>  BY <1>2 DEF StoreCons
  <2>2. CASE cons' = cons  BY <1>a, <2>1, <2>2 DEF ringVars
  <2>3. CASE cons' # cons
    <3>1. PICK k \in 1 .. Len(emitted) : cons' = emitted[k].end \/ cons' = After(k)
      BY <1>2, <2>1, <2>3, StoreFacts
    <3>2. Sound /\ cons <= cons' /\ cons' \in Nat  BY <1>2, <2>1, <2>3, StoreFacts
    <3> QED BY <2>1, <3>1, <3>2, ConsRing
  <2> QED BY <2>2, <2>3
<1>3. CASE TmmRestart
  <2>1. /\ prod' = 0 /\ cons' = 0 /\ epc' = "idle" /\ emitted' = << >>  BY <1>3 DEF TmmRestart, RingReset
  <2>2. Len(emitted') = 0 /\ 1 .. Len(emitted') = {}  BY <2>1
  <2>3. Layout'  BY <2>1, <2>2 DEF Layout
  <2>4. Size \in Nat  BY RingTypes
  <2>5. Cursor'  BY <2>1, <2>4 DEF Cursor
  <2>6. Intact'  BY <2>2 DEF Intact
  <2>7. Emitting'  BY <2>1 DEF Emitting
  <2> QED BY <2>3, <2>5, <2>6, <2>7 DEF Sound
<1>4. CASE ~Producer /\ ~StoreCons /\ ~TmmRestart
  <2>1. UNCHANGED <<ringVars, crossed>>
    BY <1>4 DEF Next, vars, Start, Spawn, ReaderGone, Reader, Acknowledged, Poll, LoadDrops, LoadPositions,
        LoadHeader, Commit, Refuse, SendAck, Client, ClientRefused, ClientPage, Crash, ReplaceJournal
  <2> QED BY <1>a, <2>1
<1> QED BY <1>1, <1>2, <1>3, <1>4

\* Every step keeps the records in the log in order, up to the cursor and
\* without a hole before it.
LEMMA RecordsNext ==
  ASSUME TInv, RingInv, LockStep, ReaderInv, Offered, LogInv, RecordsInv, [Next]_vars
  PROVE  RecordsInv'
<1> SUFFICES ASSUME ~crossed', ~overrun' PROVE RecordsInv'
  BY DEF RecordsInv
<1>0. cons \in Nat /\ prod \in Nat /\ inc \in Nat /\ Len(log) \in Nat
  BY RingTypes, JournalParts DEF TInv, TypeOK
<1>1. CASE Producer
  <2>1. Emit /\ UNCHANGED <<inc, log, crossed>>  BY <1>1 DEF Producer
  <2>2. ~overrun /\ cons' = cons /\ Sound  BY <2>1, EmitRing
  <2>3. Journalled(inc)' = Journalled(inc)  BY <2>1 DEF Journalled
  <2>4. ASSUME NEW k \in 1 .. Len(emitted'), emitted'[k].end <= cons PROVE Committed(k)'
    <3>1. CASE k \in 1 .. Len(emitted)
      <4>1. emitted'[k] = emitted[k]  BY <2>1, <3>1, EmitRing
      <4>2. Committed(k)  BY <2>1, <2>2, <2>4, <3>1, <4>1 DEF RecordsInv
      <4> QED BY <2>1, <2>3, <4>1, <4>2, CommittedKept
    <3>2. CASE k \notin 1 .. Len(emitted)
      <4>1. prod < emitted'[k].end  BY <2>1, <3>2, EmitRing
      <4>2. cons <= prod  BY <2>2 DEF Sound, Cursor
      <4>3. emitted'[k].end \in Nat
        <5>1. emitted' \in Seq(LandRecord)  BY NextTypes DEF TInv, TypeOK, RingTypeOK, LandRecord
        <5>2. emitted'[k] \in LandRecord  BY <5>1
        <5> QED BY <5>2 DEF LandRecord
      <4> QED BY <1>0, <2>4, <4>1, <4>2, <4>3
    <3> QED BY <3>1, <3>2
  <2> QED BY <2>1, <2>2, <2>3, <2>4 DEF RecordsInv
<1>2. CASE StoreCons /\ cons' # cons
  <2>1. UNCHANGED <<prod, emitted, overrun, inc, log, crossed>>  BY <1>2 DEF StoreCons
  <2>2. Journalled(inc)' = Journalled(inc)  BY <2>1 DEF Journalled
  <2>3. Sound /\ cons <= cons' /\ cons' \in Nat  BY <1>2, <2>1, StoreFacts
  <2>4. ASSUME NEW i \in Journalled(inc) PROVE log[i].frame.begin <= cons'
    <3>1. log[i].frame.begin \in Nat /\ log[i].frame.begin <= cons  BY <2>1, <2>4, LogRecord DEF RecordsInv
    <3> QED BY <1>0, <2>3, <3>1
  <2>5. ASSUME NEW k \in 1 .. Len(emitted), emitted[k].end <= cons' PROVE Committed(k)
    <3>0. emitted[k].begin \in Nat /\ emitted[k].end \in Nat /\ k \in Nat  BY Landed
    <3>1. PICK m \in 1 .. Len(emitted) :
           \/ cons = emitted[m].begin /\ cons' = emitted[m].end /\ Committed(m)
           \/ cons = emitted[m].end /\ cons' = After(m)
      BY <1>2, <2>1, StoreFacts
    <3>2. m \in Nat /\ emitted[m].end \in Nat  BY Landed
    <3>3. emitted[k].end <= cons => Committed(k)  BY <2>1 DEF RecordsInv
    <3>4. Layout /\ emitted[k].begin < emitted[k].end  BY <2>3 DEF Sound, Layout
    <3>5. CASE cons = emitted[m].begin /\ cons' = emitted[m].end /\ Committed(m)
      <4>1. k <= m  BY <2>5, <3>4, <3>5, InOrder
      <4>2. CASE k = m  BY <3>5, <4>2
      <4>3. CASE k # m
        <5>1. k < m  BY <3>0, <3>2, <4>1, <4>3
        <5> QED BY <3>3, <3>4, <3>5, <5>1, InOrder
      <4> QED BY <4>2, <4>3
    <3>6. CASE cons = emitted[m].end /\ cons' = After(m)
      <4>1. ~(m < k)
        <5>1. ASSUME m < k PROVE FALSE
          <6>1. After(m) <= emitted[k].begin  BY <3>4, <5>1, InOrder
          <6>2. \A x, y, z \in Nat : x <= y /\ y < z => ~(z <= x)  OBVIOUS
          <6> QED BY <2>3, <2>5, <3>0, <3>4, <3>6, <6>1, <6>2
        <5> QED BY <5>1
      <4>2. CASE k = m
        <5>1. emitted[k].end <= cons  BY <1>0, <3>6, <4>2
        <5> QED BY <3>3, <5>1
      <4>3. CASE k < m
        <5>1. emitted[k].end <= emitted[m].begin /\ emitted[m].begin < emitted[m].end /\ emitted[m].begin \in Nat
          BY <3>4, <4>3, InOrder, Landed DEF Layout
        <5>2. emitted[k].end <= cons  BY <3>0, <3>2, <3>6, <5>1
        <5> QED BY <3>3, <5>2
      <4>4. k = m \/ k < m  BY <3>0, <3>2, <4>1
      <4> QED BY <4>2, <4>3, <4>4
    <3> QED BY <3>1, <3>5, <3>6
  <2>6. \A k : Committed(k)' = Committed(k)  BY <2>1, <2>2 DEF Committed, RecordFrame
  <2> QED BY <2>1, <2>2, <2>4, <2>5, <2>6 DEF RecordsInv
<1>3. CASE Commit
  <2>1. UNCHANGED <<ringVars, inc, crossed>>  BY <1>3 DEF Commit
  <2>2. UNCHANGED <<cons, emitted, overrun>>  BY <2>1 DEF ringVars
  <2>3. /\ \A i \in Journalled(inc) : i \in Journalled(inc)' /\ log'[i] = log[i] /\ i < Len(log) + 1
        /\ \A i \in Journalled(inc)' :
              \/ i \in Journalled(inc)
              \/ i = Len(log) + 1 /\ log'[i].frame.begin = cons
    <3>1. ASSUME inc = rd.src, frame.kind = "record" PROVE frame.begin = cons
      <4>1. PICK k \in 1 .. Len(emitted) : cons = emitted[k].begin /\ frame = RecordFrame(k)
        BY <1>3, <2>1, <2>2, <3>1, CommitOffered
      <4> QED BY <4>1 DEF RecordFrame
    <3> QED BY <1>3, <3>1, CommitRunning
  <2>4. cons <= cons  BY <1>0
  <2>5. \A i \in Journalled(inc) : log[i].frame.begin <= cons  BY <2>1, <2>2 DEF RecordsInv
  <2>6. \A i \in Journalled(inc)' : log'[i].frame.begin <= cons'  BY <2>2, <2>3, <2>4, <2>5
  <2>7. ASSUME NEW g \in Journalled(inc)', NEW h \in Journalled(inc)', g < h
        PROVE  log'[g].frame.begin <= log'[h].frame.begin
    <3>1. CASE h = Len(log) + 1 /\ log'[h].frame.begin = cons  BY <2>2, <2>6, <3>1
    <3>2. CASE h \in Journalled(inc)
      <4>1. h \in Nat /\ h <= Len(log)  BY <3>2, LogRecord
      <4>2. g # Len(log) + 1  BY <1>0, <2>7, <4>1
      <4>3. g \in Journalled(inc)  BY <2>3, <4>2
      <4>4. log[g].frame.begin <= log[h].frame.begin  BY <2>1, <2>2, <2>7, <3>2, <4>3 DEF RecordsInv
      <4> QED BY <2>3, <3>2, <4>3, <4>4
    <3> QED BY <2>3, <3>1, <3>2
  <2>8. ASSUME NEW k \in 1 .. Len(emitted), emitted[k].end <= cons PROVE Committed(k)'
    <3>1. Committed(k)  BY <2>1, <2>2, <2>8 DEF RecordsInv
    <3> QED BY <2>1, <2>2, <2>3, <3>1, CommittedKept
  <2> QED BY <2>2, <2>6, <2>7, <2>8 DEF RecordsInv
<1>4. CASE TmmRestart
  <2>1. inc' = inc + 1 /\ UNCHANGED log /\ emitted' = << >>  BY <1>4 DEF TmmRestart, RingReset
  <2>2. Journalled(inc)' = {}
    <3>1. Journalled(inc)' = Journalled(inc + 1)  BY <2>1 DEF Journalled
    <3> QED BY <3>1, FutureEmpty
  <2>3. 1 .. Len(emitted') = {}  BY <2>1
  <2> QED BY <2>2, <2>3 DEF RecordsInv
<1>5. CASE ~Producer /\ ~(StoreCons /\ cons' # cons) /\ ~Commit /\ ~TmmRestart
  <2>1. UNCHANGED <<cons, emitted, overrun, inc, log, crossed>>
    BY <1>5 DEF Next, vars, ringVars, Start, Spawn, ReaderGone, Reader, Acknowledged, Poll, LoadDrops, LoadPositions,
        LoadHeader, StoreCons, Refuse, SendAck, Client, ClientRefused, ClientPage, Crash, ReplaceJournal
  <2>2. Journalled(inc)' = Journalled(inc)  BY <2>1 DEF Journalled
  <2>3. \A k : Committed(k)' = Committed(k)  BY <2>1, <2>2 DEF Committed, RecordFrame
  <2> QED BY <2>1, <2>2, <2>3 DEF RecordsInv
<1> QED BY <1>1, <1>2, <1>3, <1>4, <1>5

\* A commit keeps the records in the log exact.  The row before the new record
\* is the record before it: a later one would lie beyond the cursor, an earlier
\* one would leave a committed record behind it, and the same one is a repeated
\* frame, which only another journal can have seen.
LEMMA CommitExact ==
  ASSUME TInv, RingInv, LockStep, ReaderInv, Offered, LogInv, RecordsInv, JournalExact, Commit,
         ~crossed, ~overrun
  PROVE  JournalExact'
<1>0. /\ UNCHANGED <<ringVars, inc, crossed>> /\ journal'.id = journal.id /\ Len(log) \in Nat
  BY CommitLog DEF Commit
<1>1. UNCHANGED <<cons, emitted, overrun>>  BY <1>0 DEF ringVars
<1>2. /\ \A i \in Journalled(inc) : i \in Journalled(inc)' /\ log'[i] = log[i] /\ i < Len(log) + 1
      /\ \A i \in Journalled(inc)' :
           \/ i \in Journalled(inc)
           \/ /\ i = Len(log) + 1 /\ inc = rd.src /\ frame.kind = "record" /\ log'[i].frame = frame
              /\ ~Refused /\ ~Repeated
  BY CommitRunning
<1>3. \A k : RecordFrame(k)' = RecordFrame(k)  BY <1>1 DEF RecordFrame
<1>4. \A i \in Journalled(inc) : i \in Nat /\ i <= Len(log) /\ log[i].frame.begin \in Nat /\ log[i].frame.end \in Nat
  BY LogRecord
<1>5. \A i \in Journalled(inc)' : i \in Nat
  BY <1>0, <1>2, <1>4
<1> DEFINE E(i, k) ==
      /\ log[i].frame = RecordFrame(k)
      /\ (\A h \in Journalled(inc) : h >= i) => k = 1
      /\ \A h \in Journalled(inc) :
           h < i /\ (\A g \in Journalled(inc) : g <= h \/ g >= i) =>
             \/ k > 1 /\ log[h].frame = RecordFrame(k - 1)
             \/ journal.id > 1 /\ log[h].frame = RecordFrame(k)
<1>6. \A i \in Journalled(inc) : \E k \in 1 .. Len(emitted) : E(i, k)  BY DEF JournalExact
<1>7. ASSUME NEW i \in Journalled(inc), NEW k \in 1 .. Len(emitted), E(i, k)
      PROVE  /\ log'[i].frame = RecordFrame(k)
             /\ (\A h \in Journalled(inc)' : h >= i) => k = 1
             /\ \A h \in Journalled(inc)' :
                  h < i /\ (\A g \in Journalled(inc)' : g <= h \/ g >= i) =>
                    \/ k > 1 /\ log'[h].frame = RecordFrame(k - 1)
                    \/ journal.id > 1 /\ log'[h].frame = RecordFrame(k)
  <2>1. log'[i].frame = RecordFrame(k) /\ ((\A h \in Journalled(inc)' : h >= i) => k = 1)
    BY <1>2, <1>7
  <2>2. ASSUME NEW h \in Journalled(inc)', h < i, \A g \in Journalled(inc)' : g <= h \/ g >= i
        PROVE  \/ k > 1 /\ log'[h].frame = RecordFrame(k - 1)
               \/ journal.id > 1 /\ log'[h].frame = RecordFrame(k)
    <3>1. i \in Nat /\ i <= Len(log) /\ h \in Nat  BY <1>4, <1>5, <1>7, <2>2
    <3>2. h # Len(log) + 1  BY <1>0, <2>2, <3>1
    <3>3. h \in Journalled(inc)  BY <1>2, <2>2, <3>2
    <3>4. \A g \in Journalled(inc) : g <= h \/ g >= i  BY <1>2, <2>2
    <3> QED BY <1>2, <1>7, <2>2, <3>3, <3>4
  <2> QED BY <2>1, <2>2
<1>8. ASSUME NEW i \in Journalled(inc)', i \notin Journalled(inc)
      PROVE  \E k \in 1 .. Len(emitted) :
               /\ log'[i].frame = RecordFrame(k)
               /\ (\A h \in Journalled(inc)' : h >= i) => k = 1
               /\ \A h \in Journalled(inc)' :
                    h < i /\ (\A g \in Journalled(inc)' : g <= h \/ g >= i) =>
                      \/ k > 1 /\ log'[h].frame = RecordFrame(k - 1)
                      \/ journal.id > 1 /\ log'[h].frame = RecordFrame(k)
  <2>1. i = Len(log) + 1 /\ inc = rd.src /\ frame.kind = "record" /\ log'[i].frame = frame /\ ~Refused /\ ~Repeated
    BY <1>2, <1>8
  <2>2. PICK k \in 1 .. Len(emitted) : cons = emitted[k].begin /\ frame = RecordFrame(k)
    BY <2>1, CommitOffered
  <2>3. /\ emitted[k].begin \in Nat /\ emitted[k].end \in Nat /\ k \in Nat /\ k >= 1 /\ k <= Len(emitted)
        /\ Len(emitted) \in Nat
    BY Landed
  <2>4. Layout  BY DEF RingInv
  <2>5. ASSUME k # 1 PROVE k - 1 \in 1 .. Len(emitted) /\ k > 1 /\ Committed(k - 1)
    <3>1. k - 1 \in 1 .. Len(emitted) /\ k - 1 < k /\ k > 1  BY <2>3, <2>5
    <3>2. emitted[k - 1].end <= emitted[k].begin  BY <2>4, <3>1, InOrder
    <3> QED BY <2>2, <3>1, <3>2 DEF RecordsInv
  <2>6. (\A h \in Journalled(inc)' : h >= i) => k = 1
    <3>1. ASSUME \A h \in Journalled(inc)' : h >= i, k # 1 PROVE FALSE
      <4>1. PICK g \in Journalled(inc) : TRUE  BY <2>5, <3>1 DEF Committed
      <4>2. g >= i /\ g \in Nat /\ g <= Len(log)  BY <1>2, <1>4, <3>1, <4>1
      <4> QED BY <1>0, <2>1, <4>2
    <3> QED BY <3>1
  <2>7. ASSUME NEW h \in Journalled(inc)', h < i, \A g \in Journalled(inc)' : g <= h \/ g >= i
        PROVE  \/ k > 1 /\ log'[h].frame = RecordFrame(k - 1)
               \/ journal.id > 1 /\ log'[h].frame = RecordFrame(k)
    <3>1. h \in Journalled(inc) /\ h \in Nat
      <4>1. h \in Nat /\ h # Len(log) + 1  BY <1>0, <1>5, <2>1, <2>7
      <4> QED BY <1>2, <2>7, <4>1
    <3>2. log'[h] = log[h]  BY <1>2, <3>1
    <3>3. \A g \in Journalled(inc) : g \in Nat /\ g <= h
      <4>1. \A g \in Journalled(inc) : (g <= h \/ g >= i) /\ g \in Nat /\ g <= Len(log)  BY <1>2, <1>4, <2>7
      <4> QED BY <1>0, <2>1, <4>1
    <3>4. PICK m \in 1 .. Len(emitted) : E(h, m)  BY <1>6, <3>1
    <3>5. log[h].frame = RecordFrame(m)  BY <3>4
    <3>6. log[h].frame.begin = emitted[m].begin /\ log[h].frame.end = emitted[m].end  BY <3>5 DEF RecordFrame
    <3>7. /\ emitted[m].begin \in Nat /\ emitted[m].end \in Nat /\ m \in Nat /\ m >= 1  BY Landed
    <3>8. m <= k
      <4>1. emitted[m].begin <= emitted[k].begin  BY <2>2, <3>1, <3>6 DEF RecordsInv
      <4> QED BY <2>4, <4>1, InOrder
    <3>9. CASE m = k
      <4>1. ASSUME journal.id = 1 PROVE FALSE
        <5>1. emitted[k].end <= journal.ring.pos  BY <3>1, <3>6, <3>9, <4>1 DEF LogInv
        <5>2. frame.end = emitted[k].end  BY <2>2 DEF RecordFrame
        <5>3. journal.ring.pos \in Int /\ journal.ring.pos <= frame.end /\ journal.ring.pos # frame.end
          BY <2>1, NotBack
        <5> QED BY <2>3, <5>1, <5>2, <5>3
      <4>2. journal.id \in Nat \ {0}  BY DEF TInv, TypeOK, JournalTypes
      <4>3. journal.id > 1  BY <4>1, <4>2
      <4> QED BY <3>2, <3>5, <3>9, <4>3
    <3>10. CASE m # k
      <4>1. m < k /\ k # 1  BY <2>3, <3>7, <3>8, <3>10
      <4>2. k - 1 \in 1 .. Len(emitted) /\ k > 1 /\ Committed(k - 1)  BY <2>5, <4>1
      <4>3. PICK g \in Journalled(inc) : log[g].frame = RecordFrame(k - 1)  BY <4>2 DEF Committed
      <4>4. log[g].frame.begin = emitted[k - 1].begin  BY <4>3 DEF RecordFrame
      <4>5. emitted[k - 1].begin \in Nat  BY <4>2, Landed
      <4>6. emitted[k - 1].begin <= emitted[m].begin
        <5>1. CASE g = h  BY <3>6, <4>4, <4>5, <5>1
        <5>2. CASE g # h
          <6>1. g < h  BY <3>1, <3>3, <4>3, <5>2
          <6> QED BY <3>1, <3>6, <4>3, <4>4, <6>1 DEF RecordsInv
        <5> QED BY <5>1, <5>2
      <4>7. k - 1 <= m  BY <2>4, <4>2, <4>6, InOrder
      <4>8. m = k - 1  BY <2>3, <3>7, <4>1, <4>7
      <4> QED BY <3>2, <3>5, <4>2, <4>8
    <3> QED BY <3>9, <3>10
  <2> QED BY <2>1, <2>2, <2>6, <2>7
<1>9. \A i \in Journalled(inc)' : \E k \in 1 .. Len(emitted) :
               /\ log'[i].frame = RecordFrame(k)
               /\ (\A h \in Journalled(inc)' : h >= i) => k = 1
               /\ \A h \in Journalled(inc)' :
                    h < i /\ (\A g \in Journalled(inc)' : g <= h \/ g >= i) =>
                      \/ k > 1 /\ log'[h].frame = RecordFrame(k - 1)
                      \/ journal.id > 1 /\ log'[h].frame = RecordFrame(k)
  <2> SUFFICES ASSUME NEW i \in Journalled(inc)'
               PROVE  \E k \in 1 .. Len(emitted) :
                 /\ log'[i].frame = RecordFrame(k)
                 /\ (\A h \in Journalled(inc)' : h >= i) => k = 1
                 /\ \A h \in Journalled(inc)' :
                      h < i /\ (\A g \in Journalled(inc)' : g <= h \/ g >= i) =>
                        \/ k > 1 /\ log'[h].frame = RecordFrame(k - 1)
                        \/ journal.id > 1 /\ log'[h].frame = RecordFrame(k)
    OBVIOUS
  <2>1. CASE i \in Journalled(inc)
    <3>1. PICK k \in 1 .. Len(emitted) : E(i, k)  BY <1>6, <2>1
    <3> HIDE DEF E
    <3> QED BY <1>7, <2>1, <3>1
  <2>2. CASE i \notin Journalled(inc)  BY <1>8, <2>2
  <2> QED BY <2>1, <2>2
<1> HIDE DEF E
<1> QED BY <1>0, <1>1, <1>3, <1>9 DEF JournalExact

\* Every step keeps the records in the log exact.
LEMMA ExactNext ==
  ASSUME TInv, RingInv, LockStep, ReaderInv, Offered, LogInv, RecordsInv, JournalExact, [Next]_vars
  PROVE  JournalExact'
<1> SUFFICES ASSUME ~crossed', ~overrun' PROVE JournalExact'
  BY DEF JournalExact
<1>1. CASE Producer
  <2>1. Emit /\ UNCHANGED <<inc, log, journal, crossed>>  BY <1>1 DEF Producer
  <2>2. /\ ~overrun /\ Len(emitted) \in Nat
        /\ \A k \in 1 .. Len(emitted) : k \in 1 .. Len(emitted') /\ emitted'[k] = emitted[k]
    BY <2>1, EmitRing
  <2>3. Journalled(inc)' = Journalled(inc)  BY <2>1 DEF Journalled
  <2>4. \A k \in 1 .. Len(emitted) : RecordFrame(k)' = RecordFrame(k)  BY <2>2 DEF RecordFrame
  <2>5. ASSUME NEW k \in 1 .. Len(emitted), k > 1 PROVE RecordFrame(k - 1)' = RecordFrame(k - 1)
    <3>1. k - 1 \in 1 .. Len(emitted)  BY <2>2, <2>5
    <3> QED BY <2>2, <3>1 DEF RecordFrame
  <2> QED BY <2>1, <2>2, <2>3, <2>4, <2>5 DEF JournalExact
<1>2. CASE Commit
  <2>1. UNCHANGED <<ringVars, crossed>>  BY <1>2 DEF Commit
  <2>2. ~crossed /\ ~overrun  BY <2>1 DEF ringVars
  <2> QED BY <1>2, <2>2, CommitExact
<1>3. CASE TmmRestart
  <2>1. inc' = inc + 1 /\ UNCHANGED log  BY <1>3 DEF TmmRestart
  <2>2. Journalled(inc)' = Journalled(inc + 1)  BY <2>1 DEF Journalled
  <2> QED BY <2>2, FutureEmpty DEF JournalExact
<1>4. CASE ~Producer /\ ~Commit /\ ~TmmRestart
  <2>1. UNCHANGED <<emitted, overrun, inc, log, crossed>>
    BY <1>4 DEF Next, vars, ringVars, Start, Spawn, ReaderGone, Reader, Acknowledged, Poll, LoadDrops, LoadPositions,
        LoadHeader, StoreCons, Refuse, SendAck, Client, ClientRefused, ClientPage, Crash, ReplaceJournal
  <2>2. journal.id > 1 => journal'.id > 1
    <3>1. CASE ReplaceJournal
      <4>1. journal'.id = journal.id + 1  BY <3>1 DEF ReplaceJournal, NewJournalState
      <4>2. journal.id \in Nat  BY JournalParts DEF TInv, TypeOK
      <4> QED BY <4>1, <4>2
    <3>2. CASE ~ReplaceJournal
      <4>1. journal' = journal
        BY <1>4, <3>2 DEF Next, vars, Start, Spawn, ReaderGone, Reader, Acknowledged, Poll, LoadDrops, LoadPositions,
          LoadHeader, StoreCons, Refuse, SendAck, Client, ClientRefused, ClientPage, Crash
      <4> QED BY <4>1
    <3> QED BY <3>1, <3>2
  <2>3. Journalled(inc)' = Journalled(inc)  BY <2>1 DEF Journalled
  <2>4. \A k : RecordFrame(k)' = RecordFrame(k)  BY <2>1 DEF RecordFrame
  <2> QED BY <2>1, <2>2, <2>3, <2>4 DEF JournalExact
<1> QED BY <1>1, <1>2, <1>3, <1>4

-----------------------------------------------------------------------------
(* The theorems.                                                           *)

\* The invariant holds at the start.
LEMMA InitInv == Init => CInv
<1> SUFFICES ASSUME Init PROVE CInv
  OBVIOUS
<1>1. TypeOK /\ CountInv  BY InitTypes DEF TInv
<1>2. /\ prod = 0 /\ cons = 0 /\ epc = "idle" /\ emitted = << >> /\ log = << >>
      /\ rpc = "off" /\ frame = None /\ ack = None /\ cpc = "down"
      /\ journal.ring = NoCheck
  BY DEF Init, RingInit
<1>3. 1 .. Len(emitted) = {} /\ 1 .. Len(log) = {}  BY <1>2
<1>4. \A n : Journalled(n) = {}  BY <1>3 DEF Journalled
<1>5. RingInv
  <2>1. Size \in Nat  BY RingAssumption DEF RingAssumption
  <2>2. Layout  BY <1>2, <1>3 DEF Layout
  <2>3. Cursor  BY <1>2, <2>1 DEF Cursor
  <2>4. Intact  BY <1>3 DEF Intact
  <2>5. Emitting  BY <1>2 DEF Emitting
  <2> QED BY <2>2, <2>3, <2>4, <2>5 DEF RingInv
<1>6. LockStep /\ ReaderInv /\ Offered  BY <1>2 DEF LockStep, ReaderInv, Window, Offered
<1>7. LogInv  BY <1>2, <1>3, <1>4 DEF LogInv, NoCheck
<1>8. RecordsInv /\ JournalExact  BY <1>3, <1>4 DEF RecordsInv, JournalExact
<1> QED BY <1>1, <1>5, <1>6, <1>7, <1>8 DEF CInv

\* Ring, reader, collector and journal keep their invariant through every
\* interleaving of emits, commits, acknowledgements, crashes, new journals and
\* TMM restarts.
THEOREM CollectorInvariance == Spec => []CInv
<1>1. CInv /\ [Next]_vars => CInv'
  <2> SUFFICES ASSUME CInv, [Next]_vars PROVE CInv'
    OBVIOUS
  <2>1. /\ TInv /\ RingInv /\ LockStep /\ ReaderInv /\ Offered /\ LogInv /\ RecordsInv /\ JournalExact
    BY DEF CInv, TInv
  <2>2. TInv' /\ LockStep' /\ ReaderInv'  BY <2>1, NextTypes, LockStepNext, ReaderNext
  <2>3. RingInv' /\ Offered' /\ LogInv'  BY <2>1, RingNext, OfferedNext, LogNext
  <2>4. RecordsInv' /\ JournalExact'  BY <2>1, RecordsNext, ExactNext
  <2> QED BY <2>2, <2>3, <2>4 DEF CInv, TInv
<1> QED BY <1>1, InitInv, PTL DEF Spec

\* The journal holds the records of the running TMM once each, from the first
\* one on, in order and with their positions: a crash between Journal.accept's
\* commit and the acknowledgement, or between the acknowledgement and the
\* reader's store to cons, neither repeats nor loses one.
THEOREM ExactJournal == Spec => []JournalExact
<1>1. CInv => JournalExact  BY DEF CInv
<1> QED BY <1>1, CollectorInvariance, PTL

\* The reader moves the ring's cursor only past records that a journal holds,
\* so what the producer may overwrite is never lost.
THEOREM NothingConsumedUnjournalled == Spec => []ConsumedIsJournalled
<1>1. CInv => ConsumedIsJournalled
  <2> SUFFICES ASSUME RecordsInv, ~crossed, ~overrun,
                      NEW k \in 1 .. Len(emitted), emitted[k].end <= cons
               PROVE  InJournal(emitted[k])
    BY DEF CInv, ConsumedIsJournalled
  <2>1. PICK i \in Journalled(inc) : log[i].frame = RecordFrame(k)  BY DEF RecordsInv, Committed
  <2>2. log[i].frame.id = emitted[k].id  BY <2>1 DEF RecordFrame
  <2> QED BY <2>2 DEF InJournal
<1> QED BY <1>1, CollectorInvariance, PTL
=============================================================================
