----------------------------- MODULE EgressRing -----------------------------
(***************************************************************************)
(* The egress ring of substrate/ls_ring.h with the STREAM policy, as a TMM *)
(* thread fills it through ls_tp_ring.h.                                   *)
(*                                                                         *)
(* Positions and lengths are counted in units of LS_RING_ALIGN; a header   *)
(* fits in one unit, so a pad always holds one.  A cell holds the header   *)
(* word last written at its offset and the identity of the record behind   *)
(* it; a record is identified by the number of its emit call.  The emit is *)
(* cut at its shared loads and stores.  `emitted' remembers what ls_ring_  *)
(* emit reported as landed, `overrun' whether padding ever went past the   *)
(* consumer; neither is in the code.                                       *)
(***************************************************************************)
EXTENDS Integers, Sequences, FiniteSets

CONSTANTS
  Size,      \* data_size
  Needs,     \* rounded sizes of the records emitted
  Word,      \* positions are unsigned numbers modulo Word (2^64)
  EmitMax    \* bound: emit calls in one behaviour

ASSUME RingAssumption ==
  /\ Size \in Nat \ {0} /\ Word \in Nat /\ Word > 2 * Size
  /\ Needs \subseteq Nat \ {0}
  /\ EmitMax \in Nat

VARIABLES
  prod, cons, drops,  \* struct ls_ring
  cell,               \* the data area
  epc, emit,          \* the emit in progress: where it is, its locals
  emitted,            \* what landed in this incarnation, in order
  overrun             \* padding passed the consumer of this incarnation

ringVars == <<prod, cons, drops, cell, epc, emit, emitted, overrun>>

Offsets == 0 .. Size - 1
Off(p)  == p % Size
Blank   == [busy |-> FALSE, discard |-> FALSE, len |-> 0, id |-> 0]
NoEmit  == [id |-> 0, need |-> 0, prod |-> 0]

RingInit ==
  /\ prod = 0 /\ cons = 0 /\ drops = 0
  /\ cell = [o \in Offsets |-> Blank]
  /\ epc = "idle" /\ emit = NoEmit
  /\ emitted = << >> /\ overrun = FALSE

\* TMM starts again and initialises the segment of its predecessor.
RingReset ==
  /\ prod' = 0 /\ cons' = 0 /\ drops' = 0
  /\ cell' = [o \in Offsets |-> Blank]
  /\ epc' = "idle" /\ emit' = [NoEmit EXCEPT !.id = emit.id]
  /\ emitted' = << >> /\ overrun' = FALSE

-----------------------------------------------------------------------------
(* ls_ring_emit.                                                           *)

\* Entry: a record that never fits is refused, prod is sampled.
EmitStart(need) ==
  /\ epc = "idle" /\ emit.id < EmitMax
  /\ need <= Size
  /\ emit' = [id |-> emit.id + 1, need |-> need, prod |-> prod]
  /\ epc' = IF Off(prod) + need > Size THEN "pad" ELSE "check"
  /\ UNCHANGED <<prod, cons, drops, cell, emitted, overrun>>

\* The DISCARD header at the old producer position ...
EmitPadHeader ==
  /\ epc = "pad"
  /\ cell' = [cell EXCEPT ![Off(emit.prod)] =
                [busy |-> FALSE, discard |-> TRUE, len |-> Size - Off(emit.prod), id |-> 0]]
  /\ epc' = "publish pad"
  /\ overrun' = (overrun \/ emit.prod - cons = Size)
  /\ UNCHANGED <<prod, cons, drops, emit, emitted>>

\* ... and the position behind it, before the room is looked at.
EmitPadPublish ==
  /\ epc = "publish pad"
  /\ LET p == emit.prod + Size - Off(emit.prod) IN
     /\ prod' = p /\ emit' = [emit EXCEPT !.prod = p]
     /\ overrun' = (overrun \/ p - cons > Size)
  /\ epc' = "check"
  /\ UNCHANGED <<cons, drops, cell, emitted>>

\* Mutated form: drops counts units, not records.
EmitCheckUnits ==
  /\ epc = "check"
  /\ \/ (emit.prod - cons + emit.need) % Word <= Size /\ epc' = "write" /\ UNCHANGED drops
     \/ (emit.prod - cons + emit.need) % Word > Size /\ epc' = "idle" /\ drops' = drops + emit.need
  /\ UNCHANGED <<prod, cons, cell, emit, emitted, overrun>>

Room(c) == (emit.prod - c + emit.need) % Word <= Size

\* A full ring drops the new record and counts it.
EmitCheck ==
  /\ epc = "check"
  /\ \/ Room(cons) /\ epc' = "write" /\ UNCHANGED drops
     \/ ~Room(cons) /\ epc' = "idle" /\ drops' = drops + 1
  /\ UNCHANGED <<prod, cons, cell, emit, emitted, overrun>>

\* The header with BUSY, then the record behind it.
EmitWrite ==
  /\ epc = "write"
  /\ cell' = [cell EXCEPT ![Off(emit.prod)] =
                [busy |-> TRUE, discard |-> FALSE, len |-> emit.need, id |-> emit.id]]
  /\ epc' = "commit"
  /\ UNCHANGED <<prod, cons, drops, emit, emitted, overrun>>

EmitCommit ==
  /\ epc = "commit"
  /\ cell' = [cell EXCEPT ![Off(emit.prod)].busy = FALSE]
  /\ epc' = "advance"
  /\ UNCHANGED <<prod, cons, drops, emit, emitted, overrun>>

EmitAdvance ==
  /\ epc = "advance"
  /\ prod' = emit.prod + emit.need
  /\ emitted' = Append(emitted, [id |-> emit.id, begin |-> emit.prod, end |-> emit.prod + emit.need])
  /\ epc' = "idle"
  /\ UNCHANGED <<cons, drops, cell, emit, overrun>>

Emit ==
  \/ \E n \in Needs : EmitStart(n)
  \/ EmitPadHeader \/ EmitPadPublish \/ EmitCheck
  \/ EmitWrite \/ EmitCommit \/ EmitAdvance

\* The steps that finish an emit once it has started.
EmitOn == EmitPadHeader \/ EmitPadPublish \/ EmitCheck \/ EmitWrite \/ EmitCommit \/ EmitAdvance

RingTypeOK ==
  /\ prod \in Nat /\ cons \in Nat /\ drops \in 0 .. EmitMax
  /\ cell \in [Offsets -> [busy : BOOLEAN, discard : BOOLEAN, len : 0 .. Size, id : 0 .. EmitMax]]
  /\ epc \in {"idle", "pad", "publish pad", "check", "write", "commit", "advance"}
  /\ emit \in [id : 0 .. EmitMax, need : {0} \union Needs, prod : Nat]
  /\ emitted \in Seq([id : 1 .. EmitMax, begin : Nat, end : Nat])
  /\ overrun \in BOOLEAN
=============================================================================
