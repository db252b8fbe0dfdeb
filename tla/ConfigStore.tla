---------------------------- MODULE ConfigStore -----------------------------
(***************************************************************************)
(* The configuration store of substrate/ls_config.h: one sequence-locked   *)
(* image per slot, written a word at a time by the control path and copied *)
(* a word at a time by data-path invocations, at most once per invocation. *)
(*                                                                         *)
(* The control path is one writer: bind and program revoke run on the      *)
(* prepare thread while the loader waits, publish and legacy revoke run on *)
(* the loader thread and only when no prepare is outstanding.  Clients     *)
(* learn a slot's identity with CONFIG_STATUS and publish against what     *)
(* they learned, possibly much later.  A restart of the process zeroes the *)
(* store and draws a new session.                                          *)
(*                                                                         *)
(* A handle (HANDLE_BIT | counter << 6 | slot) is the pair <<counter,      *)
(* slot>>.  A row is one word, and its content says whom it is meant for.  *)
(***************************************************************************)
EXTENDS Integers, FiniteSets

CONSTANTS
  Slots,          \* configuration slots in use
  Programs,       \* program hashes
  Clients,        \* publishers
  Threads,        \* data-path threads
  RowMax,         \* LS_CONFIG_ROWS
  SequenceLimit,  \* UINT64_MAX
  InstanceLimit,  \* the largest instance counter
  RevisionLimit,  \* bound: the revisions clients publish are 0 .. RevisionLimit
  SessionLimit,   \* bound: sessions, i.e. restarts of the process, in one behaviour
  NoProgram

ASSUME ConfigStoreAssumption ==
  /\ RowMax \in Nat \ {0}
  /\ SequenceLimit \in Nat /\ SequenceLimit % 2 = 1 /\ SequenceLimit >= 3
  /\ InstanceLimit \in Nat /\ RevisionLimit \in Nat /\ SessionLimit \in Nat \ {0}
  /\ NoProgram \notin Programs /\ Slots # {}

VARIABLES
  sequence,  \* slots[s].sequence
  words,     \* slots[s].words
  current,   \* slots[s].current: the revision and instance last written
  sha,       \* slots[s].program_sha256
  issued,    \* next_instance
  session,   \* the session of this process
  owner,     \* whom each instance was issued to (not in the code)
  wpc, wr,   \* the writer: where it is and the write it performs
  wnext,     \* its word index
  know,      \* what each client last learned from CONFIG_STATUS
  tpc,       \* the data-path threads: where each is
  view,      \* the ls_config_view of each, but for
  copy,      \* its image
  before,    \* the sequence number each read first
  tnext,     \* the word index of each
  answers    \* the snapshots its lookups were answered from (not in the code)

slotVars == <<sequence, words, current, sha, issued, session, owner>>
wrVars   == <<wpc, wr, wnext>>
thrVars  == <<tpc, view, copy, before, tnext, answers>>
vars     == <<slotVars, wrVars, know, thrVars>>

-----------------------------------------------------------------------------
(* Images.                                                                 *)

Words     == 0 .. RowMax + 2
Handles   == (1 .. InstanceLimit) \X Slots
NoHandle  == <<0, 0>>
NoRow     == [session |-> 0, program |-> NoProgram]
Rows      == [session : 0 .. SessionLimit, program : Programs \union {NoProgram}]

\* struct ls_config_image: revision, instance, entry count and rows, in the
\* order in which they are written and copied.
Image(revision, instance, entries, row) ==
  [w \in Words |-> CASE w = 0 -> revision
                     [] w = 1 -> instance
                     [] w = 2 -> entries
                     [] OTHER -> IF w - 2 <= entries THEN row ELSE NoRow]
ZeroImage == Image(0, NoHandle, 0, NoRow)
Revision(image) == image[0]
Instance(image) == image[1]
Entries(image)  == image[2]

NoView == [slot |-> CHOOSE s \in Slots : TRUE, attempted |-> FALSE, available |-> FALSE,
           handle |-> NoHandle]
NoWrite == [slot |-> CHOOSE s \in Slots : TRUE, image |-> ZeroImage, sha |-> NoProgram]
Unknown == [session |-> 0, slot |-> CHOOSE s \in Slots : TRUE, instance |-> NoHandle,
            revision |-> 0, sha |-> NoProgram]

Init ==
  /\ session = 1 /\ know = [c \in Clients |-> Unknown]
  /\ sequence = [s \in Slots |-> 0]
  /\ words = [s \in Slots |-> ZeroImage]
  /\ current = [s \in Slots |-> [revision |-> 0, instance |-> NoHandle]]
  /\ sha = [s \in Slots |-> NoProgram]
  /\ issued = 0
  /\ owner = [h \in Handles |-> NoProgram]
  /\ wpc = "idle" /\ wr = NoWrite /\ wnext = 0
  /\ tpc = [t \in Threads |-> "idle"]
  /\ view = [t \in Threads |-> NoView]
  /\ copy = [t \in Threads |-> ZeroImage]
  /\ before = [t \in Threads |-> 0]
  /\ tnext = [t \in Threads |-> 0]
  /\ answers = [t \in Threads |-> {}]

-----------------------------------------------------------------------------
(* ls_config_write, a word at a time.                                      *)

\* Unsigned 64-bit increment.
Inc(n) == IF n = SequenceLimit THEN 0 ELSE n + 1

\* ls_config_write refuses an interrupted write and the end of the sequence
\* space.
WriteAdmitted(s) == sequence[s] % 2 = 0 /\ sequence[s] <= SequenceLimit - 2

WriteBegin(s, image, p) ==
  /\ WriteAdmitted(s)
  /\ sequence' = [sequence EXCEPT ![s] = Inc(@)]
  /\ wr' = [slot |-> s, image |-> image, sha |-> p]
  /\ wnext' = 0
  /\ wpc' = "words"

\* Mutated form: one word too many is written.
WriteWordPast ==
  /\ wpc = "words"
  /\ words' = [words EXCEPT ![wr.slot][wnext] = wr.image[wnext]]
  /\ wnext' = wnext + 1
  /\ wpc' = IF wnext > RowMax + 2 THEN "end" ELSE "words"
  /\ UNCHANGED <<sequence, current, sha, issued, session, owner, wr, know, thrVars>>

WriteWord ==
  /\ wpc = "words"
  /\ words' = [words EXCEPT ![wr.slot][wnext] = wr.image[wnext]]
  /\ wnext' = wnext + 1
  /\ wpc' = IF wnext = RowMax + 2 THEN "end" ELSE "words"
  /\ UNCHANGED <<sequence, current, sha, issued, session, owner, wr, know, thrVars>>

\* The sequence number is made even; current and the program hash, which only
\* the control path reads, follow.
WriteEnd ==
  /\ wpc = "end"
  /\ sequence' = [sequence EXCEPT ![wr.slot] = Inc(@)]
  /\ current' = [current EXCEPT ![wr.slot] =
                   [revision |-> Revision(wr.image), instance |-> Instance(wr.image)]]
  /\ sha' = [sha EXCEPT ![wr.slot] = wr.sha]
  /\ wpc' = "idle" /\ wr' = NoWrite /\ wnext' = 0
  /\ UNCHANGED <<words, issued, session, owner, know, thrVars>>

-----------------------------------------------------------------------------
(* The operations of the control path.                                     *)

\* ls_config_new_instance
NewInstance(s) == <<issued + 1, s>>

\* A load draws an instance and, unless preparing the program fails, binds
\* the slot to it with an empty image.
Load(s, p) ==
  /\ wpc = "idle" /\ issued < InstanceLimit
  /\ issued' = NewInstance(s)[1]
  /\ owner' = [owner EXCEPT ![NewInstance(s)] = p]
  /\ \/ WriteBegin(s, Image(0, NewInstance(s), 0, NoRow), p)
     \/ UNCHANGED <<sequence, wrVars>>
  /\ UNCHANGED <<words, current, sha, session, know, thrVars>>

\* ls_config_revoke
Revoke(s) ==
  /\ wpc = "idle"
  /\ WriteBegin(s, ZeroImage, sha[s])
  /\ UNCHANGED <<words, current, sha, issued, session, owner, know, thrVars>>

\* CONFIG_STATUS
Status(c, s) ==
  /\ wpc = "idle" /\ current[s].instance # NoHandle
  /\ know' = [know EXCEPT ![c] =
                [session |-> session, slot |-> s, instance |-> current[s].instance,
                 revision |-> current[s].revision, sha |-> sha[s]]]
  /\ UNCHANGED <<slotVars, wrVars, thrVars>>

\* Mutated forms: the session, or the expected revision, is not compared.
MayPublishAnySession(r, s, v) ==
  /\ current[s].instance # NoHandle
  /\ r.instance = current[s].instance /\ r.sha = sha[s]
  /\ r.revision = current[s].revision /\ v > r.revision

MayPublishAnyRevision(r, s, v) ==
  /\ r.session = session
  /\ current[s].instance # NoHandle
  /\ r.instance = current[s].instance /\ r.sha = sha[s]
  /\ v > r.revision

\* The checks of ls_config_publish against the slot.
MayPublish(r, s, v) ==
  /\ r.session = session
  /\ current[s].instance # NoHandle
  /\ r.instance = current[s].instance /\ r.sha = sha[s]
  /\ r.revision = current[s].revision /\ v > r.revision

\* A client publishes n rows, made for the program it learned of, as revision v
\* to follow the revision it learned of.
Publish(c, n, v) ==
  LET r == know[c] IN
  /\ wpc = "idle"
  /\ MayPublish(r, r.slot, v)
  /\ WriteBegin(r.slot,
                Image(v, r.instance, n, [session |-> r.session, program |-> r.sha]),
                sha[r.slot])
  /\ UNCHANGED <<words, current, sha, issued, session, owner, know, thrVars>>

\* The process dies and starts again; clients keep what they know.
Restart ==
  /\ session < SessionLimit
  /\ session' = session + 1
  /\ sequence' = [s \in Slots |-> 0]
  /\ words' = [s \in Slots |-> ZeroImage]
  /\ current' = [s \in Slots |-> [revision |-> 0, instance |-> NoHandle]]
  /\ sha' = [s \in Slots |-> NoProgram]
  /\ issued' = 0
  /\ owner' = [h \in Handles |-> NoProgram]
  /\ wpc' = "idle" /\ wr' = NoWrite /\ wnext' = 0
  /\ tpc' = [t \in Threads |-> "idle"]
  /\ view' = [t \in Threads |-> NoView]
  /\ copy' = [t \in Threads |-> ZeroImage]
  /\ before' = [t \in Threads |-> 0]
  /\ tnext' = [t \in Threads |-> 0]
  /\ answers' = [t \in Threads |-> {}]
  /\ UNCHANGED know

-----------------------------------------------------------------------------
(* Data-path invocations: ls_config_begin and ls_config_lookup.            *)

ctlSide == <<slotVars, wrVars, know>>

\* ls_config_begin: a program that was issued instance h enters its VM.  Its
\* lookups pass the token that was embedded in it at load, which is h.
Begin(t, h) ==
  /\ tpc[t] = "idle" /\ owner[h] # NoProgram
  /\ tpc' = [tpc EXCEPT ![t] = "ready"]
  /\ view' = [view EXCEPT ![t] = [NoView EXCEPT !.slot = h[2], !.handle = h]]
  /\ UNCHANGED <<copy, before, tnext, answers, ctlSide>>

Absent == <<"absent">>
Answer(t, a) == answers' = [answers EXCEPT ![t] = @ \union {a}]

\* A further lookup is answered by the first one's outcome.
LookupAgain(t) ==
  /\ tpc[t] = "ready" /\ view[t].attempted
  /\ Answer(t, IF view[t].available THEN copy[t] ELSE Absent)
  /\ UNCHANGED <<tpc, view, copy, before, tnext, ctlSide>>

Lookup(t) ==
  /\ tpc[t] = "ready" /\ ~view[t].attempted
  /\ view' = [view EXCEPT ![t].attempted = TRUE]
  /\ tpc' = [tpc EXCEPT ![t] = "look"]
  /\ UNCHANGED <<copy, before, tnext, answers, ctlSide>>

\* Mutated forms: wait for the writer; try again in the next lookup.
LookupStartWaits(t) ==
  /\ tpc[t] = "look" /\ sequence[view[t].slot] % 2 = 0
  /\ before' = [before EXCEPT ![t] = sequence[view[t].slot]]
  /\ tnext' = [tnext EXCEPT ![t] = 0]
  /\ tpc' = [tpc EXCEPT ![t] = "copy"]
  /\ UNCHANGED <<view, copy, answers, ctlSide>>

LookupStartRetries(t) ==
  /\ tpc[t] = "look"
  /\ before' = [before EXCEPT ![t] = sequence[view[t].slot]]
  /\ tnext' = [tnext EXCEPT ![t] = 0]
  /\ IF sequence[view[t].slot] % 2 = 1
       THEN /\ tpc' = [tpc EXCEPT ![t] = "ready"] /\ Answer(t, Absent)
            /\ view' = [view EXCEPT ![t].attempted = FALSE]
       ELSE tpc' = [tpc EXCEPT ![t] = "copy"] /\ UNCHANGED <<answers, view>>
  /\ UNCHANGED <<copy, ctlSide>>

\* The first load of the sequence number; an odd one ends the attempt.
LookupStart(t) ==
  /\ tpc[t] = "look"
  /\ before' = [before EXCEPT ![t] = sequence[view[t].slot]]
  /\ tnext' = [tnext EXCEPT ![t] = 0]
  /\ IF sequence[view[t].slot] % 2 = 1
       THEN tpc' = [tpc EXCEPT ![t] = "ready"] /\ Answer(t, Absent)
       ELSE tpc' = [tpc EXCEPT ![t] = "copy"] /\ UNCHANGED answers
  /\ UNCHANGED <<view, copy, ctlSide>>

LookupCopy(t) ==
  /\ tpc[t] = "copy"
  /\ copy' = [copy EXCEPT ![t][tnext[t]] = words[view[t].slot][tnext[t]]]
  /\ tnext' = [tnext EXCEPT ![t] = @ + 1]
  /\ tpc' = [tpc EXCEPT ![t] = IF tnext[t] = RowMax + 2 THEN "check" ELSE "copy"]
  /\ UNCHANGED <<view, before, answers, ctlSide>>

\* Mutated form: the sequence number is not loaded again.
SnapshotGoodUnchecked(t) ==
  /\ Instance(copy[t]) = view[t].handle
  /\ Revision(copy[t]) # 0

\* The checks after the copy.
SnapshotGood(t) ==
  /\ before[t] = sequence[view[t].slot]
  /\ Instance(copy[t]) = view[t].handle
  /\ Revision(copy[t]) # 0

LookupCheck(t) ==
  /\ tpc[t] = "check"
  /\ tpc' = [tpc EXCEPT ![t] = "ready"]
  /\ \/ /\ SnapshotGood(t)
        /\ view' = [view EXCEPT ![t].available = TRUE]
        /\ Answer(t, copy[t])
     \/ /\ ~SnapshotGood(t)
        /\ Answer(t, Absent)
        /\ UNCHANGED view
  /\ UNCHANGED <<copy, before, tnext, ctlSide>>

\* The invocation ends.
End(t) ==
  /\ tpc[t] = "ready"
  /\ tpc' = [tpc EXCEPT ![t] = "idle"]
  /\ view' = [view EXCEPT ![t] = NoView]
  /\ copy' = [copy EXCEPT ![t] = ZeroImage]
  /\ before' = [before EXCEPT ![t] = 0]
  /\ tnext' = [tnext EXCEPT ![t] = 0]
  /\ answers' = [answers EXCEPT ![t] = {}]
  /\ UNCHANGED ctlSide

-----------------------------------------------------------------------------
Control ==
  \/ WriteWord \/ WriteEnd
  \/ \E s \in Slots : Revoke(s) \/ \E p \in Programs : Load(s, p)
  \/ \E c \in Clients : (\E s \in Slots : Status(c, s)) \/ \E n \in 0 .. RowMax, v \in 0 .. RevisionLimit : Publish(c, n, v)

Looking(t) == LookupStart(t) \/ LookupCopy(t) \/ LookupCheck(t)

Invocation(t) ==
  \/ \E h \in Handles : Begin(t, h)
  \/ Lookup(t) \/ LookupAgain(t) \/ Looking(t) \/ End(t)

Next == Control \/ Restart \/ \E t \in Threads : Invocation(t)

Spec == Init /\ [][Next]_vars

\* Only the looking thread is assumed to run: the writer may stop for good in
\* the middle of a write.
FairSpec == Spec /\ \A t \in Threads : WF_vars(Looking(t))
-----------------------------------------------------------------------------
(* Properties                                                              *)

HandleRange  == Handles \union {NoHandle}
ProgramRange == Programs \union {NoProgram}

\* Every word in its range; a torn image is still one.
IsImage(image) ==
  /\ image = [w \in Words |-> image[w]]
  /\ Revision(image) \in Nat /\ Instance(image) \in HandleRange /\ Entries(image) \in 0 .. RowMax
  /\ \A w \in 3 .. RowMax + 2 : image[w] \in Rows

StoreTypes ==
  /\ sequence \in [Slots -> 0 .. SequenceLimit]
  /\ words = [s \in Slots |-> words[s]] /\ \A s \in Slots : IsImage(words[s])
  /\ current \in [Slots -> [revision : Nat, instance : HandleRange]]
  /\ sha \in [Slots -> ProgramRange]
  /\ issued \in 0 .. InstanceLimit /\ session \in 1 .. SessionLimit
  /\ owner \in [Handles -> ProgramRange]
WriterTypes ==
  /\ wpc \in {"idle", "words", "end"}
  /\ wnext \in 0 .. RowMax + 3 /\ (wpc = "words" => wnext \in Words)
  /\ wr.slot \in Slots /\ IsImage(wr.image) /\ wr.sha \in ProgramRange
  /\ know \in [Clients -> [session : 0 .. SessionLimit, slot : Slots, instance : HandleRange,
                           revision : Nat, sha : ProgramRange]]
ReaderTypes ==
  /\ tpc \in [Threads -> {"idle", "ready", "look", "copy", "check"}]
  /\ view \in [Threads -> [slot : Slots, attempted : BOOLEAN, available : BOOLEAN,
                           handle : HandleRange]]
  /\ before \in [Threads -> 0 .. SequenceLimit]
  /\ tnext \in [Threads -> 0 .. RowMax + 3]
  /\ \A t \in Threads : tpc[t] = "copy" => tnext[t] \in Words
  /\ answers = [t \in Threads |-> answers[t]]
  /\ copy = [t \in Threads |-> copy[t]] /\ \A t \in Threads : IsImage(copy[t])

TypeOK == StoreTypes /\ WriterTypes /\ ReaderTypes

\* The copy a thread has made is the whole content of its slot, which nobody is
\* writing and which is still bound to the instance the thread looks up.
HoldsNow(t) ==
  LET s == view[t].slot IN
  /\ copy[t] = words[s]
  /\ Instance(words[s]) = view[t].handle
  /\ wpc # "idle" => wr.slot # s

\* The seqlock of ls_config_write and ls_config_lookup: the image with which a
\* lookup succeeds is, at that very step, the whole content of the slot, with no
\* write under way in it, and the slot is still bound to the program's instance.
WholeAndCurrent ==
  [][\A t \in Threads : ~view[t].available /\ view'[t].available => HoldsNow(t)]_vars

\* The rows a program reads were made for that program, in this session: neither
\* a reload of the slot, nor a delayed publish, nor one left over from before a
\* restart (which issues the same instances again) gets rows to another program.
RowsMeantForProgram ==
  \A t \in Threads : view[t].available =>
    \A w \in 3 .. Entries(copy[t]) + 2 :
      copy[t][w] = [session |-> session, program |-> owner[view[t].handle]]

\* One snapshot per invocation: all lookups of one invocation are answered from
\* one image, or all find the configuration absent.
OneSnapshotPerCall == \A t \in Threads : Cardinality(answers[t]) <= 1

\* Of two publishes against the same status only one succeeds: a committed
\* revision is never replaced under its own number, and revisions of one
\* instance only grow.
RevisionsGrow ==
  [][\A s \in Slots :
       /\ current'[s].instance = current[s].instance /\ current[s].instance # NoHandle
       /\ current'[s] # current[s] \/ (wpc = "end" /\ wr.slot = s /\ wpc' = "idle")
       => current'[s].revision > current[s].revision]_vars

\* A reader never waits for the writer, not even for one that stopped in the
\* middle of a write: every lookup comes to an answer, unless a restart ends the
\* thread that makes it.
LookupEnds == \A t \in Threads : tpc[t] \in {"look", "copy", "check"} ~> tpc[t] \in {"ready", "idle"}

-----------------------------------------------------------------------------
(* The parts of the inductive invariant that ConfigStore_proofs uses.      *)

\* A slot's sequence number is odd exactly while it is being written, and a
\* write that was admitted has room for its second increment.
OddWhileWriting ==
  \A s \in Slots :
    IF wpc # "idle" /\ wr.slot = s
      THEN sequence[s] % 2 = 1 /\ sequence[s] < SequenceLimit
      ELSE sequence[s] % 2 = 0

\* What a copying thread has of a slot whose sequence number did not move is
\* what the slot holds.
CopiedSoFar ==
  \A t \in Threads : tpc[t] \in {"copy", "check"} =>
    LET s == view[t].slot IN
    /\ before[t] % 2 = 0 /\ before[t] <= sequence[s]
    /\ before[t] = sequence[s] =>
         \A w \in Words : w < tnext[t] \/ tpc[t] = "check" => copy[t][w] = words[s][w]

\* A snapshot is available only between lookups, after the one attempt.
AttemptState ==
  \A t \in Threads :
    /\ view[t].available => view[t].attempted /\ tpc[t] = "ready"
    /\ tpc[t] \in {"look", "copy", "check"} => view[t].attempted

\* The answers of an invocation are what its first lookup came to.
AnswersAgree ==
  \A t \in Threads :
    answers[t] \subseteq
      (IF tpc[t] = "ready" /\ view[t].attempted
         THEN {IF view[t].available THEN copy[t] ELSE Absent} ELSE {})

IInv == TypeOK /\ OddWhileWriting /\ CopiedSoFar /\ AttemptState /\ AnswersAgree
=============================================================================
