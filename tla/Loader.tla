------------------------------- MODULE Loader -------------------------------
(***************************************************************************)
(* The loader thread and the prepare handoff of substrate/ls_vm_load.c.    *)
(*                                                                         *)
(* The loader thread serves one connection at a time.  Whatever allocates  *)
(* is parked in g_prep and done by the prepare timer of TMM thread 0,      *)
(* while the loader polls for at most LS_PREP_WAIT_MS; a prepare that is   *)
(* late goes on beside the loader's later requests.                        *)
(*                                                                         *)
(* Requests are numbered in the order they arrive.  Number n names the     *)
(* scratch mapping of the connection and, for a program operation, the     *)
(* mapping its payload is copied into.  What a program operation does to   *)
(* the manager's state is the subject of ProgramManager; here it may       *)
(* succeed or be refused, and it may write the configuration store.        *)
(***************************************************************************)
EXTENDS Integers, FiniteSets

CONSTANTS
  SlotMax,     \* LS_LEGACY_SLOTS
  Programs,    \* signed legacy programs
  Ceiling,     \* the mode ceiling in the binding of each
  Target,      \* the function each is signed for
  RequestMax,  \* bound: connections served in one behaviour
  NoProgram, NoTarget

Slots   == 0 .. SlotMax - 1
DISABLE == 0
MONITOR == 1
ENFORCE == 2
Modes   == {DISABLE, MONITOR, ENFORCE}

ASSUME LoaderAssumption ==
  /\ SlotMax \in Nat \ {0} /\ RequestMax \in Nat
  /\ NoProgram \notin Programs
  /\ Ceiling \in [Programs -> Modes]
  /\ \A p \in Programs : Target[p] # NoTarget

VARIABLES
  prep,     \* g_prep.state
  g,        \* the request in g_prep, and its rc
  ppc,      \* the prepare thread: where it is
  slot,     \* g_slots[s]: the program and mode of each legacy slot
  target,   \* g_prep.targets[s]: the program whose record it holds
  hook,     \* the function whose text calls the slot, or NoTarget (.attached)
  lpc,      \* the loader thread: where it is
  msg,      \* the message it handles
  reply,    \* what it answers
  scratch,  \* the connections whose scratch mapping exists
  copies,   \* the requests whose payload mapping exists
  served,   \* connections accepted so far
  work,     \* the request the prepare thread started on (not in the code)
  done,     \* the request it last completed (not in the code)
  late      \* the loader has stopped waiting for some prepare (not in the code)

prepVars == <<g, ppc, work, done>>
hookVars == <<slot, target, hook>>
loadVars == <<lpc, msg, reply, scratch, served, late>>
vars     == <<prep, prepVars, hookVars, loadVars, copies>>

-----------------------------------------------------------------------------
\* Operations that wait for the prepare thread, and the ones that do not.
\* "program" stands for the six owned-program operations, "status" for every
\* operation that changes nothing.
Handed    == {"load", "bench", "program"}
LegacyOps == {"load", "bench", "set mode", "revoke", "arm", "disarm", "status"}
Ops       == LegacyOps \union {"program", "config"}

\* A message names a slot that may be out of range.
Messages == [op : Ops, slot : 0 .. SlotMax, prog : Programs \union {NoProgram}, mode : Modes]
NoMessage == [op |-> "status", slot |-> 0, prog |-> NoProgram, mode |-> DISABLE]
Replies   == {"none", "ok", "error", "timeout", "outstanding", "wedged"}

EmptySlot == [prog |-> NoProgram, mode |-> DISABLE]
Armed(s)  == slot[s].prog # NoProgram

Init ==
  /\ prep = "IDLE"
  /\ g = [n |-> 0, op |-> "bench", slot |-> 0, prog |-> NoProgram, mode |-> DISABLE, rc |-> -1]
  /\ ppc = "idle" /\ work = 0 /\ done = 0
  /\ slot = [s \in Slots |-> EmptySlot]
  /\ target = [s \in Slots |-> NoProgram]
  /\ hook = [s \in Slots |-> NoTarget]
  /\ lpc = "accept" /\ msg = NoMessage /\ reply = "none"
  /\ scratch = {} /\ copies = {} /\ served = 0 /\ late = FALSE

-----------------------------------------------------------------------------
(* The loader thread.                                                      *)

\* The messages clients send: only a load names a program, only a load and a
\* mode request a mode.
Sensible(m) ==
  /\ m.op = "load" <=> m.prog # NoProgram
  /\ m.op \notin {"load", "set mode"} => m.mode = DISABLE
  /\ m.op \in {"bench", "program", "config", "status"} => m.slot = 0

Accept(m) ==
  /\ lpc = "accept" /\ served < RequestMax
  /\ served' = served + 1
  /\ scratch' = scratch \union {served + 1}
  /\ msg' = m /\ lpc' = "handle" /\ reply' = "none"
  /\ UNCHANGED <<prep, prepVars, hookVars, copies, late>>

Say(r)  == lpc' = "answer" /\ reply' = r
Stay    == UNCHANGED <<prep, prepVars, copies, msg, scratch, served, late>>

\* The reply is sent, the scratch mapping released and the connection closed.
Answer ==
  /\ lpc = "answer"
  /\ lpc' = "accept" /\ msg' = NoMessage /\ reply' = "none"
  /\ scratch' = scratch \ {served}
  /\ UNCHANGED <<prep, prepVars, hookVars, copies, served, late>>

\* A short message, an oversized payload, a peer or a request a handler
\* refuses, and the operations that only report.
AnswerOnly ==
  /\ lpc = "handle"
  /\ Say("error") \/ (msg.op = "status" /\ Say("ok"))
  /\ UNCHANGED hookVars /\ Stay

\* Mutated form: one slot too many.
InRangeOffByOne(s) == s <= SlotMax

\* The check before the legacy operations.
InRange(s) == s < SlotMax

\* The context ABI gate of every legacy operation, and the build and expiry
\* gates of a load, reply and return.
GateRefuses ==
  /\ lpc = "handle" /\ msg.op \in LegacyOps
  /\ msg.op \in {"load", "set mode", "revoke"} => InRange(msg.slot)
  /\ lpc' = "accept" /\ msg' = NoMessage
  /\ UNCHANGED <<prep, prepVars, hookVars, copies, reply, scratch, served, late>>

\* A submit is admitted when nothing is outstanding.
SubmitAdmits(state) == state = "IDLE"

\* Mutated form: a program operation's payload stays in the scratch mapping.
CopyPayloadNot == UNCHANGED copies

CopyPayload ==
  copies' = IF msg.op = "program" THEN copies \union {served} ELSE copies

\* The state ls_prep_submit goes by: the late answer of a program operation
\* is dropped first.
Dropped == IF prep = "DONE" /\ g.op = "program" THEN "IDLE" ELSE prep

\* ls_prep_submit up to its wait.
Submit ==
  /\ lpc = "handle" /\ msg.op \in Handed
  /\ InRange(msg.slot)
  /\ \/ /\ SubmitAdmits(Dropped)
        /\ CopyPayload
        /\ g' = [n |-> served, op |-> msg.op, slot |-> msg.slot, prog |-> msg.prog,
                 mode |-> msg.mode, rc |-> -1]
        /\ prep' = "PENDING"
        /\ lpc' = "wait"
        /\ UNCHANGED reply
     \/ /\ ~SubmitAdmits(Dropped)
        /\ Say(IF Dropped = "DONE" THEN "wedged" ELSE "outstanding")
        /\ prep' = Dropped
        /\ UNCHANGED <<g, copies>>
  /\ UNCHANGED <<ppc, work, done, hookVars, msg, scratch, served, late>>

\* The mapping for a program operation's payload cannot be made.
SubmitNoMemory ==
  /\ lpc = "handle" /\ msg.op = "program" /\ SubmitAdmits(Dropped)
  /\ prep' = Dropped
  /\ Say("error")
  /\ UNCHANGED <<prepVars, hookVars, msg, scratch, copies, served, late>>

\* The poll finds DONE: the result is copied out and the handoff released.
TakeAnswer ==
  /\ lpc = "wait" /\ prep = "DONE"
  /\ Say(IF g.rc < 0 THEN "error" ELSE "ok")
  /\ prep' = "IDLE"
  /\ UNCHANGED <<prepVars, hookVars, msg, scratch, copies, served, late>>

\* Mutated forms: the loader polls for ever; it releases the handoff.
GiveUpNever == FALSE /\ UNCHANGED vars

GiveUpReleases ==
  /\ lpc = "wait"
  /\ Say("timeout")
  /\ late' = TRUE
  /\ prep' = "IDLE"
  /\ UNCHANGED <<prepVars, hookVars, msg, scratch, copies, served>>

\* The last poll found nothing; the request stays where it is.
GiveUp ==
  /\ lpc = "wait"
  /\ Say("timeout")
  /\ late' = TRUE
  /\ UNCHANGED <<prep, prepVars, hookVars, msg, scratch, copies, served>>

\* Mutated form: the signed ceiling is not looked at.
ModeAllowedValid(s, m) == m = DISABLE \/ target[s] # NoProgram

ModeAllowed(s, m) == m = DISABLE \/ (target[s] # NoProgram /\ m <= Ceiling[target[s]])

SetMode ==
  /\ lpc = "handle" /\ msg.op = "set mode"
  /\ InRange(msg.slot) /\ ModeAllowed(msg.slot, msg.mode)
  /\ slot' = [slot EXCEPT ![msg.slot].mode = msg.mode]
  /\ Say("ok")
  /\ UNCHANGED <<target, hook>> /\ Stay

\* Mutated form: an outstanding prepare is not looked at.
ConfigFreeAlways == TRUE

\* The configuration store is the loader's while nothing is outstanding.
ConfigFree == prep = "IDLE"

\* The mode is cleared at once; the slot's configuration only when no prepare
\* is outstanding.  (The reset of the map registry that may follow changes
\* nothing modelled here.)
Revoke ==
  /\ lpc = "handle" /\ msg.op = "revoke" /\ InRange(msg.slot)
  /\ slot' = [slot EXCEPT ![msg.slot].mode = DISABLE]
  /\ IF ConfigFree THEN lpc' = "config" /\ UNCHANGED reply ELSE Say("ok")
  /\ UNCHANGED <<target, hook>> /\ Stay

\* CONFIG_STATUS and CONFIG_PUBLISH
ConfigBegin ==
  /\ lpc = "handle" /\ msg.op = "config"
  /\ IF ConfigFree THEN lpc' = "config" /\ UNCHANGED reply ELSE Say("error")
  /\ UNCHANGED hookVars /\ Stay

ConfigEnd ==
  /\ lpc = "config"
  /\ Say("ok")
  /\ UNCHANGED hookVars /\ Stay

\* ARM: the function comes from the slot's signed record.
Arm ==
  /\ lpc = "handle" /\ msg.op = "arm"
  /\ InRange(msg.slot) /\ target[msg.slot] # NoProgram
  /\ hook[msg.slot] = NoTarget /\ Armed(msg.slot)
  /\ hook' = [hook EXCEPT ![msg.slot] = Target[target[msg.slot]]]
  /\ Say("ok")
  /\ UNCHANGED <<slot, target>> /\ Stay

Disarm ==
  /\ lpc = "handle" /\ msg.op = "disarm"
  /\ InRange(msg.slot) /\ hook[msg.slot] # NoTarget
  /\ hook' = [hook EXCEPT ![msg.slot] = NoTarget]
  /\ Say("ok")
  /\ UNCHANGED <<slot, target>> /\ Stay

-----------------------------------------------------------------------------
(* The prepare thread: ls_prep_run_pending.                                *)

loaderSide == <<loadVars, hook>>

PrepGoto(pc) == ppc' = pc /\ UNCHANGED <<prep, g, work, done, copies>>
PrepFail     == ppc' = "complete" /\ g' = [g EXCEPT !.rc = -1] /\ UNCHANGED <<prep, work, done, copies>>

PrepStart ==
  /\ ppc = "idle" /\ prep = "PENDING"
  /\ ppc' = IF g.op = "bench" THEN "operate" ELSE "verify"
  /\ work' = g.n
  /\ UNCHANGED <<prep, g, done, copies, slot, target, loaderSide>>

\* The signature, over the program's bytes.
PrepVerify ==
  /\ ppc = "verify"
  /\ PrepGoto(IF g.op = "load" THEN "target" ELSE "operate") \/ PrepFail
  /\ UNCHANGED <<slot, target, loaderSide>>

\* Mutated form: an attached slot may change its target.
TargetAllowedAny == g.prog \in Programs /\ g.mode <= Ceiling[g.prog]

\* The mode is within the signed ceiling, and an attached slot keeps its target.
TargetAllowed ==
  /\ g.prog \in Programs /\ g.mode <= Ceiling[g.prog]
  /\ hook[g.slot] # NoTarget => Target[g.prog] = Target[target[g.slot]]

\* The signed target record, which may also be missing or for another build; the
\* configuration slot must have an instance and a sequence number left.
PrepTarget ==
  /\ ppc = "target"
  /\ (TargetAllowed /\ PrepGoto("stage")) \/ PrepFail
  /\ UNCHANGED <<slot, target, loaderSide>>

\* ls_vm_arm takes the lowest unarmed slot.
Staging(s) == ~Armed(s) /\ \A r \in Slots : r < s => Armed(r)

\* ls_vm_reload: the program is built in a staging slot, or refused.  A slot
\* that is its own staging slot is loaded when that is done.
PrepStage ==
  /\ ppc = "stage"
  /\ \/ /\ Staging(g.slot)
        /\ slot' = [slot EXCEPT ![g.slot] = [prog |-> g.prog, mode |-> g.mode]]
        /\ PrepGoto("bind")
     \/ /\ \E s \in Slots : Staging(s) /\ s # g.slot
        /\ PrepGoto("disable")
        /\ UNCHANGED slot
     \/ /\ PrepFail
        /\ UNCHANGED slot
  /\ UNCHANGED <<target, loaderSide>>

\* The live slot is disabled, takes the program over, and gets its mode.
PrepDisable ==
  /\ ppc = "disable"
  /\ slot' = [slot EXCEPT ![g.slot].mode = DISABLE]
  /\ PrepGoto("swap")
  /\ UNCHANGED <<target, loaderSide>>

PrepSwap ==
  /\ ppc = "swap"
  /\ slot' = [slot EXCEPT ![g.slot].prog = g.prog]
  /\ PrepGoto("mode")
  /\ UNCHANGED <<target, loaderSide>>

PrepMode ==
  /\ ppc = "mode"
  /\ slot' = [slot EXCEPT ![g.slot].mode = g.mode]
  /\ PrepGoto("bind")
  /\ UNCHANGED <<target, loaderSide>>

\* ls_config_bind.  Its refusal, which would disable the slot, cannot happen:
\* the sequence number was checked with the target, and no write is in progress.
PrepBind ==
  /\ ppc = "bind"
  /\ PrepGoto("record")
  /\ UNCHANGED <<slot, target, loaderSide>>

PrepRecord ==
  /\ ppc = "record"
  /\ target' = [target EXCEPT ![g.slot] = g.prog]
  /\ g' = [g EXCEPT !.rc = g.slot]
  /\ ppc' = "complete"
  /\ UNCHANGED <<prep, work, done, copies, slot, loaderSide>>

\* BENCH, or an operation of the program manager.
PrepOperate ==
  /\ ppc = "operate"
  /\ (ppc' = "complete" /\ g' = [g EXCEPT !.rc = 0] /\ UNCHANGED <<prep, work, done, copies>>) \/ PrepFail
  /\ UNCHANGED <<slot, target, loaderSide>>

\* Mutated form: the payload mapping is left.
PrepCompleteLeaks ==
  /\ ppc = "complete"
  /\ prep' = "DONE" /\ ppc' = "idle" /\ done' = work
  /\ UNCHANGED <<g, work, slot, target, copies, loaderSide>>

\* ls_prep_complete
PrepComplete ==
  /\ ppc = "complete"
  /\ copies' = IF g.op = "program" THEN copies \ {g.n} ELSE copies
  /\ prep' = "DONE" /\ ppc' = "idle" /\ done' = work
  /\ UNCHANGED <<g, work, slot, target, loaderSide>>

-----------------------------------------------------------------------------
LoaderStep ==
  \/ Answer \/ AnswerOnly \/ GateRefuses
  \/ Submit \/ SubmitNoMemory \/ TakeAnswer \/ GiveUp
  \/ SetMode \/ Revoke \/ ConfigBegin \/ ConfigEnd \/ Arm \/ Disarm

Prepare ==
  \/ PrepStart \/ PrepVerify \/ PrepTarget \/ PrepStage \/ PrepDisable \/ PrepSwap
  \/ PrepMode \/ PrepBind \/ PrepRecord \/ PrepOperate \/ PrepComplete

Next == LoaderStep \/ Prepare \/ \E m \in {x \in Messages : Sensible(x)} : Accept(m)

Spec == Init /\ [][Next]_vars

\* The loader thread runs; nothing is assumed of the prepare timer.
FairSpec == Spec /\ WF_vars(LoaderStep)
-----------------------------------------------------------------------------
(* Properties                                                              *)

ProgramRange == Programs \union {NoProgram}

PrepRequest ==
  [n : 0 .. RequestMax, op : Handed, slot : Slots, prog : ProgramRange, mode : Modes,
   rc : -1 .. SlotMax - 1]
SlotRecord == [prog : ProgramRange, mode : Modes]

PrepareTypes ==
  /\ prep \in {"IDLE", "PENDING", "DONE"} /\ g \in PrepRequest
  /\ ppc \in {"idle", "verify", "target", "stage", "disable", "swap", "mode", "bind",
              "record", "operate", "complete"}
  /\ work \in 0 .. RequestMax /\ done \in 0 .. RequestMax
SlotTypes ==
  /\ slot \in [Slots -> SlotRecord] /\ target \in [Slots -> ProgramRange]
  /\ hook \in [Slots -> {Target[p] : p \in Programs} \union {NoTarget}]
LoaderTypes ==
  /\ lpc \in {"accept", "handle", "wait", "config", "answer"}
  /\ msg \in Messages /\ reply \in Replies
  /\ scratch \subseteq 1 .. RequestMax /\ copies \subseteq 1 .. RequestMax
  /\ served \in 0 .. RequestMax /\ late \in BOOLEAN

TypeOK == PrepareTypes /\ SlotTypes /\ LoaderTypes

\* A request that is told OK was carried out: the poll of ls_prep_submit never
\* takes the late completion of an earlier request for its own.
OwnAnswer ==
  lpc = "answer" /\ reply = "ok" /\ msg.op \in Handed => done = served

\* The sequence lock of the configuration store has one writer: the loader is
\* never inside a publish or a revoke while the prepare thread binds a slot or
\* runs a program operation.
OneConfigWriter == ~(lpc = "config" /\ ppc \in {"bind", "operate"})

\* Where the prepare thread reads the request's payload.
Reading == {"verify", "target", "stage", "operate"}
PayloadAlive == IF g.op = "program" THEN g.n \in copies ELSE g.n \in scratch

\* "A socket timeout must not free bytes that a late prepare still needs": the
\* payload of a program operation is mapped as long as the prepare thread reads
\* it, however late that is; the one of a legacy load as long as the loader waits.
BytesAlive == ppc \in Reading /\ (g.op = "program" \/ ~late) => PayloadAlive

\* A payload mapping belongs to the outstanding program operation: none is left
\* behind by a timeout and none is released twice.
CopiesOwned ==
  \A n \in copies : prep = "PENDING" /\ g.n = n /\ g.op = "program"

\* While no prepare was ever late: a program never runs in a mode above the
\* ceiling in its own signed binding, whatever was loaded over it.
CeilingHeld ==
  ~late => \A s \in Slots : Armed(s) => slot[s].mode <= Ceiling[slot[s].prog]

\* While no prepare was ever late: the text of a function calls a slot only while
\* the slot holds a program signed for that function.
HookAuthorised ==
  ~late => \A s \in Slots : hook[s] # NoTarget => Armed(s) /\ hook[s] = Target[slot[s].prog]

\* The two promises about payload bytes: mapped while they are read, and owned.
PayloadSound == BytesAlive /\ CopiesOwned

\* What the signatures authorise is all that runs: the mode of every slot is
\* within the ceiling of its program and every hook on the program's function.
SlotsAuthorised == CeilingHeld /\ HookAuthorised

\* The loader never hangs: every connection is answered, whether or not the
\* prepare timer ever runs.
LoaderReturns == lpc # "accept" ~> lpc = "accept"

\* ls_prep_submit on its refusal: "The socket is serial, so this only trips if a
\* previous prepare never completed".
RefusedOnlyIfIncomplete == reply # "wedged"

-----------------------------------------------------------------------------
(* The parts of the inductive invariant that Loader_proofs uses.           *)

\* Where the prepare thread is says what it works on.
PrepareState ==
  /\ ppc # "idle" => prep = "PENDING" /\ work = g.n
  /\ prep = "DONE" => done = g.n
  /\ ppc \in {"target", "stage", "disable", "swap", "mode", "bind", "record"} => g.op = "load"
  /\ prep = "PENDING" => (g.op = "program" <=> g.n \in copies)

\* A waiting loader waits for the request in g_prep; one that writes the
\* configuration store, or answers a request that was carried out, has nothing
\* outstanding; an open connection has its scratch mapping.
LoaderState ==
  /\ lpc = "wait" => prep # "IDLE" /\ g.n = served
  /\ lpc = "config" => prep = "IDLE" /\ msg.op \notin Handed
  /\ lpc = "answer" /\ reply = "ok" /\ msg.op \in Handed => prep = "IDLE"
  /\ lpc # "accept" => served \in scratch

\* While no prepare was ever late, an outstanding request is waited for.
Awaited == ~late => (prep # "IDLE" => lpc = "wait")

\* The prepare thread is between taking a program over and recording it.
Moving(s) == ppc \in {"mode", "bind", "record"} /\ s = g.slot

\* While no prepare was ever late: the record of a slot is that of its program,
\* a hook is where the record says, and a load that passed the checks still
\* satisfies them.
Settled ==
  ~late =>
    /\ \A s \in Slots : ~Moving(s) => target[s] = slot[s].prog
    /\ ppc \in {"stage", "disable", "swap", "mode", "bind", "record"} =>
         /\ g.prog \in Programs /\ g.mode <= Ceiling[g.prog]
         /\ hook[g.slot] # NoTarget => hook[g.slot] = Target[g.prog]
    /\ ppc \in {"swap", "mode"} => slot[g.slot].mode = DISABLE
    /\ ppc \in {"mode", "bind", "record"} => slot[g.slot].prog = g.prog

IInv == /\ TypeOK /\ PrepareState /\ LoaderState /\ Awaited /\ CopiesOwned
        /\ OwnAnswer /\ Settled /\ CeilingHeld /\ HookAuthorised
=============================================================================
