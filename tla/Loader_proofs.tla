---------------------------- MODULE Loader_proofs ----------------------------
(* Proofs about the loader and the prepare handoff.                        *)
EXTENDS Loader, TLAPS

\* The values the variables are reset to have their types.
LEMMA ConstantTypes ==
  /\ NoMessage \in Messages /\ DISABLE \in Modes /\ SlotMax \in Nat \ {0} /\ RequestMax \in Nat
  /\ NoProgram \in ProgramRange /\ 0 \in Slots /\ EmptySlot \in SlotRecord
BY LoaderAssumption
DEF LoaderAssumption, NoMessage, Messages, Ops, LegacyOps, Modes, DISABLE, Slots,
    ProgramRange, SlotRecord, EmptySlot

LEMMA InitInv == Init => IInv
<1> SUFFICES ASSUME Init PROVE IInv  OBVIOUS
<1>1. TypeOK
  <2>1. g \in PrepRequest
    BY ConstantTypes DEF Init, PrepRequest, Handed
  <2>2. PrepareTypes  BY <2>1, ConstantTypes DEF Init, PrepareTypes
  <2>3. SlotTypes  BY ConstantTypes DEF Init, SlotTypes
  <2>4. LoaderTypes
    <3>1. msg \in Messages  BY ConstantTypes DEF Init
    <3>2. reply \in Replies  BY DEF Init, Replies
    <3>3. scratch = {} /\ copies = {} /\ served = 0 /\ lpc = "accept"  BY DEF Init
    <3>4. late \in BOOLEAN  BY DEF Init
    <3>5. served \in 0 .. RequestMax  BY <3>3, ConstantTypes
    <3> QED BY <3>1, <3>2, <3>3, <3>4, <3>5 DEF LoaderTypes
  <2> QED BY <2>2, <2>3, <2>4 DEF TypeOK
<1>2. \A s \in Slots : slot[s].prog = NoProgram /\ target[s] = NoProgram /\ hook[s] = NoTarget
  BY DEF Init, EmptySlot
<1>3. prep = "IDLE" /\ ppc = "idle" /\ copies = {} /\ lpc = "accept"
  BY DEF Init
<1> QED BY <1>1, <1>2, <1>3
        DEF IInv, PrepareState, LoaderState, Awaited, CopiesOwned, OwnAnswer, Settled,
            CeilingHeld, HookAuthorised, Armed, Moving

-----------------------------------------------------------------------------
(* Types.                                                                  *)

\* The request in g_prep keeps its type when only its result changes.
LEMMA ResultTypes ==
  ASSUME g \in PrepRequest, NEW rc \in -1 .. SlotMax - 1
  PROVE  [g EXCEPT !.rc = rc] \in PrepRequest
BY DEF PrepRequest

LEMMA ResultRange == ASSUME g \in PrepRequest PROVE {-1, 0, g.slot} \subseteq -1 .. SlotMax - 1
BY ConstantTypes DEF PrepRequest, Slots

LEMMA PrepareTypesInv == IInv /\ Next => PrepareTypes'
<1> SUFFICES ASSUME IInv, Next PROVE PrepareTypes'  OBVIOUS
<1>0. PrepareTypes /\ msg \in Messages /\ served \in 0 .. RequestMax
  BY DEF IInv, TypeOK, LoaderTypes
<1>1. CASE Submit
  <2>1. prep' \in {"IDLE", "PENDING", "DONE"}
    BY <1>0, <1>1 DEF Submit, Dropped, PrepareTypes
  <2>2. g' \in PrepRequest
    <3>1. CASE g' = g  BY <3>1, <1>0 DEF PrepareTypes
    <3>2. CASE g' # g
      <4>1. g' = [n |-> served, op |-> msg.op, slot |-> msg.slot, prog |-> msg.prog,
                  mode |-> msg.mode, rc |-> -1]
        BY <1>1, <3>2 DEF Submit
      <4>2. msg.slot \in Slots
        BY <1>0, <1>1, ConstantTypes DEF Submit, Messages, InRange, Slots
      <4>3. msg.op \in Handed  BY <1>1 DEF Submit
      <4>4. msg.prog \in ProgramRange /\ msg.mode \in Modes
        BY <1>0 DEF Messages, ProgramRange
      <4>5. -1 \in -1 .. SlotMax - 1  BY ConstantTypes
      <4> QED BY <1>0, <4>1, <4>2, <4>3, <4>4, <4>5 DEF PrepRequest
    <3> QED BY <3>1, <3>2
  <2> QED BY <1>0, <1>1, <2>1, <2>2 DEF Submit, PrepareTypes
<1>2. CASE SubmitNoMemory
  BY <1>0, <1>2 DEF SubmitNoMemory, Dropped, PrepareTypes, prepVars
<1>3. CASE TakeAnswer  BY <1>0, <1>3 DEF TakeAnswer, PrepareTypes, prepVars
<1>4. CASE PrepStart
  <2>1. g.n \in 0 .. RequestMax  BY <1>0 DEF PrepareTypes, PrepRequest
  <2> QED BY <1>0, <1>4, <2>1 DEF PrepStart, PrepareTypes
<1>5. CASE PrepVerify \/ PrepTarget \/ PrepStage \/ PrepRecord \/ PrepOperate
  <2>1. g' = g \/ \E rc \in {-1, 0, g.slot} : g' = [g EXCEPT !.rc = rc]
    BY <1>5 DEF PrepVerify, PrepTarget, PrepStage, PrepRecord, PrepOperate, PrepGoto, PrepFail
  <2>2. g' \in PrepRequest
    BY <1>0, <2>1, ResultTypes, ResultRange DEF PrepareTypes
  <2> QED BY <1>0, <1>5, <2>2
          DEF PrepVerify, PrepTarget, PrepStage, PrepRecord, PrepOperate, PrepGoto, PrepFail,
              PrepareTypes
<1>6. CASE PrepDisable \/ PrepSwap \/ PrepMode \/ PrepBind \/ PrepComplete
  BY <1>0, <1>6 DEF PrepDisable, PrepSwap, PrepMode, PrepBind, PrepComplete, PrepGoto, PrepareTypes
<1>7. CASE \/ Answer \/ AnswerOnly \/ GateRefuses \/ GiveUp \/ SetMode \/ Revoke
           \/ ConfigBegin \/ ConfigEnd \/ Arm \/ Disarm \/ \E m \in Messages : Accept(m)
  <2>1. UNCHANGED <<prep, prepVars>>
    BY <1>7 DEF Answer, AnswerOnly, GateRefuses, GiveUp, SetMode, Revoke, ConfigBegin,
                ConfigEnd, Arm, Disarm, Accept, Stay
  <2> QED BY <1>0, <2>1 DEF PrepareTypes, prepVars
<1> QED BY <1>1, <1>2, <1>3, <1>4, <1>5, <1>6, <1>7 DEF Next, LoaderStep, Prepare

LEMMA SlotTypesInv == IInv /\ Next => SlotTypes'
<1> SUFFICES ASSUME IInv, Next PROVE SlotTypes'  OBVIOUS
<1>0. SlotTypes /\ msg \in Messages /\ g \in PrepRequest
  BY DEF IInv, TypeOK, LoaderTypes, PrepareTypes
<1>1. msg.mode \in Modes /\ g.mode \in Modes /\ g.slot \in Slots /\ g.prog \in ProgramRange
  BY <1>0 DEF Messages, PrepRequest
<1>2. CASE \/ SetMode \/ Revoke \/ PrepDisable \/ PrepMode
  <2>1. \E s, m : m \in Modes /\ slot' = [slot EXCEPT ![s].mode = m]
    BY <1>1, <1>2, ConstantTypes DEF SetMode, Revoke, PrepDisable, PrepMode
  <2>2. target' = target /\ hook' = hook
    BY <1>2 DEF SetMode, Revoke, PrepDisable, PrepMode, loaderSide
  <2> QED BY <1>0, <2>1, <2>2 DEF SlotTypes, SlotRecord
<1>3. CASE PrepStage
  <2>1. target' = target /\ hook' = hook  BY <1>3 DEF PrepStage, loaderSide
  <2>2. slot' = slot \/ slot' = [slot EXCEPT ![g.slot] = [prog |-> g.prog, mode |-> g.mode]]
    BY <1>3 DEF PrepStage
  <2>3. [prog |-> g.prog, mode |-> g.mode] \in SlotRecord  BY <1>1 DEF SlotRecord
  <2> QED BY <1>0, <1>1, <2>1, <2>2, <2>3 DEF SlotTypes
<1>4. CASE PrepSwap
  <2>1. slot' = [slot EXCEPT ![g.slot].prog = g.prog] /\ target' = target /\ hook' = hook
    BY <1>4 DEF PrepSwap, loaderSide
  <2> QED BY <1>0, <1>1, <2>1 DEF SlotTypes, SlotRecord
<1>5. CASE PrepRecord
  BY <1>0, <1>1, <1>5 DEF PrepRecord, SlotTypes, loaderSide
<1>6. CASE Arm
  <2>1. msg.slot \in Slots  BY <1>0, <1>6, ConstantTypes DEF Arm, InRange, Messages, Slots
  <2>2. target[msg.slot] \in Programs
    BY <1>0, <1>6, <2>1 DEF Arm, SlotTypes, ProgramRange
  <2>3. hook' = [hook EXCEPT ![msg.slot] = Target[target[msg.slot]]] /\ UNCHANGED <<slot, target>>
    BY <1>6 DEF Arm
  <2> QED BY <1>0, <2>1, <2>2, <2>3 DEF SlotTypes
<1>7. CASE Disarm  BY <1>0, <1>7 DEF Disarm, SlotTypes
<1>8. CASE \/ Answer \/ AnswerOnly \/ GateRefuses \/ GiveUp \/ Submit \/ SubmitNoMemory \/ TakeAnswer
           \/ ConfigBegin \/ ConfigEnd \/ (\E m \in Messages : Accept(m))
           \/ PrepStart \/ PrepVerify \/ PrepTarget \/ PrepBind \/ PrepOperate \/ PrepComplete
  <2>1. UNCHANGED hookVars
    BY <1>8 DEF Answer, AnswerOnly, GateRefuses, GiveUp, Submit, SubmitNoMemory, TakeAnswer,
                ConfigBegin, ConfigEnd, Accept, PrepStart, PrepVerify, PrepTarget, PrepBind,
                PrepOperate, PrepComplete, loaderSide, hookVars
  <2> QED BY <1>0, <2>1 DEF SlotTypes, hookVars
<1> QED BY <1>2, <1>3, <1>4, <1>5, <1>6, <1>7, <1>8 DEF Next, LoaderStep, Prepare

LEMMA LoaderTypesInv == IInv /\ Next => LoaderTypes'
<1> SUFFICES ASSUME IInv, Next PROVE LoaderTypes'  OBVIOUS
<1>0. /\ LoaderTypes /\ RequestMax \in Nat /\ NoMessage \in Messages
      /\ (lpc # "accept" => served \in scratch) /\ g.n \in 0 .. RequestMax
  BY ConstantTypes DEF IInv, TypeOK, LoaderState, PrepareTypes, PrepRequest
<1>1. CASE \/ AnswerOnly \/ GateRefuses \/ TakeAnswer \/ GiveUp \/ SubmitNoMemory \/ Answer
           \/ SetMode \/ Revoke \/ ConfigBegin \/ ConfigEnd \/ Arm \/ Disarm
  <2>1. /\ lpc' \in {"accept", "config", "answer"} /\ reply' \in Replies
        /\ msg' \in {msg, NoMessage} /\ scratch' \subseteq scratch /\ copies' = copies
        /\ served' = served /\ late' \in {late, TRUE}
    BY <1>0, <1>1
    DEF AnswerOnly, GateRefuses, TakeAnswer, GiveUp, SubmitNoMemory, Answer, SetMode, Revoke,
        ConfigBegin, ConfigEnd, Arm, Disarm, Say, Stay, Replies, LoaderTypes
  <2> QED BY <1>0, <2>1 DEF LoaderTypes
<1>2. CASE Submit
  <2>1. /\ lpc' \in {"wait", "answer"} /\ reply' \in Replies
        /\ copies' \subseteq copies \union {served}
        /\ UNCHANGED <<msg, scratch, served, late>>
    BY <1>0, <1>2 DEF Submit, CopyPayload, Say, Replies, LoaderTypes
  <2>2. served \in 1 .. RequestMax  BY <1>0, <1>2 DEF Submit, LoaderTypes
  <2> QED BY <1>0, <2>1, <2>2 DEF LoaderTypes
<1>3. ASSUME NEW m \in Messages, Accept(m) PROVE LoaderTypes'
  <2>1. served + 1 \in 1 .. RequestMax /\ served + 1 \in 0 .. RequestMax
    BY <1>0, <1>3 DEF Accept, LoaderTypes
  <2> QED BY <1>0, <1>3, <2>1 DEF Accept, LoaderTypes, Replies
<1>4. CASE Prepare
  <2>1. UNCHANGED loadVars /\ copies' \subseteq copies
    BY <1>4 DEF Prepare, PrepStart, PrepVerify, PrepTarget, PrepStage, PrepDisable, PrepSwap,
                PrepMode, PrepBind, PrepRecord, PrepOperate, PrepComplete, PrepGoto, PrepFail,
                loaderSide
  <2> QED BY <1>0, <2>1 DEF LoaderTypes, loadVars
<1> QED BY <1>1, <1>2, <1>3, <1>4 DEF Next, LoaderStep
-----------------------------------------------------------------------------
(* The handoff.                                                            *)

HandoffInv == PrepareState /\ LoaderState /\ Awaited /\ CopiesOwned /\ OwnAnswer

\* ls_prep_submit: an admitted request finds the prepare thread idle and no
\* payload mapping; a refused one leaves everything to the late prepare.
LEMMA SubmitInv == IInv /\ Submit => HandoffInv'
<1> SUFFICES ASSUME IInv, Submit PROVE HandoffInv'  OBVIOUS
<1>1. CASE SubmitAdmits(Dropped)
  <2>1. prep # "PENDING"  BY <1>1 DEF SubmitAdmits, Dropped
  <2>2. copies = {} /\ ppc = "idle"
    BY <2>1 DEF IInv, CopiesOwned, PrepareState
  <2>3. /\ prep' = "PENDING" /\ lpc' = "wait"
        /\ g' = [n |-> served, op |-> msg.op, slot |-> msg.slot, prog |-> msg.prog,
                 mode |-> msg.mode, rc |-> -1]
        /\ UNCHANGED <<ppc, done, msg, scratch, served, late>>
    BY <1>1 DEF Submit, Say
  <2>4. copies' = IF msg.op = "program" THEN {served} ELSE {}
    BY <1>1, <2>2 DEF Submit, CopyPayload, Say
  <2>5. g'.n = served /\ g'.op = msg.op  BY <2>3
  <2>6. served \in scratch  BY DEF Submit, IInv, LoaderState
  <2> QED BY <2>2, <2>3, <2>4, <2>5, <2>6
          DEF HandoffInv, PrepareState, LoaderState, Awaited, CopiesOwned, OwnAnswer
<1>2. CASE ~SubmitAdmits(Dropped)
  <2>1. prep' = prep /\ Dropped = prep
    BY <1>2 DEF Submit, SubmitAdmits, Dropped
  <2>2. lpc = "handle" /\ lpc' = "answer" /\ reply' \in {"wedged", "outstanding"}
    BY <1>2 DEF Submit, Say
  <2>3. UNCHANGED <<g, copies, ppc, work, done, msg, scratch, served, late>>
    BY <1>2 DEF Submit
  <2>4. late  BY <1>2, <2>1, <2>2 DEF IInv, Awaited, SubmitAdmits
  <2> QED BY <2>1, <2>2, <2>3, <2>4
          DEF IInv, HandoffInv, PrepareState, LoaderState, Awaited, CopiesOwned, OwnAnswer
<1> QED BY <1>1, <1>2

\* A step of the prepare thread before its last one: the request is still the
\* one it started on.
LEMMA PrepareStepInv ==
  ASSUME IInv, ppc # "idle",
         prep' = prep, g'.n = g.n, g'.op = g.op, work' = work, done' = done, copies' = copies,
         UNCHANGED loadVars,
         ppc' \in {"target", "stage", "disable", "swap", "mode", "bind", "record"} => g.op = "load"
  PROVE  HandoffInv'
BY DEF IInv, HandoffInv, PrepareState, LoaderState, Awaited, CopiesOwned, OwnAnswer, loadVars

LEMMA ControlInv == IInv /\ Next => HandoffInv'
<1> SUFFICES ASSUME IInv, Next PROVE HandoffInv'  OBVIOUS
<1>1. CASE \/ Answer \/ AnswerOnly \/ GateRefuses \/ GiveUp \/ SetMode \/ Revoke
           \/ ConfigBegin \/ ConfigEnd \/ Arm \/ Disarm \/ \E m \in Messages : Accept(m)
  <2>1. UNCHANGED <<prep, prepVars, copies>>
    BY <1>1 DEF Answer, AnswerOnly, GateRefuses, GiveUp, SetMode, Revoke, ConfigBegin,
                ConfigEnd, Arm, Disarm, Accept, Stay
  <2>2. PrepareState' /\ CopiesOwned'
    BY <2>1 DEF IInv, PrepareState, CopiesOwned, prepVars
  <2>3. CASE Answer \/ GateRefuses
    BY <2>1, <2>2, <2>3 DEF Answer, GateRefuses, HandoffInv, IInv, LoaderState, Awaited, OwnAnswer, prepVars
  <2>4. CASE GiveUp
    BY <2>1, <2>2, <2>4 DEF GiveUp, Say, HandoffInv, IInv, LoaderState, Awaited, OwnAnswer, prepVars
  <2>5. CASE AnswerOnly \/ SetMode \/ Revoke \/ ConfigBegin \/ ConfigEnd \/ Arm \/ Disarm
    <3>1. /\ lpc \in {"handle", "config"} /\ UNCHANGED <<msg, scratch, served, late>>
          /\ lpc' = "config" => prep = "IDLE" /\ msg.op \notin Handed
          /\ lpc' = "answer" /\ reply' = "ok" => msg.op \notin Handed
          /\ lpc' \in {"config", "answer"}
      BY <2>5 DEF AnswerOnly, SetMode, Revoke, ConfigBegin, ConfigEnd, Arm, Disarm, Say, Stay,
                  ConfigFree, Handed, IInv, LoaderState
    <3>2. ~late => prep = "IDLE"  BY <3>1 DEF IInv, Awaited
    <3> QED BY <2>1, <2>2, <3>1, <3>2 DEF HandoffInv, IInv, LoaderState, Awaited, OwnAnswer
  <2>6. ASSUME NEW m \in Messages, Accept(m) PROVE LoaderState' /\ Awaited' /\ OwnAnswer'
    BY <2>1, <2>6 DEF Accept, IInv, LoaderState, Awaited, OwnAnswer, prepVars
  <2> QED BY <1>1, <2>2, <2>3, <2>4, <2>5, <2>6 DEF HandoffInv
<1>2. CASE Submit  BY <1>2, SubmitInv
<1>3. CASE SubmitNoMemory
  <2>1. prep # "PENDING" /\ prep' = "IDLE" /\ copies = {} /\ ppc = "idle"
    BY <1>3 DEF SubmitNoMemory, SubmitAdmits, Dropped, IInv, CopiesOwned, PrepareState
  <2> QED BY <1>3, <2>1 DEF SubmitNoMemory, Say, HandoffInv, IInv, PrepareState, LoaderState,
                            Awaited, CopiesOwned, OwnAnswer, prepVars
<1>4. CASE TakeAnswer
  <2>1. /\ lpc = "wait" /\ prep = "DONE" /\ prep' = "IDLE" /\ lpc' = "answer"
        /\ UNCHANGED <<g, ppc, work, done, msg, scratch, copies, served, late>>
    BY <1>4 DEF TakeAnswer, Say, prepVars
  <2>2. done = served /\ copies = {} /\ ppc = "idle"
    BY <2>1 DEF IInv, PrepareState, LoaderState, CopiesOwned
  <2> QED BY <2>1, <2>2 DEF HandoffInv, IInv, PrepareState, LoaderState, Awaited, CopiesOwned, OwnAnswer
<1>5. CASE PrepStart
  BY <1>5 DEF PrepStart, HandoffInv, IInv, PrepareState, LoaderState, Awaited, CopiesOwned,
              OwnAnswer, loaderSide, loadVars
<1>6. CASE \/ PrepVerify \/ PrepTarget \/ PrepStage \/ PrepDisable \/ PrepSwap \/ PrepMode
           \/ PrepBind \/ PrepRecord \/ PrepOperate
  <2>1. g' = g \/ \E rc \in {-1, 0, g.slot} : g' = [g EXCEPT !.rc = rc]
    BY <1>6 DEF PrepVerify, PrepTarget, PrepStage, PrepDisable, PrepSwap, PrepMode, PrepBind,
                PrepRecord, PrepOperate, PrepGoto, PrepFail
  <2>2. g'.n = g.n /\ g'.op = g.op
    BY <2>1 DEF IInv, TypeOK, PrepareTypes, PrepRequest
  <2>3. ppc # "idle" /\ prep' = prep /\ work' = work /\ done' = done /\ copies' = copies
    BY <1>6 DEF PrepVerify, PrepTarget, PrepStage, PrepDisable, PrepSwap, PrepMode, PrepBind,
                PrepRecord, PrepOperate, PrepGoto, PrepFail
  <2>4. UNCHANGED loadVars
    BY <1>6 DEF PrepVerify, PrepTarget, PrepStage, PrepDisable, PrepSwap, PrepMode, PrepBind,
                PrepRecord, PrepOperate, PrepGoto, PrepFail, loaderSide
  <2>5. ppc' \in {"target", "stage", "disable", "swap", "mode", "bind", "record"} => g.op = "load"
    BY <1>6 DEF PrepVerify, PrepTarget, PrepStage, PrepDisable, PrepSwap, PrepMode, PrepBind,
                PrepRecord, PrepOperate, PrepGoto, PrepFail, IInv, PrepareState
  <2> QED BY <2>2, <2>3, <2>4, <2>5, PrepareStepInv
<1>7. CASE PrepComplete
  <2>1. /\ prep' = "DONE" /\ ppc' = "idle" /\ done' = work /\ g' = g /\ UNCHANGED loadVars
        /\ copies' = IF g.op = "program" THEN copies \ {g.n} ELSE copies
    BY <1>7 DEF PrepComplete, loaderSide
  <2>2. copies' = {} /\ work = g.n /\ prep = "PENDING"
    BY <1>7, <2>1 DEF PrepComplete, IInv, PrepareState, CopiesOwned
  <2> QED BY <2>1, <2>2 DEF HandoffInv, IInv, PrepareState, LoaderState, Awaited, CopiesOwned,
                            OwnAnswer, loadVars
<1> QED BY <1>1, <1>2, <1>3, <1>4, <1>5, <1>6, <1>7 DEF Next, LoaderStep, Prepare

-----------------------------------------------------------------------------
(* Slots, records and hooks, while no prepare was ever late.               *)

SlotsInv == Settled /\ CeilingHeld /\ HookAuthorised

\* While the loader handles a message the prepare thread is idle, and every
\* slot's record is that of its program.
LEMMA QuietWhileHandling ==
  ASSUME IInv, ~late, lpc = "handle"
  PROVE  prep = "IDLE" /\ ppc = "idle" /\ \A s \in Slots : target[s] = slot[s].prog
<1>1. prep = "IDLE"  BY DEF IInv, Awaited
<1>2. ppc = "idle"  BY <1>1 DEF IInv, PrepareState
<1> QED BY <1>1, <1>2 DEF IInv, Settled, Moving

\* A request of the loader changes at most the mode of one slot, within the
\* ceiling of its program.
LEMMA ModeInv ==
  ASSUME IInv, ~late, lpc = "handle", UNCHANGED <<target, hook, ppc, late>>,
         NEW s \in Slots, NEW m \in Modes, ModeAllowed(s, m),
         slot' = [slot EXCEPT ![s].mode = m]
  PROVE  SlotsInv'
<1>0. slot \in [Slots -> SlotRecord] /\ target \in [Slots -> ProgramRange]
  BY DEF IInv, TypeOK, SlotTypes
<1>1. ppc = "idle" /\ \A r \in Slots : target[r] = slot[r].prog  BY QuietWhileHandling
<1>2. \A r \in Slots : slot'[r].prog = slot[r].prog /\ slot'[r].mode = IF r = s THEN m ELSE slot[r].mode
  BY <1>0 DEF SlotRecord
<1>3. Armed(s) => m <= Ceiling[slot[s].prog]
  <2> SUFFICES ASSUME Armed(s) PROVE m <= Ceiling[slot[s].prog]  OBVIOUS
  <2>1. slot[s].prog \in Programs  BY <1>0 DEF Armed, SlotRecord, ProgramRange
  <2>2. Ceiling[slot[s].prog] \in Modes  BY <2>1, LoaderAssumption DEF LoaderAssumption
  <2> QED BY <1>1, <2>2 DEF ModeAllowed, Modes, DISABLE, MONITOR, ENFORCE
<1>4. Settled'  BY <1>1, <1>2 DEF Settled, Moving
<1>5. CeilingHeld'  BY <1>2, <1>3 DEF IInv, CeilingHeld, Armed
<1>6. HookAuthorised'  BY <1>2 DEF IInv, HookAuthorised, Armed
<1> QED BY <1>4, <1>5, <1>6 DEF SlotsInv

\* A step that leaves slots, records and hooks alone, and at most moves the
\* prepare thread from one state to the next of those that require nothing more.
LEMMA SlotFrame ==
  ASSUME IInv, ~late, ~late', slot' = slot, target' = target, hook' = hook,
         \/ ppc' \in {"idle", "verify", "target", "operate", "complete"} /\ (ppc \notin {"mode", "bind", "record"})
         \/ ppc' = ppc /\ g' = g
         \/ ppc = "bind" /\ ppc' = "record" /\ g' = g
         \/ ppc = "stage" /\ ppc' = "disable" /\ g' = g
  PROVE  SlotsInv'
<1>1. CeilingHeld' /\ HookAuthorised'
  BY DEF IInv, CeilingHeld, HookAuthorised, Armed
<1>2. Settled'  BY DEF IInv, Settled, Moving
<1> QED BY <1>1, <1>2 DEF SlotsInv

LEMMA SlotInv == IInv /\ Next => SlotsInv'
<1> SUFFICES ASSUME IInv, Next PROVE SlotsInv'  OBVIOUS
<1>a. slot \in [Slots -> SlotRecord] /\ target \in [Slots -> ProgramRange] /\ g \in PrepRequest
      /\ msg \in Messages /\ hook \in [Slots -> {Target[p] : p \in Programs} \union {NoTarget}]
  BY DEF IInv, TypeOK, SlotTypes, PrepareTypes, LoaderTypes
<1>b. g.slot \in Slots /\ g.mode \in Modes /\ msg.mode \in Modes
  BY <1>a DEF PrepRequest, Messages
<1>c. InRange(msg.slot) => msg.slot \in Slots
  BY <1>a, ConstantTypes DEF InRange, Messages, Slots
<1>d. CASE late'
  BY <1>d DEF SlotsInv, Settled, CeilingHeld, HookAuthorised
<1>e. CASE ~late'
  <2>0. ~late
    BY <1>e DEF Next, LoaderStep, Prepare, Accept, Answer, AnswerOnly, GateRefuses, GiveUp, Submit,
        SubmitNoMemory, TakeAnswer, SetMode, Revoke, ConfigBegin, ConfigEnd, Arm, Disarm, Stay,
        PrepStart, PrepVerify, PrepTarget, PrepStage, PrepDisable, PrepSwap, PrepMode, PrepBind,
        PrepRecord, PrepOperate, PrepComplete, loaderSide, loadVars
  <2>1. CASE SetMode
    BY <1>b, <1>c, <1>e, <2>0, <2>1, ModeInv DEF SetMode, Stay, prepVars
  <2>2. CASE Revoke
    BY <1>c, <1>e, <2>0, <2>2, ModeInv, ConstantTypes DEF Revoke, Stay, prepVars, ModeAllowed
  <2>3. CASE Arm
    <3>1. /\ msg.slot \in Slots /\ target[msg.slot] # NoProgram /\ lpc = "handle"
          /\ hook' = [hook EXCEPT ![msg.slot] = Target[target[msg.slot]]]
          /\ UNCHANGED <<slot, target, ppc>>
      BY <1>c, <2>3 DEF Arm, Stay, prepVars
    <3>2. ppc = "idle" /\ \A s \in Slots : target[s] = slot[s].prog
      BY <2>0, <3>1, QuietWhileHandling
    <3>3. CeilingHeld'  BY <1>e, <2>0, <3>1 DEF IInv, CeilingHeld, Armed
    <3>4. HookAuthorised'
      BY <1>a, <1>e, <2>0, <3>1, <3>2 DEF IInv, HookAuthorised, Armed
    <3>5. Settled'  BY <3>1, <3>2 DEF Settled, Moving
    <3> QED BY <3>3, <3>4, <3>5 DEF SlotsInv
  <2>4. CASE Disarm
    <3>1. /\ msg.slot \in Slots /\ lpc = "handle" /\ UNCHANGED <<slot, target, ppc>>
          /\ hook' = [hook EXCEPT ![msg.slot] = NoTarget]
      BY <1>c, <2>4 DEF Disarm, Stay, prepVars
    <3>2. ppc = "idle" /\ \A s \in Slots : target[s] = slot[s].prog
      BY <2>0, <3>1, QuietWhileHandling
    <3>3. CeilingHeld'  BY <1>e, <2>0, <3>1 DEF IInv, CeilingHeld, Armed
    <3>4. HookAuthorised'  BY <1>a, <1>e, <2>0, <3>1 DEF IInv, HookAuthorised, Armed
    <3>5. Settled'  BY <3>1, <3>2 DEF Settled, Moving
    <3> QED BY <3>3, <3>4, <3>5 DEF SlotsInv
  <2>5. CASE Submit \/ SubmitNoMemory
    <3>1. /\ ppc' = ppc /\ lpc = "handle"
          /\ slot' = slot /\ target' = target /\ hook' = hook
      BY <2>5 DEF Submit, SubmitNoMemory, prepVars, hookVars
    <3>2. ppc = "idle"  BY <2>0, <3>1, QuietWhileHandling
    <3> QED BY <1>e, <2>0, <3>1, <3>2, SlotFrame
  <2>6. CASE \/ Answer \/ AnswerOnly \/ GateRefuses \/ GiveUp \/ TakeAnswer
             \/ ConfigBegin \/ ConfigEnd \/ \E m \in Messages : Accept(m)
    <3>1. ppc' = ppc /\ g' = g /\ slot' = slot /\ target' = target /\ hook' = hook
      BY <2>6 DEF Answer, AnswerOnly, GateRefuses, GiveUp, TakeAnswer, ConfigBegin, ConfigEnd,
                  Accept, Stay, prepVars, hookVars
    <3> QED BY <1>e, <2>0, <3>1, SlotFrame
  <2>7. CASE PrepStart \/ PrepVerify \/ PrepOperate \/ PrepComplete
    <3>1. slot' = slot /\ target' = target /\ hook' = hook
      BY <2>7 DEF PrepStart, PrepVerify, PrepOperate, PrepComplete, loaderSide, hookVars
    <3>2. /\ ppc' \in {"idle", "verify", "target", "operate", "complete"}
          /\ ppc \notin {"mode", "bind", "record"}
      BY <2>7 DEF PrepStart, PrepVerify, PrepOperate, PrepComplete, PrepGoto, PrepFail
    <3> QED BY <1>e, <2>0, <3>1, <3>2, SlotFrame
  <2>8. CASE PrepBind
    <3>1. slot' = slot /\ target' = target /\ hook' = hook /\ ppc = "bind" /\ ppc' = "record" /\ g' = g
      BY <2>8 DEF PrepBind, PrepGoto, loaderSide, hookVars
    <3> QED BY <1>e, <2>0, <3>1, SlotFrame
  <2>9. CASE PrepTarget
    <3>1. slot' = slot /\ target' = target /\ hook' = hook /\ ppc = "target"
      BY <2>9 DEF PrepTarget, loaderSide, hookVars
    <3>2. CASE ppc' = "complete"
      BY <1>e, <2>0, <3>1, <3>2, SlotFrame
    <3>3. CASE ppc' # "complete"
      <4>1. TargetAllowed /\ ppc' = "stage" /\ g' = g
        BY <2>9, <3>3 DEF PrepTarget, PrepGoto, PrepFail
      <4>2. hook[g.slot] # NoTarget => hook[g.slot] = Target[g.prog]
        <5>1. target[g.slot] = slot[g.slot].prog
          BY <1>b, <2>0, <3>1 DEF IInv, Settled, Moving
        <5> QED BY <1>b, <2>0, <4>1, <5>1 DEF TargetAllowed, IInv, HookAuthorised
      <4>3. Settled'
        BY <1>e, <2>0, <3>1, <4>1, <4>2 DEF IInv, Settled, Moving, TargetAllowed, hookVars
      <4>4. CeilingHeld' /\ HookAuthorised'
        BY <1>e, <2>0, <3>1 DEF IInv, CeilingHeld, HookAuthorised, Armed, hookVars
      <4> QED BY <4>3, <4>4 DEF SlotsInv
    <3> QED BY <3>2, <3>3
  <2>10. CASE PrepStage
    <3>1. ppc = "stage" /\ target' = target /\ hook' = hook
      BY <2>10 DEF PrepStage, loaderSide
    <3>2. CASE slot' = slot /\ ppc' = "complete"
      BY <1>e, <2>0, <3>1, <3>2, SlotFrame
    <3>3. CASE slot' = slot /\ ppc' = "disable" /\ g' = g
      BY <1>e, <2>0, <3>1, <3>3, SlotFrame
    <3>4. CASE /\ ~Armed(g.slot) /\ ppc' = "bind" /\ g' = g
               /\ slot' = [slot EXCEPT ![g.slot] = [prog |-> g.prog, mode |-> g.mode]]
      <4>1. hook[g.slot] = NoTarget  BY <1>b, <2>0, <3>4 DEF IInv, HookAuthorised
      <4>2. /\ slot'[g.slot].prog = g.prog /\ slot'[g.slot].mode = g.mode
            /\ \A s \in Slots : s # g.slot => slot'[s] = slot[s]
        BY <1>a, <1>b, <3>4
      <4>3. g.prog \in Programs /\ g.mode <= Ceiling[g.prog]
        BY <2>0, <3>1 DEF IInv, Settled
      <4>4. CeilingHeld'  BY <1>e, <2>0, <4>2, <4>3 DEF IInv, CeilingHeld, Armed
      <4>5. HookAuthorised'  BY <1>e, <2>0, <3>1, <4>1, <4>2 DEF IInv, HookAuthorised, Armed
      <4>6. Settled'
        BY <1>b, <1>e, <2>0, <3>1, <3>4, <4>1, <4>2, <4>3 DEF IInv, Settled, Moving
      <4> QED BY <4>4, <4>5, <4>6 DEF SlotsInv
    <3> QED BY <2>10, <3>2, <3>3, <3>4 DEF PrepStage, PrepGoto, PrepFail, Staging
  <2>11. CASE PrepDisable
    <3>1. /\ ppc = "disable" /\ ppc' = "swap" /\ g' = g /\ UNCHANGED <<target, hook>>
          /\ slot' = [slot EXCEPT ![g.slot].mode = DISABLE]
      BY <2>11 DEF PrepDisable, PrepGoto, loaderSide
    <3>2. \A s \in Slots : /\ slot'[s].prog = slot[s].prog
                           /\ slot'[s].mode = IF s = g.slot THEN DISABLE ELSE slot[s].mode
      BY <1>a, <1>b, <3>1 DEF SlotRecord
    <3>3. \A s \in Slots : Armed(s) => Ceiling[slot[s].prog] \in Modes
      BY <1>a, LoaderAssumption DEF LoaderAssumption, Armed, SlotRecord, ProgramRange
    <3>4. CeilingHeld'
      BY <1>e, <2>0, <3>2, <3>3 DEF IInv, CeilingHeld, Armed, Modes, DISABLE, MONITOR, ENFORCE
    <3>5. HookAuthorised'  BY <1>e, <2>0, <3>1, <3>2 DEF IInv, HookAuthorised, Armed
    <3>6. Settled'  BY <1>b, <1>e, <2>0, <3>1, <3>2 DEF IInv, Settled, Moving
    <3> QED BY <3>4, <3>5, <3>6 DEF SlotsInv
  <2>12. CASE PrepSwap
    <3>1. /\ ppc = "swap" /\ ppc' = "mode" /\ g' = g /\ UNCHANGED <<target, hook>>
          /\ slot' = [slot EXCEPT ![g.slot].prog = g.prog]
      BY <2>12 DEF PrepSwap, PrepGoto, loaderSide
    <3>2. \A s \in Slots : /\ slot'[s].mode = slot[s].mode
                           /\ slot'[s].prog = IF s = g.slot THEN g.prog ELSE slot[s].prog
      BY <1>a, <1>b, <3>1 DEF SlotRecord
    <3>3. /\ g.prog \in Programs /\ slot[g.slot].mode = DISABLE
          /\ hook[g.slot] # NoTarget => hook[g.slot] = Target[g.prog]
          /\ g.mode <= Ceiling[g.prog]
      BY <2>0, <3>1 DEF IInv, Settled
    <3>4. Ceiling[g.prog] \in Modes  BY <3>3, LoaderAssumption DEF LoaderAssumption
    <3>5. CeilingHeld'
      BY <1>e, <2>0, <3>2, <3>3, <3>4 DEF IInv, CeilingHeld, Armed, Modes, DISABLE, MONITOR, ENFORCE
    <3>6. HookAuthorised'
      BY <1>e, <2>0, <3>1, <3>2, <3>3, LoaderAssumption
      DEF LoaderAssumption, IInv, HookAuthorised, Armed
    <3>7. Settled'  BY <1>b, <1>e, <2>0, <3>1, <3>2, <3>3 DEF IInv, Settled, Moving
    <3> QED BY <3>5, <3>6, <3>7 DEF SlotsInv
  <2>13. CASE PrepMode
    <3>1. /\ ppc = "mode" /\ ppc' = "bind" /\ g' = g /\ UNCHANGED <<target, hook>>
          /\ slot' = [slot EXCEPT ![g.slot].mode = g.mode]
      BY <2>13 DEF PrepMode, PrepGoto, loaderSide
    <3>2. \A s \in Slots : /\ slot'[s].prog = slot[s].prog
                           /\ slot'[s].mode = IF s = g.slot THEN g.mode ELSE slot[s].mode
      BY <1>a, <1>b, <3>1 DEF SlotRecord
    <3>3. slot[g.slot].prog = g.prog /\ g.mode <= Ceiling[g.prog]
      BY <2>0, <3>1 DEF IInv, Settled
    <3>4. CeilingHeld'  BY <1>b, <1>e, <2>0, <3>2, <3>3 DEF IInv, CeilingHeld, Armed
    <3>5. HookAuthorised'  BY <1>e, <2>0, <3>1, <3>2 DEF IInv, HookAuthorised, Armed
    <3>6. Settled'  BY <1>b, <1>e, <2>0, <3>1, <3>2 DEF IInv, Settled, Moving
    <3> QED BY <3>4, <3>5, <3>6 DEF SlotsInv
  <2>14. CASE PrepRecord
    <3>1. /\ ppc = "record" /\ ppc' = "complete" /\ UNCHANGED <<slot, hook>>
          /\ target' = [target EXCEPT ![g.slot] = g.prog]
      BY <2>14 DEF PrepRecord, loaderSide
    <3>2. slot[g.slot].prog = g.prog  BY <2>0, <3>1 DEF IInv, Settled
    <3>3. CeilingHeld' /\ HookAuthorised'
      BY <1>e, <2>0, <3>1 DEF IInv, CeilingHeld, HookAuthorised, Armed
    <3>4. Settled'  BY <1>a, <1>b, <2>0, <3>1, <3>2 DEF IInv, Settled, Moving
    <3> QED BY <3>3, <3>4 DEF SlotsInv
  <2> QED BY <2>1, <2>2, <2>3, <2>4, <2>5, <2>6, <2>7, <2>8, <2>9, <2>10, <2>11, <2>12,
             <2>13, <2>14 DEF Next, LoaderStep, Prepare
<1> QED BY <1>d, <1>e

-----------------------------------------------------------------------------
(* The theorems.                                                           *)

LEMMA NextInv == IInv /\ [Next]_vars => IInv'
<1>1. IInv /\ Next => IInv'
  BY PrepareTypesInv, SlotTypesInv, LoaderTypesInv, ControlInv, SlotInv
  DEF IInv, TypeOK, HandoffInv, SlotsInv
<1>2. IInv /\ UNCHANGED vars => IInv'
  BY DEF IInv, TypeOK, PrepareTypes, SlotTypes, LoaderTypes, PrepareState, LoaderState, Awaited,
         CopiesOwned, OwnAnswer, Settled, CeilingHeld, HookAuthorised, Armed, Moving,
         vars, prepVars, hookVars, loadVars
<1> QED BY <1>1, <1>2

\* The inductive invariant of the loader and the prepare handoff.
THEOREM Invariance == Spec => []IInv
BY InitInv, NextInv, PTL DEF Spec

\* Every variable keeps its type; in particular a request in g_prep names a
\* legacy slot that exists.
THEOREM TypeCorrect == Spec => []TypeOK
<1>1. IInv => TypeOK  BY DEF IInv
<1> QED BY <1>1, Invariance, PTL

\* However late prepares are, a request that ls_prep_submit answers with success
\* is the one the prepare thread carried out.
THEOREM AnswersAreOwn == Spec => []OwnAnswer
<1>1. IInv => OwnAnswer  BY DEF IInv
<1> QED BY <1>1, Invariance, PTL

\* However late prepares are, the loader and the prepare thread are never both
\* inside the configuration store.
THEOREM ConfigExclusion == Spec => []OneConfigWriter
<1>1. IInv => OneConfigWriter  BY DEF IInv, PrepareState, LoaderState, OneConfigWriter
<1> QED BY <1>1, Invariance, PTL

\* The bytes the prepare thread reads are mapped: those of a program operation
\* always, those of a legacy load while the loader waits for it; and the mapping
\* of a program operation is released exactly once, by the prepare thread.
THEOREM PayloadSafety == Spec => []PayloadSound
<1>1. IInv => BytesAlive
  BY DEF IInv, PrepareState, LoaderState, Awaited, BytesAlive, Reading, PayloadAlive
<1>2. IInv => CopiesOwned  BY DEF IInv
<1>3. IInv => PayloadSound  BY <1>1, <1>2 DEF PayloadSound
<1> QED BY <1>3, Invariance, PTL

\* As long as every prepare was in time, every legacy program runs within its
\* signed ceiling and a hooked function calls a slot whose program was signed for
\* that function.
THEOREM Authorisation == Spec => []SlotsAuthorised
<1>1. IInv => SlotsAuthorised  BY DEF IInv, SlotsAuthorised
<1> QED BY <1>1, Invariance, PTL
=============================================================================
