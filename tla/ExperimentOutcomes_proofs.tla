---------------------- MODULE ExperimentOutcomes_proofs ----------------------
(***************************************************************************)
(* What an experiment's receipts, results and archives mean, proved for    *)
(* every set of experiments whose scripts keep to the assumptions.         *)
(*                                                                         *)
(* A script is data, so an invariant about a process speaks of the steps   *)
(* that lie behind it: the body's, as long as none was refused (Did), and  *)
(* those of the cleanup, whether refused or not (Undone).                  *)
(***************************************************************************)
EXTENDS Experiment_proofs

-----------------------------------------------------------------------------
(* The inductive invariants.                                               *)

\* The step j of the body lies behind x, and nothing was refused.
Did(x, j) ==
  /\ j \in 1 .. Len(K[x].body)
  /\ \/ proc[x].phase = "body" /\ j < proc[x].pos
     \/ proc[x].phase = "final" /\ ~proc[x].failed
     \/ proc[x].receipt = "passed"

\* The step j of the cleanup block b lies behind x, or what was refused before it
\* in its block does.
Undone(x, b, j) ==
  \/ proc[x].phase = "final" /\ (proc[x].block > b \/ (proc[x].block = b /\ proc[x].pos > j))
  \/ proc[x].receipt \in {"passed", "failed"}

\* What is made of an object is of its bytes until it changes.
Making ==
  built # << >> => \A i \in 1 .. Len(K.build.body) : \A op \in Checks : \A p \in Ps :
    /\ Did("build", i) /\ K.build.body[i] = <<op, p>>
    /\ \A j \in i + 1 .. Len(K.build.body) : Did("build", j) => K.build.body[j] \notin Changes(p)
    => Made(B, op)[p] = B.obj[p]

SoundBuild(b) ==
  \A p \in Ps : b.sig[p] # NoObject =>
      /\ b.sig[p] = b.obj[p]
      /\ Makes("prevail", p) => b.prevail[p] = b.sig[p]
      /\ Makes("native", p) => b.native[p] = b.sig[p]
      /\ Makes("digest", p) => b.digest[p] = b.sig[p]

Building ==
  /\ built # << >> /\ B.passed => proc["build"].receipt = "passed"
  /\ \A n \in 1 .. Len(built) :
       /\ \A p \in Ps : built[n].sig[p] # NoObject =>
            \E i \in 1 .. Len(K.build.body) : K.build.body[i] \in {"sign", "import"} \X {p}
       /\ built[n].passed => SoundBuild(built[n])

\* The sources that were digested are not newer than those that were compiled.
Aging ==
  /\ \A n \in 1 .. Len(built) :
       /\ built[n].rec <= src /\ \A p \in Ps : built[n].obj[p].src <= src
       /\ built[n].passed /\ In(K.verify.body, "sources") =>
            \A p \in Ps : built[n].rec <= built[n].obj[p].src
  /\ built # << >> /\ In(K.verify.body, "sources") =>
       \A i \in 1 .. Len(K.build.body) : \A p \in Ps :
         Did("build", i) /\ K.build.body[i] = <<"compile", p>> => B.rec <= B.obj[p].src

\* What the verifier has looked at is still so.
Verifying ==
  \A i \in 1 .. Len(K.verify.body) : Did("verify", i) =>
    LET op == K.verify.body[i][1] IN
    /\ op \in {"receipts", "build"} => A.passed
    /\ op = "sources" => A.rec = src
    /\ op = "same build" => A = U
    /\ op = "result" => saved.result = "passed"
    /\ op = "events" => EventsOk

-----------------------------------------------------------------------------
\* The suite has ended with a result, or the evidence says that there was none.
Settled == proc["suite"].receipt \in {"passed", "failed"}
KeptNow == saved.kept = IF proc["suite"].phase = "idle" THEN "blocked" ELSE proc["suite"].receipt

\* The driver's receipt follows the suite, its copy of the result is final.
Reporting ==
  /\ \A i \in 1 .. Len(K.live.body) : Did("live", i) /\ K.live.body[i][1] = "suite" =>
       proc["suite"].receipt = "passed"
  /\ saved.result \in {"passed", "failed"} =>
       /\ saved.result = proc["suite"].receipt
       /\ saved.got = w.got /\ saved.sent = w.sent /\ saved.target = w.target
  /\ proc["suite"].phase # "idle" /\ (In(K.cleanup.body, "created") \/ In(K.reset.body, "created")) =>
       w.collector # "absent" \/ w.fixture # "up"
  /\ \A i \in 1 .. Len(K.live.body) : proc["live"].phase = "body" /\ Did("live", i) /\ K.live.body[i][1] = "up" =>
       w.collector # "absent"

Quiet == Settled \/ (proc["suite"].phase = "idle" /\ ~Running("live"))

\* What a step that looks at the evidence or at the hooks has shown.
Shown(s) ==
  /\ s[1] = "manifest" => KeptNow
  /\ s[1] = "disarmed" => \A p \in Ps : T.text[p] = "nop"
  /\ s[1] = "untouched" /\ s[2] \in Ps => T.text[s[2]] = "nop"

Archiving ==
  \A x \in {"cleanup", "reset"} : proc[x].phase = "body" =>
    \A e \in 1 .. Len(K[x].body) :
      Did(x, e) /\ K[x].body[e][1] \in {"passed run", "result", "created"} =>
        Quiet /\ \A d \in e + 1 .. Len(K[x].body) : Did(x, d) => Shown(K[x].body[d])

Removed ==
  w.fixture = "removed" =>
    /\ KeptNow /\ \A p \in Ps : T.text[p] = "nop"
    /\ Settled \/ proc["suite"].phase = "idle"
    /\ proc["suite"].phase = "idle" /\ proc["live"].phase = "body" =>
         \A i \in 1 .. Len(K.live.body) : Did("live", i) => K.live.body[i][1] # "before"

-----------------------------------------------------------------------------
\* No answer was lost and no cleanup failed, or the process knows of no failure.
Good(x) == ~hurt \/ ~(proc[x].failed \/ proc[x].errors)

\* What is armed or loaded is noted.
SuiteNotes ==
  /\ Good("suite") => \A p \in Ps :
       /\ T.text[p] = "call" => p \in proc["suite"].armed
       /\ T.slot[p] # NoObject => p \in proc["suite"].loaded
  /\ \A p \in proc["suite"].armed : \E i \in 1 .. Len(K.suite.body) : K.suite.body[i] = <<"arm", p>>
  /\ \A p \in proc["suite"].loaded : \E i \in 1 .. Len(K.suite.body) : K.suite.body[i] = <<"load", p>>
  /\ proc["suite"].receipt = None => proc["suite"].armed = {} /\ proc["suite"].loaded = {}
  /\ w.keys => In(K.suite.prep, "keys")
  /\ w.request # None => In(K.suite.body, "ask")

\* What is watched or started is noted.
LiveNotes ==
  /\ w.monitors \subseteq proc["live"].watching
  /\ \A p \in proc["live"].watching : \E i \in 1 .. Len(K.live.body) : K.live.body[i] = <<"watch", p>>
  /\ Good("live") => (w.collector = "up" => proc["live"].started)
  /\ proc["live"].started => In(K.live.body, "up")
  /\ \A i \in 1 .. Len(K.live.body) : Did("live", i) /\ K.live.body[i][1] = "up" => proc["live"].started
  /\ proc["live"].receipt = None => proc["live"].watching = {} /\ ~proc["live"].started

\* A program noted as armed was armed, and not disarmed since.
ArmedAt(p, a) ==
  /\ K.suite.body[a] = <<"arm", p>>
  /\ \A d \in a + 1 .. proc["suite"].pos - 1 : K.suite.body[d] # <<"disarm", p>>
Arming ==
  proc["suite"].phase = "body" =>
    \A p \in proc["suite"].armed : \E a \in 1 .. proc["suite"].pos - 1 : ArmedAt(p, a)

\* Programs that are never loaded while their hook is armed.
Apart(p) ==
  \A i \in 1 .. Len(K.suite.body) : K.suite.body[i] = <<"load", p>> =>
    \A a \in 1 .. i - 1 : K.suite.body[a] = <<"arm", p>> =>
      \E d \in a + 1 .. i - 1 : K.suite.body[d] = <<"disarm", p>>
Refusing ==
  ~hurt => \A p \in Ps : Apart(p) /\ p \in proc["suite"].armed /\ T.text[p] = "nop" => T.slot[p] = NoObject

\* What lies behind a cleanup is undone.
SuiteUndoing ==
  Good("suite") => \A b \in 1 .. Len(K.suite.final) :
    LET s == K.suite.final[b] IN
    /\ Undone("suite", b, 1) => \A p \in Ps :
         /\ s[1] = <<"disarm", p>> => T.text[p] = "nop"
         /\ s[1] = <<"revoke", p>> => T.slot[p] = NoObject
    /\ Undone("suite", b, 1) /\ s[1][1] = "erase" => ~w.keys
    /\ Undone("suite", b, 2) => \A p \in Ps :
         Len(s) > 1 /\ s[1] = <<"disarm", p>> /\ s[2] = <<"revoke", p>> /\ Apart(p) =>
           T.slot[p] = NoObject
LiveUndoing ==
  Good("live") => \A b \in 1 .. Len(K.live.final) :
    LET s == K.live.final[b] IN
    /\ Undone("live", b, 1) /\ s[1][1] = "unwatch" => s[1][2] \notin w.monitors
    /\ \A j \in 1 .. Len(s) :
         Undone("live", b, j) /\ s[j][1] = "down" /\ (\A h \in 1 .. j - 1 : s[h][1] = "logs") =>
           w.collector # "up" \/ proc["live"].ignored

-----------------------------------------------------------------------------
\* What the suite has compared is still so, until it reads anew.
Restored(t) ==
  /\ \A i \in t .. Len(K.suite.body) : K.suite.body[i][1] # "disarm"
  /\ \A a \in 1 .. Len(K.suite.body) : K.suite.body[a][1] = "arm" =>
       \E d \in a + 1 .. Len(K.suite.body) : K.suite.body[d] = <<"disarm", K.suite.body[a][2]>>
Unread(t, ops) ==
  \A j \in t + 1 .. Len(K.suite.body) : Did("suite", j) => K.suite.body[j][1] \notin ops
Receiving ==
  \A t \in 1 .. Len(K.suite.body) : Did("suite", t) =>
    LET op == K.suite.body[t][1] IN
    /\ op \in {"exact", "pages"} /\ Unread(t, {"counts", "drain", "target"}) => w.got = w.target
    /\ Restored(t) => \A p \in Ps : T.text[p] = "nop"
    /\ op = "target" /\ Restored(t) /\ Unread(t, {"counts", "target"}) /\ T.tmm = 1 =>
         \A p \in Ps : w.target[p] = T.fired[p] - w.base[p]
    /\ op = "compare" /\ Restored(t) /\ Unread(t, {"counts", "drain", "pages"}) => w.got = w.sent


-----------------------------------------------------------------------------
(* What lies behind a process.                                             *)

\* The body's step at which it is takes effect.
Gains(x, i) ==
  /\ StepOf(x) /\ Passes(x) /\ proc[x].phase = "body" /\ proc[x].pos = i /\ Running(x)
  /\ Current(x) = c[x].body[i] /\ i \in 1 .. Len(c[x].body)

LEMMA DidMoves ==
  ASSUME Types, Controlled, Moves, NEW x \in Procs, NEW i, Did(x, i)'
  PROVE  /\ \A j \in Nat : Did(x, j) => Did(x, j)'
         /\ Did(x, i) \/ Gains(x, i)
         /\ i \in 1 .. Len(c[x].body)
<1>0. /\ Control1(x) /\ Control1(x)' /\ c' = c /\ proc[x] \in Process
  BY ControlledStep DEF Controlled, Types, Moves
<1>1. i \in 1 .. Len(c[x].body) BY <1>0 DEF Did, K
<1>s. c[x].body \in Seq(STRING \X STRING) BY Formed, Parts
<1>2. CASE proc'[x] = proc[x] BY <1>0, <1>1, <1>2 DEF Did, K
<1>3. CASE Raise(x) /\ Running(x)
  <2>1. CASE proc[x].phase = "prep"
    BY <1>0, <1>1, <1>3, <2>1 DEF Raise, Did, K
  <2>2. CASE proc[x].phase = "body"
    <3>1. proc[x].receipt # "passed" BY <1>0, <2>2 DEF Control1, Held, None
    <3> QED BY <1>0, <1>1, <1>3, <2>2, <3>1 DEF Raise, Did, K
  <2>3. CASE proc[x].phase = "final"
    <3>1. proc[x].receipt # "passed" BY <1>0, <2>3 DEF Control1, Held, None
    <3> QED BY <1>0, <1>1, <1>3, <2>3, <3>1 DEF Raise, Did, K
  <2> QED BY <1>3, <2>1, <2>2, <2>3 DEF Running
<1>4. CASE StepOf(x) /\ Advance(x) /\ (Passes(x) \/ Skips(x))
  <2>0. Running(x) BY <1>4 DEF StepOf
  <2>1. proc[x].pos \in 1 .. Len(Steps(x)) /\ (proc[x].phase = "body" => Steps(x) = c[x].body)
    BY <2>0, AtStep
  <2>2. CASE proc[x].phase = "prep"
    BY <1>0, <1>1, <1>4, <2>2 DEF Advance, Did, K
  <2>3. CASE proc[x].phase = "body"
    <3>1. Steps(x) = c[x].body /\ proc[x].pos \in 1 .. Len(c[x].body) BY <2>1, <2>3
    <3>2. Passes(x) BY <1>4, <2>3 DEF Skips, Skipped, Ignores
    <3>3. proc[x].receipt # "passed" /\ ~proc[x].failed BY <1>0, <2>3 DEF Control1, Held, None
    <3>4. i <= proc[x].pos
      BY <1>0, <1>1, <1>4, <2>3, <3>1, <3>3 DEF Advance, Did, K
    <3>5. \A j \in Nat : Did(x, j) => Did(x, j)'
      <4>1. SUFFICES ASSUME NEW j \in Nat, Did(x, j) PROVE Did(x, j)' OBVIOUS
      <4>2. j < proc[x].pos /\ j \in 1 .. Len(c[x].body) BY <2>3, <3>3, <4>1 DEF Did, K
      <4>3. CASE proc'[x].phase = "body" /\ proc'[x].pos = proc[x].pos + 1
        BY <1>0, <3>1, <4>2, <4>3 DEF Did, K
      <4>4. CASE proc'[x].phase = "final" /\ ~proc'[x].failed
        BY <1>0, <4>2, <4>4 DEF Did, K
      <4>5. CASE proc'[x].receipt = "passed"
        BY <1>0, <4>2, <4>5 DEF Did, K
      <4>6. ~proc[x].errors BY <1>0, <2>3 DEF Control1
      <4> QED BY <1>4, <2>3, <3>3, <4>3, <4>4, <4>5, <4>6 DEF Advance
    <3>6. CASE i < proc[x].pos BY <1>1, <2>3, <3>5, <3>6 DEF Did, K
    <3>7. CASE i = proc[x].pos
      <4>1. Current(x) = c[x].body[i] BY <3>1, <3>7 DEF Current
      <4> QED BY <1>1, <1>4, <2>0, <2>3, <3>2, <3>5, <3>7, <4>1 DEF Gains
    <3>8. i \in Int /\ proc[x].pos \in Int BY <1>1, <3>1
    <3> QED BY <3>4, <3>6, <3>7, <3>8
  <2>4. CASE proc[x].phase = "final"
    <3>1. proc[x].receipt # "passed" BY <1>0, <2>4 DEF Control1, Held, None
    <3>2. ~proc[x].failed BY <1>0, <1>1, <1>4, <2>4, <3>1 DEF Advance, Did, K
    <3>3. ~proc'[x].failed BY <1>4, <3>2 DEF Advance
    <3>4. (proc'[x].phase = "final" /\ ~proc'[x].failed) \/ proc'[x].receipt = "passed"
      BY <1>4, <2>4, <3>2, <3>3, <1>1, <1>0 DEF Advance, Did
    <3> QED BY <1>0, <1>1, <2>4, <3>2, <3>4 DEF Did, K
  <2> QED BY <2>0, <2>2, <2>3, <2>4 DEF Running
<1>5. CASE x = "live" /\ Again
  <2>1. proc'[x].receipt = proc[x].receipt /\ proc'[x].phase = "prep" /\ proc[x].phase = "done"
    BY <1>0, <1>5 DEF Again, Process
  <2> QED BY <1>0, <1>1, <2>1 DEF Did, K
<1>6. CASE Begin(x)
  <2>1. proc'[x].receipt = None /\ proc'[x].pos = 1 /\ proc'[x].phase \in {"prep", "body"}
    BY <1>6, Formed, StartedShape DEF Begin
  <2> QED BY <1>0, <1>1, <2>1 DEF Did, K, None
<1> QED BY <1>2, <1>3, <1>4, <1>5, <1>6, OneMoves
       DEF StepOf, Passes, Skips, Backfires, Refused, Deserts

\* A process knows of no failure, or no answer was lost: this is never regained.
LEMMA GoodMoves ==
  ASSUME Types, Controlled, Moves, NEW x \in Procs \ {"build"}
  PROVE  /\ proc[x].failed \/ proc[x].errors => proc'[x].failed \/ proc'[x].errors
         /\ Good(x)' => Good(x)
<1>0. proc[x] \in Process /\ Control1(x) BY DEF Types, Controlled
<1>1. proc[x].failed \/ proc[x].errors => proc'[x].failed \/ proc'[x].errors
  <2>1. CASE proc'[x] = proc[x] BY <2>1
  <2>2. CASE Advance(x) BY <2>2 DEF Advance
  <2>3. CASE Raise(x) BY <2>3 DEF Raise
  <2>4. CASE x = "live" /\ Again BY <1>0, <2>4 DEF Again, Process
  <2>5. CASE Begin(x)
    <3>1. proc[x].phase = "idle" BY <2>5 DEF Begin
    <3> QED BY <1>0, <3>1 DEF Control1, NewProc
  <2> QED BY <2>1, <2>2, <2>3, <2>4, <2>5, OneMoves DEF StepOf, Passes, Skips, Backfires, Refused, Deserts
<1>2. hurt => hurt' BY DEF Moves
<1> QED BY <1>1, <1>2 DEF Good

\* The cleanup's step at which it is comes to lie behind it.
Leaps(x, b, j) ==
  /\ StepOf(x) /\ Running(x) /\ proc[x].phase = "final" /\ proc[x].block = b
  /\ \/ proc[x].pos = j /\ (Passes(x) \/ Skips(x))
     \/ proc[x].pos \in 1 .. j /\ ~hurt' /\ (Backfires(x) \/ Refused(x))

LEMMA UndoneMoves ==
  ASSUME Types, Controlled, Moves, NEW x \in {"live", "suite"},
         NEW b \in 1 .. Len(c[x].final), NEW j \in 1 .. Len(c[x].final[b]),
         Undone(x, b, j)', Good(x)'
  PROVE  Undone(x, b, j) \/ Leaps(x, b, j)
<1>x. x \in Procs BY DEF Procs
<1>0. /\ Control1(x) /\ Control1(x)' /\ c' = c /\ proc[x] \in Process
  BY <1>x, ControlledStep DEF Controlled, Types, Moves
<1>s. c[x].final \in Seq(Seq(STRING \X STRING)) BY <1>x, Formed, Parts
<1>1. SUFFICES ASSUME ~Undone(x, b, j) PROVE Leaps(x, b, j) OBVIOUS
<1>2. proc'[x] # proc[x] BY <1>1 DEF Undone
<1>3. ~(x = "live" /\ Again)
  <2>1. SUFFICES ASSUME x = "live", Again PROVE FALSE OBVIOUS
  <2>2. proc'[x].receipt = proc[x].receipt /\ proc'[x].phase = "prep" BY <1>0, <2>1 DEF Again, Process
  <2> QED BY <1>1, <2>2 DEF Undone
<1>4. ~Begin(x)
  <2>1. SUFFICES ASSUME Begin(x) PROVE FALSE OBVIOUS
  <2>2. proc'[x].receipt = None /\ proc'[x].phase \in {"prep", "body"}
    BY <1>x, <2>1, Formed, StartedShape DEF Begin
  <2> QED BY <2>2 DEF Undone, None
<1>5. StepOf(x) \/ (x = "live" /\ Deserts) BY <1>x, <1>2, <1>3, <1>4, OneMoves
<1>6. Running(x) /\ (Advance(x) \/ Raise(x))
  BY <1>5 DEF StepOf, Passes, Skips, Backfires, Refused, Deserts
<1>7. proc[x].phase \in {"prep", "body", "final"} BY <1>6 DEF Running
<1>8. Len(c[x].final) \in Nat /\ proc[x].block \in Nat /\ b \in Nat /\ b > 0 /\ j \in Nat
  <2>1. Len(c[x].final) \in Nat BY <1>s
  <2>2. c[x].final[b] \in Seq(STRING \X STRING) BY <1>s
  <2> QED BY <1>0, <2>1, <2>2 DEF Process
<1>9. proc[x].phase # "prep"
  <2>1. SUFFICES ASSUME proc[x].phase = "prep" PROVE FALSE OBVIOUS
  <2>2. proc'[x].phase # "final" /\ proc'[x].receipt \in {"open", proc[x].receipt}
    BY <1>6, <2>1 DEF Advance, Raise
  <2> QED BY <1>1, <2>2 DEF Undone
<1>10. proc[x].phase # "body"
  <2>1. SUFFICES ASSUME proc[x].phase = "body" PROVE FALSE OBVIOUS
  <2>2. proc[x].block = 0 BY <1>0, <2>1 DEF Control1
  <2>3. proc[x].receipt \in {None, "open"} BY <1>0, <2>1 DEF Control1, Held
  <2>4. \/ proc'[x].phase = "body" /\ proc'[x].receipt = proc[x].receipt
        \/ proc'[x].phase = "final" /\ proc'[x].block = 1 /\ proc'[x].pos = 1 /\ proc'[x].receipt = proc[x].receipt
    BY <1>6, <1>8, <2>1, <2>2 DEF Advance, Raise, K
  <2> QED BY <1>8, <2>3, <2>4 DEF Undone, None
<1>11. proc[x].phase = "final" /\ StepOf(x) BY <1>5, <1>7, <1>9, <1>10 DEF Deserts
<1>12. /\ proc[x].block \in 1 .. Len(c[x].final) /\ proc[x].pos \in 1 .. Len(c[x].final[proc[x].block])
       /\ Steps(x) = c[x].final[proc[x].block]
  BY <1>0, <1>11, <1>x, <1>6, AtStep DEF Control1, K
<1>13. proc[x].pos \in Nat /\ proc[x].pos > 0 BY <1>12
<1>14. ~(proc[x].block > b) /\ ~(proc[x].block = b /\ proc[x].pos > j) BY <1>1, <1>11 DEF Undone
<1>15. CASE Passes(x) \/ Skips(x)
  <2>1. Advance(x) BY <1>15 DEF Passes, Skips
  <2>2. proc[x].block = b /\ proc[x].pos = j
    <3>1. CASE /\ proc'[x].pos = proc[x].pos + 1 /\ proc'[x].phase = "final" /\ proc'[x].block = proc[x].block
               /\ proc'[x].receipt = proc[x].receipt
      <4>1. proc[x].block = b /\ proc[x].pos + 1 > j BY <1>1, <1>8, <1>11, <1>14, <3>1 DEF Undone
      <4> QED BY <1>8, <1>13, <1>14, <4>1
    <3>2. CASE /\ proc[x].pos = Len(Steps(x)) /\ proc'[x].phase = "final" /\ proc'[x].block = proc[x].block + 1
               /\ proc'[x].pos = 1 /\ proc'[x].receipt = proc[x].receipt
      <4>1. proc[x].block + 1 > b \/ (proc[x].block + 1 = b /\ 1 > j) BY <1>1, <3>2 DEF Undone
      <4>2. proc[x].block = b BY <1>8, <1>14, <4>1
      <4>3. proc[x].pos = Len(c[x].final[b]) BY <1>12, <3>2, <4>2
      <4> QED BY <1>8, <1>13, <1>14, <4>2, <4>3
    <3>3. CASE proc[x].pos = Len(Steps(x)) /\ proc[x].block >= Len(c[x].final)
      <4>1. proc[x].block = b BY <1>8, <1>14, <3>3
      <4>2. proc[x].pos = Len(c[x].final[b]) BY <1>12, <3>3, <4>1
      <4> QED BY <1>8, <1>13, <1>14, <4>1, <4>2
    <3> QED BY <1>11, <2>1, <3>1, <3>2, <3>3 DEF Advance, K
  <2> QED BY <1>6, <1>11, <1>15, <2>2 DEF Leaps
<1>16. CASE Backfires(x) \/ Refused(x)
  <2>1. Raise(x) BY <1>16 DEF Backfires, Refused
  <2>2. proc'[x].errors BY <1>11, <2>1 DEF Raise
  <2>3. ~hurt' BY <2>2 DEF Good
  <2>4. Current(x)[1] # "close"
    <3>1. SUFFICES ASSUME Current(x)[1] = "close" PROVE FALSE OBVIOUS
    <3>2. ~Backfires(x) BY <3>1 DEF Backfires, WorldOps
    <3>3. ~Ok(x, Current(x)) BY <1>11, <1>16, <2>3, <3>2 DEF Refused
    <3> QED BY <3>1, <3>3 DEF Ok, LiveOk, SuiteOk
  <2>5. proc[x].block = b
    <3>1. \/ proc'[x].phase = "final" /\ proc'[x].block = proc[x].block + 1 /\ proc'[x].pos = 1
             /\ proc'[x].receipt = proc[x].receipt
          \/ proc[x].block >= Len(c[x].final)
      BY <1>11, <2>1, <2>4 DEF Raise, K
    <3>2. CASE /\ proc'[x].phase = "final" /\ proc'[x].block = proc[x].block + 1 /\ proc'[x].pos = 1
               /\ proc'[x].receipt = proc[x].receipt
      <4>1. proc[x].block + 1 > b \/ (proc[x].block + 1 = b /\ 1 > j) BY <1>1, <3>2 DEF Undone
      <4> QED BY <1>8, <1>14, <4>1
    <3>3. CASE proc[x].block >= Len(c[x].final) BY <1>8, <1>14, <3>3
    <3> QED BY <3>1, <3>2, <3>3
  <2>6. proc[x].pos \in 1 .. j BY <1>8, <1>13, <1>14, <2>5
  <2> QED BY <1>6, <1>11, <1>16, <2>3, <2>5, <2>6 DEF Leaps
<1> QED BY <1>11, <1>15, <1>16 DEF StepOf

\* A step of the body that takes effect comes to lie behind the process.
LEMMA GainsDid ==
  ASSUME Types, Controlled, Moves, NEW x \in Procs, StepOf(x), Passes(x), proc[x].phase = "body"
  PROVE  \E k \in 1 .. Len(c[x].body) :
           /\ k = proc[x].pos /\ Did(x, k)' /\ Current(x) = c[x].body[k]
           /\ \A j \in Nat : Did(x, j) => j < k
<1>1. Running(x) /\ Advance(x) /\ c' = c BY DEF StepOf, Passes
<1>2. Control1(x) BY DEF Controlled
<1>3. Steps(x) = c[x].body /\ proc[x].pos \in 1 .. Len(c[x].body) BY <1>1, AtStep
<1>4. proc[x].receipt # "passed" /\ ~proc[x].failed /\ ~proc[x].errors
  BY <1>2 DEF Control1, Held, None
<1>5. \/ proc'[x].phase = "body" /\ proc'[x].pos = proc[x].pos + 1
      \/ proc'[x].phase = "final" /\ ~proc'[x].failed
      \/ proc'[x].receipt = "passed"
  BY <1>1, <1>4 DEF Advance
<1>6. PICK k \in 1 .. Len(c[x].body) : k = proc[x].pos BY <1>3
<1>7. k < proc[x].pos + 1 BY <1>6
<1>8. Did(x, k)' BY <1>1, <1>5, <1>7 DEF Did, K
<1>9. \A j \in Nat : Did(x, j) => j < k BY <1>4, <1>6 DEF Did
<1>10. Current(x) = c[x].body[k] BY <1>3, <1>6 DEF Current
<1> QED BY <1>6, <1>8, <1>9, <1>10

-----------------------------------------------------------------------------
(* Builds.                                                                 *)

LEMMA BuiltEach ==
  ASSUME Types, BuiltMoves, Excluded, NEW n \in 1 .. Len(built')
  PROVE  \/ n \in 1 .. Len(built) /\ built'[n] = built[n]
         \/ BeginBuild /\ n = Len(built) + 1 /\ built'[n] = NewBuild(Ps)
         \/ /\ Fabricates /\ n = Len(built) /\ n \in 1 .. Len(built)
            /\ Fills(Current("build")[1], Current("build")[2], built'[n])
         \/ /\ EndBuild /\ n = Len(built) /\ n \in 1 .. Len(built)
            /\ built'[n] = [B EXCEPT !.passed = TRUE]
<1>1. /\ Len(built) \in Nat /\ Len(built') \in Nat
      /\ ~BeginBuild => Len(built') = Len(built)
      /\ \A m \in 1 .. Len(built) : m # Len(built) \/ BeginBuild => built'[m] = built[m]
      /\ BeginBuild => built'[Len(built) + 1] = NewBuild(Ps) /\ Len(built') = Len(built) + 1
      /\ EndBuild => built'[Len(built)] = [B EXCEPT !.passed = TRUE]
      /\ Fabricates => Fills(Current("build")[1], Current("build")[2], built'[Len(built)])
  BY BuiltGrows
<1>2. CASE BeginBuild
  <2>1. n \in 1 .. Len(built) \/ n = Len(built) + 1 BY <1>1, <1>2
  <2> QED BY <1>1, <1>2, <2>1
<1>3. CASE ~BeginBuild /\ n # Len(built)
  <2>1. n \in 1 .. Len(built) BY <1>1, <1>3
  <2> QED BY <1>1, <1>3, <2>1
<1>4. CASE ~BeginBuild /\ n = Len(built)
  <2>1. n \in 1 .. Len(built) BY <1>1, <1>4
  <2> QED BY <1>1, <1>4, <2>1 DEF BuiltMoves
<1> QED BY <1>2, <1>3, <1>4

\* A build that passed has left all its steps behind, one that begins none.
LEMMA BuildDid ==
  ASSUME Types, Controlled
  PROVE  /\ proc["build"].receipt = "passed" =>
              proc["build"].phase = "done" /\ \A i \in 1 .. Len(c.build.body) : Did("build", i)
         /\ Running("build") => proc["build"].receipt # "passed"
         /\ \A i : Did("build", i) => proc["build"].phase # "idle"
<1>1. "build" \in Procs /\ proc["build"] \in Process BY DEF Types, Procs
<1>2. Control1("build") BY <1>1 DEF Controlled
<1>3. Running("build") => proc["build"].receipt # "passed"
  BY <1>2 DEF Control1, Held, None, Running
<1>4. proc["build"].phase = "idle" => proc["build"].receipt # "passed"
  BY <1>2 DEF Control1, NewProc, None
<1>5. proc["build"].receipt = "passed" => proc["build"].phase = "done"
  BY <1>1, <1>3, <1>4 DEF Process, Running
<1> QED BY <1>3, <1>4, <1>5 DEF Did, K

LEMMA NoDidAtBegin ==
  ASSUME Sound, [Next]_vars, BeginBuild, NEW i
  PROVE  ~Did("build", i)'
<1>1. "build" \in Procs /\ Shaped(c) /\ proc \in [Procs -> Process] BY Formed DEF Sound, Types, Procs
<1>2. proc'["build"] = Started("build") BY <1>1 DEF BeginBuild
<1>3. proc'["build"].receipt = None /\ proc'["build"].pos = 1 /\ proc'["build"].phase \in {"prep", "body"}
  BY <1>1, <1>2, StartedShape
<1> QED BY <1>3 DEF Did, None

LEMMA MakingStep ==
  ASSUME Sound, Making, [Next]_vars
  PROVE  Making'
<1>0. /\ Types /\ Controlled /\ Excluded /\ Types' /\ Controlled' /\ Moves /\ BuiltMoves
      /\ c' = c /\ Ps' = Ps /\ "build" \in Procs
  BY NextAt DEF Sound, Procs
<1>1. SUFFICES ASSUME NEW i \in 1 .. Len(c.build.body), NEW op \in Checks, NEW p \in Ps,
                      built' # << >>, Did("build", i)', c.build.body[i] = <<op, p>>,
                      \A j \in i + 1 .. Len(c.build.body) : Did("build", j)' => c.build.body[j] \notin Changes(p)
               PROVE  (Made(B, op)[p] = B.obj[p])'
  BY <1>0 DEF Making, K
<1>2. ~BeginBuild BY <1>1, NoDidAtBegin
<1>3. /\ \A j \in Nat : Did("build", j) => Did("build", j)'
      /\ Did("build", i) \/ Gains("build", i)
  BY <1>0, <1>1, DidMoves
<1>4. Len(built') = Len(built) /\ Len(built) \in Nat BY <1>0, <1>2, BuiltGrows
<1>5. built # << >> /\ Len(built) \in 1 .. Len(built)
  <2>1. built \in Seq(Directory) /\ built' \in Seq(Directory') BY <1>0 DEF Types
  <2> QED BY <1>1, <1>4, <2>1
<1>6. B' = built'[Len(built)] BY <1>4 DEF B
<1>7. CASE Gains("build", i)
  <2>1. Takes(Current("build")) /\ Running("build") /\ Current("build") = <<op, p>>
    BY <1>1, <1>7 DEF Gains, Passes
  <2>2. Current("build")[1] = op /\ Current("build")[2] = p BY <2>1
  <2>3. op \in BuildOps BY DEF Checks, BuildOps
  <2>4. built' = [built EXCEPT ![Len(built)] = BuildDo(op, p)]
    BY <1>0, <2>1, <2>2, <2>3, TakesShape
  <2>5. Current("build") \in STRING \X STRING BY <1>0, <2>1, AtStep
  <2>6. Fabricates BY <1>5, <1>7, <2>2, <2>3, <2>4, <2>5 DEF Fabricates, Gains
  <2>7. Fills(op, p, built'[Len(built)]) BY <1>0, <2>2, <2>6, BuiltGrows
  <2>8. Made(built'[Len(built)], op)[p] = built'[Len(built)].obj[p] BY <2>7 DEF Fills
  <2> QED BY <1>6, <2>8 DEF Made
<1>8. CASE Did("build", i)
  <2>1. \A j \in i + 1 .. Len(c.build.body) : Did("build", j) => c.build.body[j] \notin Changes(p)
    BY <1>1, <1>3
  <2>2. Made(B, op)[p] = B.obj[p] BY <1>1, <1>5, <1>8, <2>1 DEF Making, K
  <2>3. B \in Directory BY <1>0, <1>5, Newest
  <2>4. CASE built' = built BY <1>6, <2>2, <2>4 DEF Made, B
  <2>5. CASE EndBuild
    <3>1. B' = [B EXCEPT !.passed = TRUE] BY <1>0, <1>6, <2>5, BuiltGrows
    <3>2. /\ B'.obj = B.obj /\ B'.prevail = B.prevail /\ B'.native = B.native
          /\ B'.digest = B.digest /\ B'.sig = B.sig
      BY <2>3, <3>1 DEF Directory
    <3> QED BY <2>2, <3>2 DEF Made
  <2>6. CASE Fabricates
    <3> DEFINE s == Current("build")
               D == built'[Len(built)]
    <3>1. Fills(s[1], s[2], D) BY <1>0, <2>6, BuiltGrows
    <3>2. PICK k \in 1 .. Len(c["build"].body) :
            /\ k = proc["build"].pos /\ Did("build", k)' /\ s = c["build"].body[k]
            /\ \A j \in Nat : Did("build", j) => j < k
      BY <1>0, <2>6, GainsDid DEF Fabricates
    <3>3. i < k BY <1>8, <3>2
    <3>4. k \in i + 1 .. Len(c.build.body) BY <3>2, <3>3
    <3>5. s \notin Changes(p) BY <1>1, <3>2, <3>4
    <3>6. s \in STRING \X STRING BY <2>6 DEF Fabricates
    <3>7. s = <<s[1], s[2]>> BY <3>6
    <3>8. D.obj[p] = B.obj[p] BY <3>1, <3>5, <3>7 DEF Fills
    <3>9. Made(D, op)[p] = D.obj[p]
      <4>1. CASE s[2] # p BY <2>2, <3>1, <3>8, <4>1 DEF Fills, Made
      <4>2. CASE s[2] = p
        <5>1. s[1] # "import" BY <3>5, <3>7, <4>2 DEF Changes
        <5>2. CASE s[1] = op BY <3>1, <4>2, <5>2 DEF Fills
        <5>3. CASE s[1] = "sign" /\ op = "import" BY <3>1, <4>2, <5>3 DEF Fills, Made, Checks
        <5>4. CASE s[1] # op /\ ~(s[1] = "sign" /\ op = "import")
          BY <2>2, <3>1, <3>8, <5>1, <5>4 DEF Fills, Made, Checks
        <5> QED BY <5>2, <5>3, <5>4
      <4> QED BY <4>1, <4>2
    <3> QED BY <1>6, <3>9 DEF Made
  <2> QED BY <1>0, <1>2, <2>4, <2>5, <2>6 DEF BuiltMoves
<1> QED BY <1>3, <1>7, <1>8

\* The bytes of the newest build when its receipt is written.
LEMMA PassedBuild ==
  ASSUME Types, Controlled, Excluded, Making, Building, proc["build"].receipt = "passed"
  PROVE  built # << >> /\ SoundBuild(B)
<1>1. proc["build"].phase = "done" /\ \A i \in 1 .. Len(c.build.body) : Did("build", i) BY BuildDid
<1>2. built # << >> BY <1>1 DEF Excluded
<1>3. Len(built) \in 1 .. Len(built) BY <1>2, Newest
<1>4. ASSUME NEW ops \in SUBSET Checks, NEW p \in Ps, MadeLast(c.build.body, ops, p)
      PROVE  \E op \in ops : Made(B, op)[p] = B.obj[p]
  <2>1. PICK i \in 1 .. Len(c.build.body) :
          /\ c.build.body[i] \in ops \X {p}
          /\ \A j \in i + 1 .. Len(c.build.body) : c.build.body[j] \notin Changes(p)
    BY <1>4 DEF MadeLast
  <2>2. PICK op \in ops : c.build.body[i] = <<op, p>> BY <2>1
  <2> QED BY <1>1, <1>2, <2>1, <2>2 DEF Making, K
<1>5. ASSUME NEW p \in Ps, B.sig[p] # NoObject
      PROVE  /\ B.sig[p] = B.obj[p]
             /\ Makes("prevail", p) => B.prevail[p] = B.sig[p]
             /\ Makes("native", p) => B.native[p] = B.sig[p]
             /\ Makes("digest", p) => B.digest[p] = B.sig[p]
  <2>1. \E i \in 1 .. Len(c.build.body) : c.build.body[i] \in {"sign", "import"} \X {p}
    BY <1>3, <1>5 DEF Building, B, K
  <2>2. /\ MadeLast(c.build.body, {"sign", "import"}, p)
        /\ \A op \in {"prevail", "native", "digest"} :
             (\E i \in 1 .. Len(c.build.body) : c.build.body[i] = <<op, p>>) =>
               MadeLast(c.build.body, {op}, p)
    BY <2>1, Formed DEF SignsLast, Ps, K
  <2>3. B.sig[p] = B.obj[p]
    <3>1. PICK op \in {"sign", "import"} : Made(B, op)[p] = B.obj[p] BY <1>4, <2>2 DEF Checks
    <3> QED BY <3>1 DEF Made
  <2>4. Makes("prevail", p) => B.prevail[p] = B.obj[p]
    <3>1. SUFFICES ASSUME Makes("prevail", p) PROVE B.prevail[p] = B.obj[p] OBVIOUS
    <3>2. MadeLast(c.build.body, {"prevail"}, p) BY <2>2, <3>1 DEF Makes, K
    <3>3. \E op \in {"prevail"} : Made(B, op)[p] = B.obj[p] BY <1>4, <3>2 DEF Checks
    <3> QED BY <3>3 DEF Made
  <2>5. Makes("native", p) => B.native[p] = B.obj[p]
    <3>1. SUFFICES ASSUME Makes("native", p) PROVE B.native[p] = B.obj[p] OBVIOUS
    <3>2. MadeLast(c.build.body, {"native"}, p) BY <2>2, <3>1 DEF Makes, K
    <3>3. \E op \in {"native"} : Made(B, op)[p] = B.obj[p] BY <1>4, <3>2 DEF Checks
    <3> QED BY <3>3 DEF Made
  <2>6. Makes("digest", p) => B.digest[p] = B.obj[p]
    <3>1. SUFFICES ASSUME Makes("digest", p) PROVE B.digest[p] = B.obj[p] OBVIOUS
    <3>2. MadeLast(c.build.body, {"digest"}, p) BY <2>2, <3>1 DEF Makes, K
    <3>3. \E op \in {"digest"} : Made(B, op)[p] = B.obj[p] BY <1>4, <3>2 DEF Checks
    <3> QED BY <3>3 DEF Made
  <2> QED BY <2>3, <2>4, <2>5, <2>6
<1> QED BY <1>2, <1>5 DEF SoundBuild

\* A build's receipt is passed only when it is through, and its bytes stay.
LEMMA NotPassed ==
  ASSUME Types, Controlled, Excluded, Building, Fabricates
  PROVE  ~B.passed
BY BuildDid DEF Building, Fabricates, StepOf

LEMMA BuildingStep ==
  ASSUME Sound, Making, Building, [Next]_vars
  PROVE  Building'
<1>0. /\ Types /\ Controlled /\ Excluded /\ Types' /\ Controlled' /\ Moves /\ BuiltMoves
      /\ c' = c /\ Ps' = Ps /\ "build" \in Procs
  BY NextAt DEF Sound, Procs
<1>1. Len(built) \in Nat /\ Len(built') \in Nat BY <1>0, BuiltGrows
<1>2. ASSUME NEW n \in 1 .. Len(built')
      PROVE  /\ \A p \in Ps : built'[n].sig[p] # NoObject =>
                  \E i \in 1 .. Len(c.build.body) : c.build.body[i] \in {"sign", "import"} \X {p}
             /\ built'[n].passed => SoundBuild(built'[n])
             /\ n = Len(built') /\ built'[n].passed => proc'["build"].receipt = "passed"
  <2>1. CASE n \in 1 .. Len(built) /\ built'[n] = built[n] /\ ~BeginBuild /\ ~EndBuild /\ ~Fabricates
    <3>1. /\ \A p \in Ps : built'[n].sig[p] # NoObject =>
                  \E i \in 1 .. Len(c.build.body) : c.build.body[i] \in {"sign", "import"} \X {p}
          /\ built'[n].passed => SoundBuild(built'[n])
      BY <2>1 DEF Building, K
    <3>2. SUFFICES ASSUME n = Len(built'), built'[n].passed PROVE proc'["build"].receipt = "passed"
      BY <3>1
    <3>3. Len(built') = Len(built) BY <1>0, <2>1, BuiltGrows
    <3>4. B.passed /\ built # << >> BY <1>0, <2>1, <3>2, <3>3 DEF B, Types
    <3>5. proc["build"].receipt = "passed" BY <3>4 DEF Building
    <3>6. proc["build"].phase = "done" BY <1>0, <3>5, BuildDid
    <3>7. proc'["build"] = proc["build"] BY <1>0, <2>1, <3>6, PhaseMoves DEF Starts
    <3> QED BY <3>5, <3>7
  <2>2. CASE BeginBuild /\ n \in 1 .. Len(built) /\ built'[n] = built[n]
    <3>1. Len(built') = Len(built) + 1 BY <1>0, <2>2, BuiltGrows
    <3> QED BY <1>1, <2>2, <3>1 DEF Building, K
  <2>3. CASE BeginBuild /\ n = Len(built) + 1 /\ built'[n] = NewBuild(Ps)
    BY <2>3, NewBuildShape
  <2>4. CASE (Fabricates \/ EndBuild) /\ n \in 1 .. Len(built) /\ n # Len(built)
    <3>1. ~BeginBuild BY <2>4 DEF Fabricates, EndBuild, BeginBuild, StepOf
    <3>2. built'[n] = built[n] /\ Len(built') = Len(built) BY <1>0, <2>4, <3>1, BuiltGrows
    <3> QED BY <2>4, <3>2 DEF Building, K
  <2>5. CASE Fabricates /\ n \in 1 .. Len(built) /\ n = Len(built)
    <3> DEFINE s == Current("build")
               D == built'[n]
    <3>1. Fills(s[1], s[2], D) BY <1>0, <2>5, BuiltGrows
    <3>2. ~D.passed BY <1>0, <2>5, <3>1, NotPassed DEF Fills
    <3>3. PICK k \in 1 .. Len(c["build"].body) : s = c["build"].body[k]
      BY <1>0, <2>5, GainsDid DEF Fabricates
    <3>4. s \in STRING \X STRING BY <2>5 DEF Fabricates
    <3>5. ASSUME NEW p \in Ps, D.sig[p] # NoObject
          PROVE  \E i \in 1 .. Len(c.build.body) : c.build.body[i] \in {"sign", "import"} \X {p}
      <4>1. CASE p # s[2] \/ s[1] \notin {"sign", "import"}
        <5>1. built[n].sig[p] # NoObject BY <2>5, <3>1, <3>5, <4>1 DEF Fills, B
        <5> QED BY <2>5, <5>1 DEF Building, K
      <4>2. CASE p = s[2] /\ s[1] \in {"sign", "import"}
        <5>1. s \in {"sign", "import"} \X {p} BY <3>4, <4>2
        <5> QED BY <3>3, <5>1
      <4> QED BY <4>1, <4>2
    <3> QED BY <3>2, <3>5
  <2>6. CASE EndBuild /\ n \in 1 .. Len(built) /\ n = Len(built)
    <3>1. proc["build"].receipt = "passed" /\ proc' = proc BY <2>6 DEF EndBuild, Pending
    <3>2. built # << >> /\ SoundBuild(B) BY <1>0, <3>1, PassedBuild
    <3>3. built'[n] = [B EXCEPT !.passed = TRUE] BY <1>0, <2>6, BuiltGrows
    <3>4. B \in Directory BY <1>0, <3>2, Newest
    <3>5. /\ built'[n].obj = B.obj /\ built'[n].prevail = B.prevail /\ built'[n].native = B.native
          /\ built'[n].digest = B.digest /\ built'[n].sig = B.sig
      BY <3>3, <3>4 DEF Directory
    <3>6. SoundBuild(built'[n]) BY <3>2, <3>5 DEF SoundBuild
    <3>7. \A p \in Ps : B.sig[p] # NoObject =>
                  \E i \in 1 .. Len(c.build.body) : c.build.body[i] \in {"sign", "import"} \X {p}
      BY <2>6 DEF Building, K, B
    <3> QED BY <3>1, <3>5, <3>6, <3>7
  <2>7. \/ n \in 1 .. Len(built) /\ built'[n] = built[n]
        \/ BeginBuild /\ n = Len(built) + 1 /\ built'[n] = NewBuild(Ps)
        \/ Fabricates /\ n = Len(built) /\ n \in 1 .. Len(built)
        \/ EndBuild /\ n = Len(built) /\ n \in 1 .. Len(built)
    BY <1>0, BuiltEach
  <2> QED BY <2>1, <2>2, <2>3, <2>4, <2>5, <2>6, <2>7
<1>3. (built # << >> /\ B.passed => proc["build"].receipt = "passed")'
  <2>1. SUFFICES ASSUME built' # << >>, B'.passed PROVE proc'["build"].receipt = "passed" OBVIOUS
  <2>2. Len(built') \in 1 .. Len(built') /\ B' = built'[Len(built')] BY <1>0, <2>1 DEF Types, B
  <2> QED BY <1>2, <2>1, <2>2
<1>4. \A n \in 1 .. Len(built') : SoundBuild(built'[n]) => SoundBuild(built[n])'
  BY <1>0 DEF SoundBuild, Makes, K
<1> QED BY <1>0, <1>2, <1>3, <1>4 DEF Building, K

\* What is signed is what was verified, run and digested: a build's receipt is
\* written when all its steps are behind it, and nothing changes an object after
\* its last check.
THEOREM BuildsSound == Spec => []SignedIsVerified
<1> DEFINE Inv == Sound /\ Making /\ Building
<1>1. Init => Inv
  <2>1. SUFFICES ASSUME Init PROVE Inv OBVIOUS
  <2>2. built = << >> /\ Len(built) = 0 BY <2>1 DEF Init
  <2> QED BY <2>1, <2>2, SoundInit DEF Making, Building
<1>2. Inv /\ [Next]_vars => Inv'
  BY SoundStep, MakingStep, BuildingStep
<1>3. Inv => SignedIsVerified BY DEF Building, SoundBuild, SignedIsVerified
<1> QED BY <1>1, <1>2, <1>3, PTL DEF Spec

-----------------------------------------------------------------------------
(* The age of a build.                                                     *)

LEMMA SrcMoves ==
  ASSUME Types, [Next]_vars
  PROVE  \/ src' = src
         \/ /\ src' = src + 1 /\ proc["verify"].phase = "idle"
            /\ UNCHANGED <<c, proc, built, w, saved, hurt>>
<1>1. ASSUME NEW x \in Procs, Acts(x) PROVE src' = src
  BY <1>1 DEF Acts, StepOk, StepRaises, StepIgnored, StepFaults
<1> QED BY <1>1 DEF Next, vars, Acts, StartSuite, Control, ControlRaises, SuiteTimeout, BeginCreate,
          BeginBuild, EndBuild, BeginLive, BeginBlocked, BeginCleanup, BeginVerify, Rerun, Collect,
          Restart, Background, Drop, Edit

LEMMA AgingStep ==
  ASSUME Sound, Building, Aging, [Next]_vars
  PROVE  Aging'
<1>0. /\ Types /\ Controlled /\ Excluded /\ Types' /\ Controlled' /\ Moves /\ BuiltMoves
      /\ c' = c /\ Ps' = Ps /\ "build" \in Procs
  BY NextAt DEF Sound, Procs
<1>1. Len(built) \in Nat /\ Len(built') \in Nat BY <1>0, BuiltGrows
<1>2. src \in Nat /\ src' \in Nat /\ src <= src' BY <1>0, SrcMoves DEF Types
<1>3. /\ \A n \in 1 .. Len(built) : built[n] \in Directory
      /\ \A n \in 1 .. Len(built') : built'[n] \in Directory
  <2>1. built \in Seq(Directory) /\ built' \in Seq(Directory) BY <1>0, NextFiles DEF Types
  <2> QED BY <2>1
<1>4. \A D \in Directory : D.rec \in Int /\ \A p \in Ps : D.obj[p].src \in Int
  BY DEF Directory, Objects, Bytes
<1>5. ASSUME NEW n \in 1 .. Len(built')
      PROVE  built'[n].rec <= src' /\ \A p \in Ps : built'[n].obj[p].src <= src'
  <2>1. CASE n \in 1 .. Len(built) /\ built'[n] = built[n]
    <3>1. built[n].rec <= src /\ \A p \in Ps : built[n].obj[p].src <= src BY <2>1 DEF Aging
    <3> QED BY <1>2, <1>3, <1>4, <2>1, <3>1
  <2>2. CASE built'[n] = NewBuild(Ps)
    <3>1. built'[n].rec = -1 /\ \A p \in Ps : built'[n].obj[p].src = -1
      BY <2>2, NewBuildShape DEF NoObject
    <3> QED BY <1>2, <3>1
  <2>3. CASE Fabricates /\ n = Len(built) /\ n \in 1 .. Len(built)
             /\ Fills(Current("build")[1], Current("build")[2], built'[n])
    <3> DEFINE s == Current("build")
    <3>0. src' = src BY <2>3 DEF Fabricates, StepOf
    <3>1. B.rec <= src /\ \A p \in Ps : B.obj[p].src <= src BY <2>3 DEF Aging, B
    <3>2. built'[n].rec <= src BY <1>2, <2>3, <3>1 DEF Fills
    <3>3. ASSUME NEW p \in Ps PROVE built'[n].obj[p].src <= src
      <4>1. CASE <<s[1], s[2]>> \notin Changes(p) BY <2>3, <3>1, <4>1 DEF Fills
      <4>2. CASE <<s[1], s[2]>> \in Changes(p)
        <5>1. s[2] = p /\ s[1] \in {"compile", "import", "transform"} BY <4>2 DEF Changes
        <5> QED BY <1>2, <2>3, <3>1, <5>1 DEF Fills
      <4> QED BY <4>1, <4>2
    <3> QED BY <3>0, <3>2, <3>3
  <2>4. CASE EndBuild /\ n = Len(built) /\ n \in 1 .. Len(built) /\ built'[n] = [B EXCEPT !.passed = TRUE]
    <3>1. B.rec <= src /\ \A p \in Ps : B.obj[p].src <= src BY <2>4 DEF Aging, B
    <3>2. B \in Directory BY <1>3, <2>4 DEF B
    <3>3. built'[n].rec = B.rec /\ built'[n].obj = B.obj BY <2>4, <3>2 DEF Directory
    <3>4. src' = src BY <2>4 DEF EndBuild
    <3> QED BY <3>1, <3>3, <3>4
  <2> QED BY <1>0, <2>1, <2>2, <2>3, <2>4, BuiltEach
<1>6. ASSUME In(c.verify.body, "sources"), built' # << >>, NEW i \in 1 .. Len(c.build.body), NEW p \in Ps,
             Did("build", i)', c.build.body[i] = <<"compile", p>>
      PROVE  B'.rec <= B'.obj[p].src
  <2>1. ~BeginBuild BY <1>6, NoDidAtBegin
  <2>2. /\ \A j \in Nat : Did("build", j) => Did("build", j)'
        /\ Did("build", i) \/ Gains("build", i)
    BY <1>0, <1>6, DidMoves
  <2>3. Len(built') = Len(built) BY <1>0, <2>1, BuiltGrows
  <2>4. built # << >> /\ Len(built) \in 1 .. Len(built) /\ Len(built) \in 1 .. Len(built')
    BY <1>0, <1>6, <2>3 DEF Types
  <2>5. B' = built'[Len(built)] /\ B = built[Len(built)] BY <2>3 DEF B
  <2>6. B \in Directory /\ B' \in Directory BY <1>3, <2>4, <2>5
  <2>7. CASE Gains("build", i)
    <3>1. Takes(Current("build")) /\ Running("build") /\ Current("build") = <<"compile", p>>
      BY <1>6, <2>7 DEF Gains, Passes
    <3>2. Current("build")[1] = "compile" /\ Current("build")[2] = p BY <3>1
    <3>3. "compile" \in BuildOps BY DEF BuildOps
    <3>4. built' = [built EXCEPT ![Len(built)] = BuildDo("compile", p)]
      BY <1>0, <3>1, <3>2, <3>3, TakesShape
    <3>5. Current("build") \in STRING \X STRING BY <1>0, <3>1, AtStep
    <3>6. Fabricates BY <2>4, <2>7, <3>2, <3>3, <3>4, <3>5 DEF Fabricates, Gains
    <3>7. Fills("compile", p, B') BY <1>0, <2>5, <3>2, <3>6, BuiltGrows
    <3>8. B'.rec = B.rec /\ B'.obj[p].src = src BY <3>7 DEF Fills
    <3>9. B.rec <= src BY <2>4, <2>5 DEF Aging
    <3> QED BY <3>8, <3>9
  <2>8. CASE Did("build", i)
    <3>0. B.rec <= B.obj[p].src BY <1>6, <2>4, <2>8 DEF Aging, K
    <3>1. CASE built' = built BY <2>5, <3>0, <3>1
    <3>2. CASE EndBuild
      <4>1. B' = [B EXCEPT !.passed = TRUE] BY <1>0, <2>5, <3>2, BuiltGrows
      <4>2. B'.rec = B.rec /\ B'.obj = B.obj BY <2>6, <4>1 DEF Directory
      <4> QED BY <3>0, <4>2
    <3>3. CASE Fabricates
      <4> DEFINE s == Current("build")
      <4>1. Fills(s[1], s[2], B') BY <1>0, <2>5, <3>3, BuiltGrows
      <4>2. PICK k \in 1 .. Len(c["build"].body) :
              /\ s = c["build"].body[k] /\ \A j \in Nat : Did("build", j) => j < k
        BY <1>0, <3>3, GainsDid DEF Fabricates
      <4>3. k \in i .. Len(c.build.body) BY <2>8, <4>2
      <4>4. /\ \A j \in 1 .. Len(c.build.body) :
                 /\ c.build.body[j] # <<"import", p>>
                 /\ c.build.body[j] = <<"compile", p>> =>
                      \A h \in j .. Len(c.build.body) : c.build.body[h][1] # "sources"
        BY <1>0, <1>6, Formed DEF DigestsFirst, Ps, K
      <4>5. s[1] # "sources" BY <1>6, <4>2, <4>3, <4>4
      <4>6. s # <<"import", p>> BY <4>2, <4>4
      <4>7. B'.rec = B.rec BY <4>1, <4>5 DEF Fills
      <4>8. s = <<s[1], s[2]>> BY <3>3 DEF Fabricates
      <4>9. CASE s \notin Changes(p) BY <3>0, <4>1, <4>7, <4>8, <4>9 DEF Fills
      <4>10. CASE s \in Changes(p)
        <5>1. s[2] = p /\ s[1] \in {"compile", "transform"} BY <4>6, <4>8, <4>10 DEF Changes
        <5>2. B.rec <= src BY <2>4, <2>5 DEF Aging
        <5> QED BY <3>0, <4>1, <4>7, <5>1, <5>2 DEF Fills
      <4> QED BY <4>9, <4>10
    <3> QED BY <1>0, <2>1, <3>1, <3>2, <3>3 DEF BuiltMoves
  <2> QED BY <2>2, <2>7, <2>8
<1>7. ASSUME In(c.verify.body, "sources"), NEW n \in 1 .. Len(built'), built'[n].passed, NEW p \in Ps
      PROVE  built'[n].rec <= built'[n].obj[p].src
  <2>1. CASE n \in 1 .. Len(built) /\ built'[n] = built[n] BY <1>7, <2>1 DEF Aging, K
  <2>2. CASE built'[n] = NewBuild(Ps) BY <1>7, <2>2, NewBuildShape
  <2>3. CASE n = Len(built) /\ n \in 1 .. Len(built) /\ (Fabricates \/ EndBuild)
    <3>1. CASE EndBuild
      <4>1. proc["build"].receipt = "passed" /\ proc' = proc BY <3>1 DEF EndBuild, Pending
      <4>2. \A i \in 1 .. Len(c.build.body) : Did("build", i) BY <1>0, <4>1, BuildDid
      <4>3. PICK i \in 1 .. Len(c.build.body) : c.build.body[i] = <<"compile", p>>
        BY <1>0, <1>7, Formed DEF DigestsFirst, Ps, K
      <4>4. built # << >> /\ B = built[n] BY <1>0, <2>3 DEF B, Types
      <4>5. B.rec <= B.obj[p].src BY <1>7, <4>2, <4>3, <4>4 DEF Aging, K
      <4>6. built'[n] = [B EXCEPT !.passed = TRUE] /\ B \in Directory BY <1>0, <1>3, <2>3, <3>1, <4>4, BuiltGrows
      <4>7. built'[n].rec = B.rec /\ built'[n].obj = B.obj BY <4>6 DEF Directory
      <4> QED BY <4>5, <4>7
    <3>2. CASE Fabricates
      <4>1. ~B.passed BY <1>0, <3>2, NotPassed
      <4>2. built'[n].passed = B.passed BY <1>0, <2>3, <3>2, BuiltGrows DEF Fills
      <4> QED BY <1>7, <4>1, <4>2
    <3> QED BY <2>3, <3>1, <3>2
  <2> QED BY <1>0, <2>1, <2>2, <2>3, BuiltEach
<1> QED BY <1>0, <1>5, <1>6, <1>7 DEF Aging, K

-----------------------------------------------------------------------------
(* The verifier.                                                           *)

\* It is given what does not change any more.
LEMMA VerifyStill ==
  ASSUME Sound, [Next]_vars, proc["verify"].phase # "idle"
  PROVE  built' = built /\ src' = src /\ SameResult /\ SameBuilds /\ ~Running("live") /\ ~Running("suite")
<1>0. /\ Types /\ Controlled /\ Excluded /\ BuiltMoves /\ SavedMoves
      /\ {"build", "live", "suite", "verify"} \subseteq Procs
  BY NextAt DEF Sound, Procs
<1>1. src' = src BY <1>0, SrcMoves
<1>2. ~Busy /\ ~Running("suite") BY <1>0 DEF Excluded
<1>3. ~Fabricates /\ ~BeginBuild /\ ~EndBuild
  BY <1>2 DEF Fabricates, StepOf, Busy, BeginBuild, EndBuild
<1>4. proc["live"].phase = "done" \/ c.live.body = << >> BY <1>0 DEF Excluded, K
<1>5. c["live"].body = << >> => proc["live"].phase = "idle"
  <2>1. Control1("live") BY <1>0 DEF Controlled
  <2> QED BY <2>1 DEF Control1, K
<1>6. ~Running("live") BY <1>4, <1>5 DEF Running
<1>7. ~Copies BY <1>6 DEF Copies, StepOf
<1>8. ~BeginLive /\ ~BeginVerify BY <1>4 DEF BeginLive, BeginVerify, Fresh, K
<1>9. SameResult /\ SameBuilds BY <1>0, <1>7, <1>8 DEF SavedMoves, Lists
<1> QED BY <1>0, <1>1, <1>2, <1>3, <1>6, <1>9 DEF BuiltMoves

LEMMA VerifyingStep ==
  ASSUME Sound, Verifying, [Next]_vars
  PROVE  Verifying'
<1>0. /\ Types /\ Controlled /\ Moves /\ c' = c /\ "verify" \in Procs
  BY NextAt DEF Sound, Procs
<1> DEFINE Seen(op) ==
      /\ op \in {"receipts", "build"} => A.passed
      /\ op = "sources" => A.rec = src
      /\ op = "same build" => A = U
      /\ op = "result" => saved.result = "passed"
      /\ op = "events" => EventsOk
<1>1. SUFFICES ASSUME NEW i \in 1 .. Len(c.verify.body), Did("verify", i)'
               PROVE  /\ Seen(c.verify.body[i][1])
                      /\ built' = built /\ src' = src /\ SameResult /\ SameBuilds
  BY <1>0 DEF Verifying, K, A, U, EventsOk, SameResult, SameBuilds
<1>2. Did("verify", i) \/ Gains("verify", i) BY <1>0, <1>1, DidMoves
<1>3. proc["verify"].phase # "idle"
  <2>1. Control1("verify") BY <1>0 DEF Controlled
  <2> QED BY <1>2, <2>1 DEF Did, Gains, Running, Control1, NewProc, None
<1>4. built' = built /\ src' = src /\ SameResult /\ SameBuilds BY <1>3, VerifyStill
<1>5. CASE Did("verify", i) BY <1>4, <1>5 DEF Verifying, K
<1>6. CASE Gains("verify", i)
  <2>1. Ok("verify", Current("verify")) /\ Current("verify") = c.verify.body[i]
    BY <1>6 DEF Gains, Passes
  <2>2. VerifyOk(c.verify.body[i][1]) BY <2>1 DEF Ok
  <2> QED BY <1>4, <2>2 DEF VerifyOk
<1> QED BY <1>2, <1>5, <1>6

\* An archive that is accepted was looked at to the last step.
LEMMA VerifyDid ==
  ASSUME Controlled, Verifying, proc["verify"].receipt = "passed", NEW op, In(c.verify.body, op)
  PROVE  /\ proc["verify"].phase # "idle"
         /\ op \in {"receipts", "build"} => A.passed
         /\ op = "sources" => A.rec = src
         /\ op = "same build" => A = U
         /\ op = "result" => saved.result = "passed"
         /\ op = "events" => EventsOk
<1>1. PICK i \in 1 .. Len(c.verify.body) : c.verify.body[i][1] = op BY DEF In
<1>2. Did("verify", i) BY <1>1 DEF Did, K
<1>3. Control1("verify") BY DEF Controlled, Procs
<1>4. proc["verify"].phase # "idle" BY <1>3 DEF Control1, NewProc, None
<1> QED BY <1>1, <1>2, <1>4 DEF Verifying, K

LEMMA Current1 ==
  ASSUME Sound, Aging, Verifying
  PROVE  VerifiedIsCurrent
<1>0. Types /\ Controlled /\ Excluded /\ "live" \in Procs BY DEF Sound, Procs
<1>1. SUFFICES ASSUME proc["verify"].receipt = "passed", In(c.verify.body, "sources"),
                      In(c.verify.body, "same build") \/ c.live.body = << >>, NEW p \in Ps
               PROVE  built[saved.build].obj[p].src = src
  BY DEF VerifiedIsCurrent, Verifies, In, K
<1>2. A.rec = src /\ proc["verify"].phase # "idle" BY <1>0, <1>1, VerifyDid
<1>3. In(c.verify.body, "receipts") \/ In(c.verify.body, "build")
  BY <1>0, <1>1, Formed DEF DigestsFirst
<1>4. A.passed BY <1>0, <1>1, <1>3, VerifyDid
<1>5. saved.archived \in 1 .. Len(built) BY <1>0, <1>2 DEF Excluded
<1>6. A = U
  <2>1. CASE In(c.verify.body, "same build") BY <1>0, <1>1, <2>1, VerifyDid
  <2>2. CASE c.live.body = << >>
    <3>1. Control1("live") BY <1>0 DEF Controlled
    <3>2. proc["live"].phase = "idle" BY <2>2, <3>1 DEF Control1, K
    <3>3. saved.build = saved.archived BY <1>0, <1>2, <3>2 DEF Excluded
    <3> QED BY <3>3 DEF A, U
  <2> QED BY <1>1, <2>1, <2>2
<1>7. A.rec <= A.obj[p].src /\ A.obj[p].src <= src BY <1>1, <1>4, <1>5 DEF Aging, A, K
<1>8. A \in Directory BY <1>0, <1>5 DEF Types, A
<1>9. A.obj[p].src \in Int /\ src \in Int BY <1>0, <1>8 DEF Directory, Objects, Bytes, Types
<1>10. A.obj[p].src = src BY <1>2, <1>7, <1>9
<1> QED BY <1>6, <1>10 DEF U

\* An accepted archive is of objects that were compiled from the sources that
\* are there now: the build digested them before it compiled, the verifier looks
\* at that digest, and none of this changes while it does.
THEOREM ArchivesCurrent == Spec => []VerifiedIsCurrent
<1> DEFINE Inv == Sound /\ Making /\ Building /\ Aging /\ Verifying
<1>1. Init => Inv
  <2>1. SUFFICES ASSUME Init PROVE Inv OBVIOUS
  <2>2. built = << >> /\ Len(built) = 0 BY <2>1 DEF Init
  <2>3. proc["verify"] = NewProc BY <2>1 DEF Init, Procs
  <2>4. \A i : ~Did("verify", i) BY <2>3 DEF Did, NewProc, None
  <2>5. Making /\ Building /\ Aging BY <2>2 DEF Making, Building, Aging
  <2>6. Verifying BY <2>4 DEF Verifying
  <2> QED BY <2>1, <2>5, <2>6, SoundInit
<1>2. Inv /\ [Next]_vars => Inv'
  BY SoundStep, MakingStep, BuildingStep, AgingStep, VerifyingStep
<1>3. Inv => VerifiedIsCurrent BY Current1
<1> QED BY <1>1, <1>2, <1>3, PTL DEF Spec

-----------------------------------------------------------------------------
(* What stays when no suite runs.                                          *)

SuiteOps == {"load", "arm", "disarm", "revoke", "counts", "traffic", "mark", "target", "drain",
             "discard", "cursor", "pages", "ask", "keys", "erase"}

LEMMA HomeOfOps ==
  ASSUME NEW op, NEW x, NEW ph, <<x, ph>> \in Home(op)
  PROVE  /\ op \in SuiteOps => x = "suite"
         /\ op \in {"watch", "up", "suite", "before"} => x = "live" /\ ph = "body"
         /\ op \in {"unwatch", "down", "files"} => x = "live" /\ ph = "final"
         /\ op \in {"manifest", "remove"} => x \in {"cleanup", "reset"} /\ ph = "body"
         /\ op = "make" => x = "create" /\ ph = "body"
         /\ op \in {"load", "arm", "counts", "traffic", "mark", "target", "drain", "discard", "cursor",
                    "pages", "ask"} => ph = "body"
         /\ op = "keys" => ph = "prep"
         /\ op = "erase" => ph = "final"
         /\ op \in {"disarm", "revoke"} => ph \in {"body", "final"}
BY DEF Home, SuiteOps

LEMMA SettledDone ==
  ASSUME Types, Controlled, NEW x \in Procs \ {"live"}, proc[x].receipt \in {"passed", "failed"}
  PROVE  proc[x].phase = "done" /\ ~Running(x)
<1>1. Control1(x) /\ proc[x] \in Process BY DEF Controlled, Types
<1>2. proc[x].phase \in {"idle", "prep", "body", "final", "done"} BY <1>1 DEF Process
<1> QED BY <1>1, <1>2 DEF Control1, Held, NewProc, None, Running

LEMMA SuiteStill ==
  ASSUME Types, Controlled, Moves, Settled \/ (proc["suite"].phase = "idle" /\ ~StartSuite)
  PROVE  proc'["suite"] = proc["suite"] /\ ~Running("suite")
<1>1. "suite" \in Procs \ {"live"} BY DEF Procs
<1>2. CASE Settled BY <1>1, <1>2, SettledDone, PhaseMoves DEF Settled
<1>3. CASE proc["suite"].phase = "idle" /\ ~StartSuite
  BY <1>1, <1>3, PhaseMoves DEF Running, Starts
<1> QED BY <1>2, <1>3

LEMMA WorldStill ==
  ASSUME Types, Controlled, WorldMoves, ~Running("suite")
  PROVE  KeepsCounts /\ \A p \in Ps : T.text[p] = "nop" => w'.tmm.text[p] = "nop"
<1>1. CASE w' = w BY <1>1 DEF KeepsCounts, T
<1>2. CASE Switches BY <1>2 DEF Switches, T
<1>3. CASE Flows BY <1>3 DEF Flows, T
<1>4. CASE Restarts BY <1>4 DEF Restarts
<1>5. ASSUME NEW x \in Procs, Affects(x) PROVE KeepsCounts /\ w'.tmm.text = T.text
  <2>1. Running(x) /\ <<x, proc[x].phase>> \in Home(Current(x)[1]) BY <1>5 DEF Affects, StepOf
  <2>2. Current(x)[1] \notin SuiteOps BY <2>1, HomeOfOps
  <2> QED BY <1>5, <2>2 DEF Affects, LeavesAlone, SuiteOps, KeepsCounts, T
<1> QED BY <1>1, <1>2, <1>3, <1>4, <1>5 DEF WorldMoves

\* A body that goes on was at it before.
LEMMA BodyMoves ==
  ASSUME Types, Controlled, Moves, NEW x \in Procs \ {"build"}, NEW i, Did(x, i), proc'[x].phase = "body"
  PROVE  proc[x].phase = "body"
<1>1. Control1(x) /\ proc[x] \in Process BY DEF Controlled, Types
<1>2. proc[x].phase # "idle" BY <1>1 DEF Did, Control1, NewProc, None
<1>3. ~Begin(x) BY <1>2 DEF Begin
<1>4. proc[x].phase = "prep" => proc[x].receipt # None BY <1>1 DEF Did, Control1, None
<1>5. CASE Advance(x) BY <1>4, <1>5 DEF Advance
<1>6. CASE Raise(x) BY <1>6 DEF Raise
<1>7. CASE x = "live" /\ Again BY <1>1, <1>7 DEF Again, Process
<1> QED BY <1>3, <1>5, <1>6, <1>7, OneMoves DEF StepOf, Passes, Skips, Backfires, Refused, Deserts

-----------------------------------------------------------------------------
(* What the driver reports.                                                *)

LEMMA CollectorMoves ==
  ASSUME Types, Controlled, WorldMoves, w'.collector = "absent"
  PROVE  \/ w.collector = "absent" /\ w'.fixture = w.fixture
         \/ w.collector = "absent" /\ StepOf("create") /\ Running("create")
         \/ w'.fixture = "removed" /\ \E x \in {"cleanup", "reset"} : StepOf(x) /\ Running(x)
<1>1. CASE w' = w BY <1>1
<1>2. CASE Switches BY <1>2 DEF Switches, KeepsFiles
<1>3. CASE Flows BY <1>3 DEF Flows, KeepsFiles
<1>4. CASE Restarts BY <1>4 DEF Restarts, KeepsFiles
<1>5. CASE \E x \in Procs : Affects(x)
  <2>1. PICK x \in Procs : Affects(x) BY <1>5
  <2> DEFINE op == Current(x)[1]
  <2>2. StepOf(x) /\ Running(x) /\ <<x, proc[x].phase>> \in Home(op) BY <2>1 DEF Affects, StepOf
  <2>3. CASE op = "remove" BY <2>1, <2>2, <2>3, HomeOfOps DEF Affects, Effects
  <2>4. CASE op = "make" BY <2>1, <2>2, <2>4, HomeOfOps DEF Affects, LeavesAlone
  <2>5. CASE op \in {"up", "down"} BY <2>1, <2>5 DEF Affects, Effects, LeavesAlone
  <2>6. CASE op \notin {"remove", "make", "up", "down"} BY <2>1, <2>6 DEF Affects, LeavesAlone
  <2> QED BY <2>3, <2>4, <2>5, <2>6
<1> QED BY <1>1, <1>2, <1>3, <1>4, <1>5 DEF WorldMoves

LEMMA ReportingStep ==
  ASSUME Sound, Reporting, [Next]_vars
  PROVE  Reporting'
<1>0. /\ Types /\ Controlled /\ Excluded /\ Types' /\ Controlled' /\ Moves /\ WorldMoves /\ SavedMoves
      /\ c' = c /\ Ps' = Ps /\ {"live", "suite", "create", "cleanup", "reset"} \subseteq Procs
  BY NextAt DEF Sound, Procs
<1>1. proc["suite"].receipt \in {"passed", "failed"} => proc'["suite"] = proc["suite"] /\ ~Running("suite")
  BY <1>0, SuiteStill DEF Settled
<1>2. ASSUME NEW i \in 1 .. Len(c.live.body), Did("live", i)', c.live.body[i][1] = "suite"
      PROVE  proc'["suite"].receipt = "passed"
  <2>1. Did("live", i) \/ Gains("live", i) BY <1>0, <1>2, DidMoves
  <2>2. CASE Did("live", i) BY <1>1, <1>2, <2>2 DEF Reporting, K
  <2>3. CASE Gains("live", i)
    <3>1. Ok("live", Current("live")) /\ Current("live") = c.live.body[i] BY <2>3 DEF Gains, Passes
    <3>2. proc["suite"].receipt = "passed" BY <1>2, <3>1 DEF Ok, LiveOk
    <3> QED BY <1>1, <3>2
  <2> QED BY <2>1, <2>2, <2>3
<1>3. ASSUME saved'.result \in {"passed", "failed"}
      PROVE  /\ saved'.result = proc'["suite"].receipt
             /\ saved'.got = w'.got /\ saved'.sent = w'.sent /\ saved'.target = w'.target
  <2>1. CASE Copies
    <3>1. proc'["suite"] = proc["suite"] BY <1>0, <2>1 DEF Copies, StepOf, Others
    <3> QED BY <2>1, <3>1 DEF Copies
  <2>2. CASE SameResult
    <3>1. /\ saved.result = proc["suite"].receipt /\ saved.got = w.got /\ saved.sent = w.sent
          /\ saved.target = w.target
      BY <1>3, <2>2 DEF SameResult, Reporting
    <3>2. proc'["suite"] = proc["suite"] /\ KeepsCounts
      BY <1>0, <1>1, <1>3, <2>2, <3>1, WorldStill DEF SameResult
    <3> QED BY <2>2, <3>1, <3>2 DEF SameResult, KeepsCounts
  <2> QED BY <1>0, <2>1, <2>2 DEF SavedMoves, Lists
<1>4. ASSUME proc'["suite"].phase # "idle", In(c.cleanup.body, "created") \/ In(c.reset.body, "created")
      PROVE  w'.collector # "absent" \/ w'.fixture # "up"
  <2>1. CASE StartSuite
    <3>1. Running("live") /\ Current("live")[1] = "suite" /\ w' = w BY <2>1 DEF StartSuite
    <3>2. /\ proc["live"].phase = "body" /\ proc["live"].pos \in 1 .. Len(c.live.body)
          /\ Current("live") = c.live.body[proc["live"].pos]
      BY <1>0, <3>1, AtSuite
    <3>3. PICK k \in 1 .. Len(c.live.body) : k = proc["live"].pos BY <3>2
    <3>4. PICK j \in 1 .. k - 1 : c.live.body[j][1] = "up"
      BY <1>0, <1>4, <3>1, <3>2, <3>3, Formed DEF KeepsFirst
    <3>5. j \in 1 .. Len(c.live.body) /\ j < proc["live"].pos BY <3>3, <3>4
    <3>6. Did("live", j) BY <3>2, <3>5 DEF Did, K
    <3> QED BY <3>1, <3>2, <3>4, <3>5, <3>6 DEF Reporting, K
  <2>2. CASE ~StartSuite
    <3>1. proc["suite"].phase # "idle" BY <1>0, <1>4, <2>2, PhaseMoves DEF Starts
    <3>2. w.collector # "absent" \/ w.fixture # "up" BY <1>4, <3>1 DEF Reporting, K
    <3>3. ~Running("create")
      <4>1. SUFFICES ASSUME Running("create") PROVE FALSE OBVIOUS
      <4>2. Control1("create") BY <1>0 DEF Controlled
      <4>3. ~Through("create") BY <4>1, <4>2 DEF Through, Running, Control1
      <4> QED BY <1>0, <3>1, <4>3 DEF Excluded
    <3> QED BY <1>0, <3>2, <3>3, CollectorMoves
  <2> QED BY <2>1, <2>2
<1>5. ASSUME NEW i \in 1 .. Len(c.live.body), proc'["live"].phase = "body", Did("live", i)',
             c.live.body[i][1] = "up"
      PROVE  w'.collector # "absent"
  <2>1. Did("live", i) \/ Gains("live", i) BY <1>0, <1>5, DidMoves
  <2>2. CASE Gains("live", i)
    <3>1. /\ Running("live") /\ Takes(Current("live")) /\ Current("live") = c.live.body[i]
      BY <2>2 DEF Gains, Passes
    <3>2. Effects("up", Current("live")[2], w')
      BY <1>0, <1>5, <3>1, TakesShape DEF WorldOps
    <3> QED BY <3>2 DEF Effects
  <2>3. CASE Did("live", i)
    <3>1. proc["live"].phase = "body" BY <1>0, <1>5, <2>3, BodyMoves
    <3>2. w.collector # "absent" BY <1>5, <2>3, <3>1 DEF Reporting, K
    <3>3. \A x \in {"cleanup", "reset"} : ~Running(x) BY <1>0, <3>1 DEF Excluded, Running
    <3> QED BY <1>0, <3>2, <3>3, CollectorMoves
  <2> QED BY <2>1, <2>2, <2>3
<1> QED BY <1>0, <1>2, <1>3, <1>4, <1>5 DEF Reporting, K

LEMMA ReportingInit ==
  ASSUME Init
  PROVE  Reporting
<1>1. proc["suite"] = NewProc /\ proc["live"] = NewProc BY DEF Init, Procs
<1>2. saved.result = None BY DEF Init
<1>3. \A i : ~Did("live", i) BY <1>1 DEF Did, NewProc, None
<1> QED BY <1>1, <1>2, <1>3 DEF Reporting, NewProc, None

-----------------------------------------------------------------------------
(* The archive and the fixture.                                            *)

\* While the fixture is being archived, a suite that does not run is not started.
LEMMA QuietStill ==
  ASSUME Sound, [Next]_vars, NEW x \in {"cleanup", "reset"}, Running(x), Quiet
  PROVE  Quiet' /\ proc'["suite"] = proc["suite"] /\ ~Running("suite") /\ ~Running("live") /\ ~Running("live")'
<1>0. /\ Types /\ Controlled /\ Excluded /\ Moves /\ {"live", "suite"} \subseteq Procs
  BY NextAt DEF Sound, Procs
<1>1. proc["live"].phase \in {"idle", "done"} BY <1>0 DEF Excluded, Running
<1>2. ~Running("live") BY <1>1 DEF Running
<1>3. ~StartSuite BY <1>2 DEF StartSuite
<1>4. proc'["suite"] = proc["suite"] /\ ~Running("suite") BY <1>0, <1>3, SuiteStill DEF Quiet
<1>5. ~Again BY DEF Again, Running
<1>6. ~BeginLive
  <2>1. CASE x = "reset" BY <2>1 DEF BeginLive
  <2>2. CASE x = "cleanup"
    <3>1. proc["live"].phase = "done" BY <1>0, <2>2 DEF Excluded, Running
    <3> QED BY <3>1 DEF BeginLive, Fresh
  <2> QED BY <2>1, <2>2
<1>7. ~Running("live")' BY <1>0, <1>2, <1>5, <1>6, PhaseMoves DEF Starts
<1> QED BY <1>2, <1>4, <1>7 DEF Quiet, Settled

\* What the steps that look for a suite show.
LEMMA QuietNow ==
  ASSUME Sound, Reporting, NEW x \in {"cleanup", "reset"}, NEW e, Gains(x, e),
         c[x].body[e][1] \in {"passed run", "result", "created"}
  PROVE  Quiet
<1>0. Types /\ Controlled /\ Excluded /\ {"live", "suite"} \subseteq Procs BY DEF Sound, Procs
<1>1. Running(x) /\ FixtureOk(c[x].body[e][1], c[x].body[e][2]) /\ e \in 1 .. Len(c[x].body)
  BY DEF Gains, Passes, Ok
<1>2. ~Running("live") BY <1>0, <1>1 DEF Excluded, Running
<1>3. CASE c[x].body[e][1] = "passed run"
  <2>1. proc["live"].receipt = "passed" BY <1>1, <1>3 DEF FixtureOk
  <2>2. In(c.live.body, "suite") BY <1>0, <1>1, <1>3, Formed DEF KeepsFirst
  <2>3. PICK i \in 1 .. Len(c.live.body) : c.live.body[i][1] = "suite" BY <2>2 DEF In
  <2>4. Did("live", i) BY <2>1, <2>3 DEF Did, K
  <2> QED BY <2>3, <2>4 DEF Reporting, K, Quiet, Settled
<1>4. CASE c[x].body[e][1] = "result"
  <2>1. saved.result = "failed" BY <1>1, <1>4 DEF FixtureOk
  <2> QED BY <2>1 DEF Reporting, Quiet, Settled
<1>5. CASE c[x].body[e][1] = "created"
  <2>1. w.fixture = "up" /\ w.collector = "absent" BY <1>1, <1>5 DEF FixtureOk
  <2>2. In(c.cleanup.body, "created") \/ In(c.reset.body, "created") BY <1>1, <1>5 DEF In
  <2> QED BY <1>2, <2>1, <2>2 DEF Reporting, Quiet, K
<1> QED BY <1>3, <1>4, <1>5

\* What lies behind a process in its body is what comes first.
LEMMA PosBefore ==
  ASSUME Types, Controlled, NEW x \in Procs, proc[x].phase = "body", NEW d \in Nat, Did(x, d),
         NEW e \in 1 .. Len(c[x].body), e < d
  PROVE  Did(x, e)
<1>1. Control1(x) BY DEF Controlled
<1>2. proc[x].receipt # "passed" /\ proc[x].pos \in Nat BY <1>1 DEF Control1, Held, None
<1>3. d < proc[x].pos BY <1>2 DEF Did
<1>4. e < proc[x].pos BY <1>2, <1>3
<1> QED BY <1>4 DEF Did, K

LEMMA FixtureMoves ==
  ASSUME WorldMoves, w'.fixture = "removed", w.fixture # "removed"
  PROVE  \E x \in Procs : Affects(x) /\ Current(x)[1] = "remove"
<1>1. PICK x \in Procs : Affects(x)
  BY DEF WorldMoves, Switches, Flows, Restarts, KeepsFiles
<1>2. Current(x)[1] # "make" BY <1>1 DEF Affects, Effects
<1> QED BY <1>1, <1>2 DEF Affects, LeavesAlone

LEMMA KeptMoves ==
  ASSUME Types, SavedMoves, proc'["suite"] = proc["suite"], KeptNow
  PROVE  KeptNow'
BY DEF KeptNow, SavedMoves, Copies, Lists

LEMMA ArchivingStep ==
  ASSUME Sound, Reporting, Archiving, [Next]_vars
  PROVE  Archiving'
<1>0. /\ Types /\ Controlled /\ Excluded /\ Types' /\ Controlled' /\ Moves /\ WorldMoves /\ SavedMoves
      /\ c' = c /\ Ps' = Ps /\ {"live", "suite", "create", "cleanup", "reset"} \subseteq Procs
  BY NextAt DEF Sound, Procs
<1>1. SUFFICES ASSUME NEW x \in {"cleanup", "reset"}, proc'[x].phase = "body",
                      NEW e \in 1 .. Len(c[x].body), Did(x, e)',
                      c[x].body[e][1] \in {"passed run", "result", "created"}
               PROVE  Quiet' /\ \A d \in e + 1 .. Len(c[x].body) : Did(x, d)' => Shown(c[x].body[d])'
  BY <1>0 DEF Archiving, K
<1>2. x \in Procs \ {"build"} /\ (Did(x, e) \/ Gains(x, e)) BY <1>0, <1>1, DidMoves DEF Procs
<1>3. Did(x, e) => proc[x].phase = "body" BY <1>0, <1>1, <1>2, BodyMoves
<1>4. Running(x) /\ proc[x].phase = "body" BY <1>2, <1>3 DEF Gains, Running
<1>5. Quiet
  <2>1. CASE Did(x, e) BY <1>1, <1>3, <2>1 DEF Archiving, K
  <2>2. CASE Gains(x, e) BY <1>1, <2>2, QuietNow
  <2> QED BY <1>2, <2>1, <2>2
<1>6. Quiet' /\ proc'["suite"] = proc["suite"] /\ ~Running("suite") BY <1>4, <1>5, QuietStill
<1>7. \A p \in Ps : T.text[p] = "nop" => w'.tmm.text[p] = "nop" BY <1>0, <1>6, WorldStill
<1>8. ASSUME NEW d \in e + 1 .. Len(c[x].body), Did(x, d)'
      PROVE  Shown(c[x].body[d])'
  <2>0. d \in Nat /\ e \in Nat /\ e < d BY <1>8
  <2>1. Did(x, d) \/ Gains(x, d) BY <1>0, <1>2, <1>8, DidMoves
  <2>2. CASE Gains(x, d)
    <3>1. Takes(Current(x)) /\ Current(x) = c[x].body[d] /\ FixtureOk(c[x].body[d][1], c[x].body[d][2])
      BY <2>2 DEF Gains, Passes, Ok
    <3>2. c[x].body[d][1] = "manifest" => KeptNow'
      <4>1. SUFFICES ASSUME c[x].body[d][1] = "manifest" PROVE KeptNow' OBVIOUS
      <4>2. saved'.kept = IF proc["suite"].phase = "idle" THEN "blocked" ELSE proc["suite"].receipt
        BY <1>0, <1>2, <1>4, <3>1, <4>1, TakesShape
      <4> QED BY <1>6, <4>2 DEF KeptNow
    <3>3. Shown(c[x].body[d])'
      BY <1>0, <1>7, <3>1, <3>2 DEF FixtureOk, Shown, T
    <3> QED BY <3>3
  <2>3. CASE Did(x, d)
    <3>1. Did(x, e) BY <1>4, <1>1, <2>0, <2>3, <1>0, <1>2, PosBefore
    <3>2. Shown(c[x].body[d]) BY <1>1, <1>4, <1>8, <2>3, <3>1 DEF Archiving, K
    <3>3. KeptNow => KeptNow' BY <1>0, <1>6, KeptMoves
    <3> QED BY <1>0, <1>7, <3>2, <3>3 DEF Shown, T
  <2> QED BY <2>1, <2>2, <2>3
<1> QED BY <1>6, <1>8

LEMMA RemovedStep ==
  ASSUME Sound, Reporting, Archiving, Removed, [Next]_vars
  PROVE  Removed'
<1>0. /\ Types /\ Controlled /\ Excluded /\ Types' /\ Controlled' /\ Moves /\ WorldMoves /\ SavedMoves
      /\ c' = c /\ Ps' = Ps /\ {"live", "suite", "create", "cleanup", "reset"} \subseteq Procs
  BY NextAt DEF Sound, Procs
<1>1. SUFFICES ASSUME w'.fixture = "removed"
               PROVE  /\ KeptNow' /\ \A p \in Ps : w'.tmm.text[p] = "nop"
                      /\ (Settled \/ proc["suite"].phase = "idle")'
                      /\ proc'["suite"].phase = "idle" /\ proc'["live"].phase = "body" =>
                           \A i \in 1 .. Len(c.live.body) : Did("live", i)' => c.live.body[i][1] # "before"
  BY <1>0 DEF Removed, T, K
<1>2. CASE w.fixture = "removed"
  <2>1. /\ KeptNow /\ \A p \in Ps : T.text[p] = "nop"
        /\ Settled \/ proc["suite"].phase = "idle"
        /\ proc["suite"].phase = "idle" /\ proc["live"].phase = "body" =>
             \A i \in 1 .. Len(c.live.body) : Did("live", i) => c.live.body[i][1] # "before"
    BY <1>2 DEF Removed, K
  <2>2. ~StartSuite
    <3>1. SUFFICES ASSUME StartSuite PROVE FALSE OBVIOUS
    <3>2. Running("live") /\ Current("live")[1] = "suite" /\ proc["suite"].phase = "idle"
      BY <3>1 DEF StartSuite
    <3>3. /\ proc["live"].phase = "body" /\ proc["live"].pos \in 1 .. Len(c.live.body)
          /\ Current("live") = c.live.body[proc["live"].pos]
      BY <1>0, <3>2, AtSuite
    <3>4. PICK k \in 1 .. Len(c.live.body) : k = proc["live"].pos BY <3>3
    <3>f. KeepsFirst(c) BY <1>0, Formed
    <3>5. PICK j \in 1 .. k - 1 : c.live.body[j][1] = "before"
      <4>1. c.live.body[k][1] = "suite" BY <3>2, <3>3, <3>4
      <4> QED BY <3>f, <4>1, Zenon DEF KeepsFirst
    <3>6. j \in 1 .. Len(c.live.body) /\ j < proc["live"].pos BY <3>4, <3>5
    <3>7. Did("live", j) BY <3>3, <3>6 DEF Did, K
    <3> QED BY <2>1, <3>2, <3>3, <3>5, <3>6, <3>7
  <2>3. proc'["suite"] = proc["suite"] /\ ~Running("suite") BY <1>0, <2>1, <2>2, SuiteStill
  <2>4. KeptNow' BY <1>0, <2>1, <2>3, KeptMoves
  <2>5. \A p \in Ps : w'.tmm.text[p] = "nop" BY <1>0, <2>1, <2>3, WorldStill
  <2>6. ASSUME proc'["suite"].phase = "idle", proc'["live"].phase = "body",
               NEW i \in 1 .. Len(c.live.body), Did("live", i)'
        PROVE  c.live.body[i][1] # "before"
    <3>1. Did("live", i) \/ Gains("live", i) BY <1>0, <2>6, DidMoves
    <3>2. CASE Did("live", i)
      <4>1. proc["live"].phase = "body" BY <1>0, <2>6, <3>2, BodyMoves
      <4> QED BY <2>1, <2>3, <2>6, <3>2, <4>1
    <3>3. CASE Gains("live", i)
      <4>1. LiveOk(c.live.body[i][1], c.live.body[i][2]) BY <3>3 DEF Gains, Passes, Ok
      <4> QED BY <1>2, <4>1 DEF LiveOk
    <3> QED BY <3>1, <3>2, <3>3
  <2> QED BY <2>1, <2>3, <2>4, <2>5, <2>6 DEF Settled
<1>3. CASE w.fixture # "removed"
  <2>1. PICK x \in Procs : Affects(x) /\ Current(x)[1] = "remove"
    BY <1>0, <1>1, <1>3, FixtureMoves
  <2>2. /\ StepOf(x) /\ Running(x) /\ x \in {"cleanup", "reset"} /\ proc[x].phase = "body"
    BY <2>1, HomeOfOps DEF Affects, StepOf
  <2>3. proc[x].pos \in 1 .. Len(c[x].body) /\ Current(x) = c[x].body[proc[x].pos]
    BY <1>0, <2>2, AtStep DEF Current
  <2>4. PICK k \in 1 .. Len(c[x].body) : k = proc[x].pos BY <2>3
  <2>a. \A i \in 1 .. Len(c[x].body) : c[x].body[i][1] = "remove" =>
          \E e \in 1 .. i - 1 :
              /\ c[x].body[e][1] \in {"passed run", "result", "created"}
              /\ \E m \in e + 1 .. i - 1 : c[x].body[m][1] = "manifest"
              /\ \/ \E d \in e + 1 .. i - 1 : c[x].body[d][1] = "disarmed"
                 \/ \A p \in c.programs : \E d \in e + 1 .. i - 1 : c[x].body[d] = <<"untouched", p>>
    BY <1>0, <2>2, Formed DEF KeepsFirst
  <2>5. PICK e \in 1 .. k - 1 :
              /\ c[x].body[e][1] \in {"passed run", "result", "created"}
              /\ \E m \in e + 1 .. k - 1 : c[x].body[m][1] = "manifest"
              /\ \/ \E d \in e + 1 .. k - 1 : c[x].body[d][1] = "disarmed"
                 \/ \A p \in c.programs : \E d \in e + 1 .. k - 1 : c[x].body[d] = <<"untouched", p>>
    BY <2>1, <2>3, <2>4, <2>a
  <2>b. Len(c[x].body) \in Nat /\ k \in Nat /\ e \in Nat /\ k <= Len(c[x].body) /\ 1 <= e /\ e <= k - 1
    <3>1. c[x].body \in Seq(STRING \X STRING) BY <1>0, <2>2, Formed, Parts
    <3>2. Len(c[x].body) \in Nat BY <3>1
    <3>3. k \in Nat /\ k <= Len(c[x].body) BY <2>4, <3>2
    <3>4. e \in 1 .. k - 1 BY <2>5
    <3>5. e \in Nat /\ 1 <= e /\ e <= k - 1 BY <3>3, <3>4
    <3> QED BY <3>2, <3>3, <3>5
  <2>6. \A j \in e .. k - 1 : j \in 1 .. Len(c[x].body) /\ Did(x, j)
    <3>1. \A j \in e .. k - 1 : j \in 1 .. Len(c[x].body) /\ j < proc[x].pos BY <2>4, <2>b
    <3> QED BY <2>2, <3>1 DEF Did, K
  <2>7. e \in e .. k - 1 /\ \A d \in e + 1 .. k - 1 : d \in e .. k - 1 BY <2>b
  <2>8. /\ Quiet
        /\ \A d \in e + 1 .. Len(c[x].body) : Did(x, d) =>
             /\ c[x].body[d][1] = "manifest" => KeptNow
             /\ c[x].body[d][1] = "disarmed" => \A p \in Ps : T.text[p] = "nop"
             /\ c[x].body[d][1] = "untouched" /\ c[x].body[d][2] \in Ps => T.text[c[x].body[d][2]] = "nop"
    BY <2>2, <2>5, <2>6, <2>7 DEF Archiving, Shown, K
  <2>9. \A d \in e + 1 .. k - 1 : d \in e + 1 .. Len(c[x].body) BY <2>b
  <2>10. KeptNow BY <2>5, <2>6, <2>7, <2>8, <2>9
  <2>11. \A p \in Ps : T.text[p] = "nop"
    <3>1. SUFFICES ASSUME NEW p \in Ps PROVE T.text[p] = "nop" OBVIOUS
    <3>2. CASE \E d \in e + 1 .. k - 1 : c[x].body[d][1] = "disarmed"
      BY <2>6, <2>7, <2>8, <2>9, <3>2
    <3>3. CASE \A q \in c.programs : \E d \in e + 1 .. k - 1 : c[x].body[d] = <<"untouched", q>>
      <4>1. PICK d \in e + 1 .. k - 1 : c[x].body[d] = <<"untouched", p>> BY <3>3 DEF Ps, K
      <4>2. c[x].body[d][1] = "untouched" /\ c[x].body[d][2] = p BY <4>1
      <4> QED BY <2>6, <2>7, <2>8, <2>9, <4>2
    <3> QED BY <2>5, <3>2, <3>3
  <2>12. Quiet' /\ proc'["suite"] = proc["suite"] /\ ~Running("suite") /\ ~Running("live")'
    BY <2>2, <2>8, QuietStill
  <2>13. KeptNow' BY <1>0, <2>10, <2>12, KeptMoves
  <2>14. \A p \in Ps : w'.tmm.text[p] = "nop" BY <1>0, <2>11, <2>12, WorldStill
  <2> QED BY <2>12, <2>13, <2>14 DEF Quiet, Running
<1> QED BY <1>2, <1>3

\* The fixture is removed only when the archive holds the final result of a suite
\* that has ended, or says that none was started, and no hook calls a program,
\* although a driver gives up a suite that goes on, commands fail and TMM restarts.
THEOREM FixturesKept == Spec => []RemovedIsKept
<1> DEFINE Inv == Sound /\ Reporting /\ Archiving /\ Removed
<1>1. Init => Inv
  <2>1. SUFFICES ASSUME Init PROVE Inv OBVIOUS
  <2>2. \A x \in Procs : proc[x].phase = "idle" BY <2>1 DEF Init, NewProc
  <2>3. Archiving BY <2>2 DEF Archiving, Procs
  <2>4. w.fixture \in {"up", "absent"} BY <2>1 DEF Init
  <2> QED BY <2>1, <2>3, <2>4, SoundInit, ReportingInit DEF Removed
<1>2. Inv /\ [Next]_vars => Inv'
  BY SoundStep, ReportingStep, ArchivingStep, RemovedStep
<1>3. Inv => RemovedIsKept
  <2>1. SUFFICES ASSUME Inv, w.fixture = "removed"
                 PROVE  /\ ~Running("suite") /\ \A p \in Ps : T.text[p] = "nop"
                        /\ IF proc["suite"].phase = "idle" THEN saved.kept = "blocked"
                           ELSE saved.kept \in {"passed", "failed"} /\ saved.kept = proc["suite"].receipt
    BY DEF RemovedIsKept
  <2>2. KeptNow /\ (\A p \in Ps : T.text[p] = "nop") /\ (Settled \/ proc["suite"].phase = "idle")
    BY <2>1 DEF Removed
  <2>3. Settled => ~Running("suite") /\ proc["suite"].phase = "done"
    BY <2>1, SettledDone DEF Sound, Settled, Procs
  <2> QED BY <2>2, <2>3 DEF KeptNow, Settled, Running
<1> QED BY <1>1, <1>2, <1>3, PTL DEF Spec

-----------------------------------------------------------------------------
(* What is noted.                                                          *)

LEMMA AffectsIf ==
  ASSUME Types, Controlled, Excluded, NEW x \in Procs, StepOf(x), Passes(x) \/ Backfires(x),
         Current(x)[1] \in WorldOps
  PROVE  Affects(x)
<1>1. Running(x) /\ Takes(Current(x)) BY DEF StepOf, Passes, Backfires
<1>2. /\ LeavesAlone(Current(x)[1], w') /\ Effects(Current(x)[1], Current(x)[2], w')
      /\ Current(x) \in STRING \X STRING /\ <<x, proc[x].phase>> \in Home(Current(x)[1])
  BY <1>1, TakesShape, AtStep
<1> QED BY <1>2 DEF Affects

SameSuiteNotes == proc'["suite"].armed = proc["suite"].armed /\ proc'["suite"].loaded = proc["suite"].loaded
SameLiveNotes  == proc'["live"].watching = proc["live"].watching /\ proc'["live"].started = proc["live"].started
SameSlots      == w'.tmm.text = T.text /\ w'.tmm.slot = T.slot

\* A command on a hook or a slot, or the loss of its answer.
Commands == {"load", "arm", "disarm", "revoke"}

LEMMA SuiteMoves ==
  ASSUME Sound, [Next]_vars
  PROVE  \/ SameSuiteNotes /\ (SameSlots \/ Restarts)
         \/ /\ Affects("suite") /\ Current("suite")[1] \in Commands
            /\ \/ Passes("suite") /\ SameNotes(Noted(proc["suite"], Current("suite")), proc'["suite"])
               \/ hurt' /\ ~Good("suite")' /\ SameSuiteNotes
<1>0. /\ Types /\ Controlled /\ Excluded /\ Moves /\ WorldMoves /\ Shaped(c) /\ "suite" \in Procs
  BY NextAt DEF Sound, Procs
<1>p. proc["suite"] \in Process BY <1>0 DEF Types
<1> DEFINE s == Current("suite")
<1>1. CASE StepOf("suite")
  <2>0. Running("suite") BY <1>1 DEF StepOf
  <2>1. s \in STRING \X STRING /\ <<"suite", proc["suite"].phase>> \in Home(s[1]) BY <1>0, <2>0, AtStep
  <2>2. s[1] # "watch" /\ s[1] # "unwatch" BY <2>1, HomeOfOps
  <2>3. CASE Passes("suite")
    <3>1. SameNotes(Noted(proc["suite"], s), proc'["suite"]) BY <2>3 DEF Passes
    <3>2. CASE s[1] \in Commands
      <4>1. Affects("suite") BY <1>0, <1>1, <2>3, <3>2, AffectsIf DEF Commands, WorldOps
      <4> QED BY <2>3, <3>1, <3>2, <4>1
    <3>3. CASE s[1] \notin Commands
      <4>1. SameSuiteNotes BY <1>0, <1>p, <2>1, <3>1, <3>3, NotedShape DEF SameNotes, SameSuiteNotes, Commands
      <4>2. CASE s[1] \in WorldOps
        <5>1. Affects("suite") BY <1>0, <1>1, <2>3, <4>2, AffectsIf
        <5> QED BY <3>3, <4>1, <5>1 DEF Affects, LeavesAlone, SameSlots, T, Commands
      <4>3. CASE s[1] \notin WorldOps
        <5>1. Takes(s) BY <2>3 DEF Passes
        <5>2. w' = w BY <1>0, <2>0, <4>3, <5>1, TakesShape
        <5> QED BY <4>1, <5>2 DEF SameSlots, T
      <4> QED BY <4>2, <4>3
    <3> QED BY <3>2, <3>3
  <2>4. CASE Backfires("suite")
    <3>1. /\ Affects("suite") /\ hurt' /\ Raise("suite") /\ SameNotes(proc["suite"], proc'["suite"])
      BY <1>0, <1>1, <2>2, <2>4, AffectsIf DEF Backfires
    <3>2. SameSuiteNotes BY <3>1 DEF SameNotes, SameSuiteNotes
    <3>3. CASE s[1] \in Commands
      <4>1. proc["suite"].phase # "prep" BY <2>1, <3>3, HomeOfOps DEF Commands
      <4>2. proc'["suite"].failed \/ proc'["suite"].errors BY <3>1, <4>1 DEF Raise
      <4> QED BY <3>1, <3>2, <3>3, <4>2 DEF Good
    <3>4. CASE s[1] \notin Commands
      BY <3>1, <3>2, <3>4 DEF Affects, LeavesAlone, SameSlots, T, Commands
    <3> QED BY <3>3, <3>4
  <2>5. CASE Skips("suite") \/ Refused("suite")
    BY <2>5 DEF Skips, Refused, Leaves, SameNotes, SameSuiteNotes, SameSlots, T
  <2> QED BY <1>1, <2>3, <2>4, <2>5 DEF StepOf
<1>2. CASE ~StepOf("suite")
  <2>1. SameSuiteNotes
    <3>1. CASE proc'["suite"] = proc["suite"] BY <3>1 DEF SameSuiteNotes
    <3>2. CASE Begin("suite")
      <4>1. Control1("suite") BY <1>0 DEF Controlled
      <4>2. proc["suite"].armed = {} /\ proc["suite"].loaded = {} BY <3>2, <4>1 DEF Begin, Control1, NewProc
      <4> QED BY <1>0, <3>2, <4>2, StartedShape DEF Begin, SameSuiteNotes
    <3> QED BY <1>0, <1>2, <3>1, <3>2, OneMoves
  <2>2. SameSlots \/ Restarts
    <3>1. ASSUME NEW x \in Procs, Affects(x) PROVE SameSlots
      <4>1. x # "suite" /\ <<x, proc[x].phase>> \in Home(Current(x)[1]) BY <1>2, <3>1 DEF Affects
      <4>2. Current(x)[1] \notin SuiteOps BY <4>1, HomeOfOps
      <4> QED BY <3>1, <4>2 DEF Affects, LeavesAlone, SameSlots, T, SuiteOps
    <3> QED BY <1>0, <3>1 DEF WorldMoves, SameSlots, Switches, Flows, T
  <2> QED BY <2>1, <2>2
<1> QED BY <1>1, <1>2

LEMMA SuiteNotesStep ==
  ASSUME Sound, SuiteNotes, [Next]_vars
  PROVE  SuiteNotes'
<1>0. /\ Types /\ Controlled /\ Excluded /\ Types' /\ Controlled' /\ Moves /\ WorldMoves /\ Shaped(c)
      /\ c' = c /\ Ps' = Ps /\ "suite" \in Procs \ {"build"}
  BY NextAt DEF Sound, Procs
<1>p. proc["suite"] \in Process /\ w' \in World /\ w \in World BY <1>0 DEF Types, WorldMoves
<1>g. Good("suite")' => Good("suite") BY <1>0, GoodMoves
<1> DEFINE s == Current("suite")
           Works == /\ Affects("suite") /\ s[1] \in Commands /\ Passes("suite")
                    /\ SameNotes(Noted(proc["suite"], s), proc'["suite"])
<1>w. ASSUME Works
      PROVE  /\ s \in STRING \X STRING /\ s = <<s[1], s[2]>> /\ Running("suite")
             /\ Effects(s[1], s[2], w') /\ LeavesAlone(s[1], w')
             /\ s[1] \in {"arm", "load"} =>
                  /\ proc["suite"].phase = "body"
                  /\ \E i \in 1 .. Len(c.suite.body) : s = c.suite.body[i]
             /\ proc["suite"].receipt = "open"
  <2>1. s \in STRING \X STRING /\ <<"suite", proc["suite"].phase>> \in Home(s[1]) /\ Running("suite")
    BY <1>w DEF Affects, StepOf
  <2>2. s = <<s[1], s[2]>> BY <2>1
  <2>3. proc["suite"].phase \in {"body", "final"} /\ (s[1] \in {"arm", "load"} => proc["suite"].phase = "body")
    BY <1>w, <2>1, HomeOfOps DEF Commands
  <2>4. proc["suite"].receipt = "open" BY <1>0, <2>3, HeldOpen
  <2>5. s[1] \in {"arm", "load"} => \E i \in 1 .. Len(c.suite.body) : s = c.suite.body[i]
    BY <1>0, <2>1, <2>3, AtStep DEF Current
  <2> QED BY <1>w, <2>1, <2>2, <2>3, <2>4, <2>5 DEF Affects
<1>n. ASSUME Works
      PROVE  /\ s[1] # "load" /\ s[1] # "revoke" => proc'["suite"].loaded = proc["suite"].loaded
             /\ s[1] # "arm" /\ s[1] # "disarm" => proc'["suite"].armed = proc["suite"].armed
             /\ s[1] = "load" => proc'["suite"].loaded = proc["suite"].loaded \union {s[2]}
             /\ s[1] = "revoke" => proc'["suite"].loaded = proc["suite"].loaded \ {s[2]}
             /\ s[1] = "arm" => proc'["suite"].armed = proc["suite"].armed \union {s[2]}
             /\ s[1] = "disarm" => proc'["suite"].armed = proc["suite"].armed \ {s[2]}
  BY <1>0, <1>p, <1>n, <1>w, NotedShape DEF SameNotes
<1>1. ASSUME Good("suite")', NEW p \in Ps
      PROVE  /\ w'.tmm.text[p] = "call" => p \in proc'["suite"].armed
             /\ w'.tmm.slot[p] # NoObject => p \in proc'["suite"].loaded
  <2>0. /\ T.text[p] = "call" => p \in proc["suite"].armed
        /\ T.slot[p] # NoObject => p \in proc["suite"].loaded
    BY <1>1, <1>g DEF SuiteNotes
  <2>1. CASE SameSuiteNotes /\ SameSlots BY <2>0, <2>1 DEF SameSuiteNotes, SameSlots
  <2>2. CASE Restarts BY <2>2 DEF Restarts
  <2>3. CASE Works
    <3>1. CASE s[1] = "load"
      <4>1. w'.tmm.text = T.text BY <1>w, <2>3, <3>1 DEF LeavesAlone, T
      <4>2. p = s[2] \/ w'.tmm.slot[p] = T.slot[p] BY <1>w, <2>3, <3>1 DEF Effects, T
      <4> QED BY <1>n, <2>0, <2>3, <3>1, <4>1, <4>2
    <3>2. CASE s[1] = "arm"
      <4>1. w'.tmm.slot = T.slot BY <1>w, <2>3, <3>2 DEF LeavesAlone, T
      <4>2. p = s[2] \/ w'.tmm.text[p] = T.text[p] BY <1>w, <2>3, <3>2 DEF Effects, T
      <4> QED BY <1>n, <2>0, <2>3, <3>2, <4>1, <4>2
    <3>3. CASE s[1] = "disarm"
      <4>1. w'.tmm.slot = T.slot BY <1>w, <2>3, <3>3 DEF LeavesAlone, T
      <4>2. w'.tmm.text[p] = IF p = s[2] THEN "nop" ELSE T.text[p] BY <1>w, <2>3, <3>3 DEF Effects, T
      <4> QED BY <1>n, <2>0, <2>3, <3>3, <4>1, <4>2
    <3>4. CASE s[1] = "revoke"
      <4>1. w'.tmm.text = T.text BY <1>w, <2>3, <3>4 DEF LeavesAlone, T
      <4>2. w'.tmm.slot[p] = IF p = s[2] THEN NoObject ELSE T.slot[p] BY <1>w, <2>3, <3>4 DEF Effects, T
      <4> QED BY <1>n, <2>0, <2>3, <3>4, <4>1, <4>2
    <3> QED BY <2>3, <3>1, <3>2, <3>3, <3>4 DEF Commands
  <2> QED BY <1>1, <2>1, <2>2, <2>3, SuiteMoves
<1>2. ASSUME NEW p \in proc'["suite"].armed
      PROVE  \E i \in 1 .. Len(c.suite.body) : c.suite.body[i] = <<"arm", p>>
  <2>1. CASE p \in proc["suite"].armed BY <2>1 DEF SuiteNotes, K
  <2>2. CASE p \notin proc["suite"].armed
    <3>1. Works BY <1>2, <2>2, SuiteMoves DEF SameSuiteNotes
    <3>2. s[1] = "arm" /\ p = s[2] BY <1>2, <1>n, <2>2, <3>1
    <3> QED BY <1>w, <3>1, <3>2
  <2> QED BY <2>1, <2>2
<1>3. ASSUME NEW p \in proc'["suite"].loaded
      PROVE  \E i \in 1 .. Len(c.suite.body) : c.suite.body[i] = <<"load", p>>
  <2>1. CASE p \in proc["suite"].loaded BY <2>1 DEF SuiteNotes, K
  <2>2. CASE p \notin proc["suite"].loaded
    <3>1. Works BY <1>3, <2>2, SuiteMoves DEF SameSuiteNotes
    <3>2. s[1] = "load" /\ p = s[2] BY <1>3, <1>n, <2>2, <3>1
    <3> QED BY <1>w, <3>1, <3>2
  <2> QED BY <2>1, <2>2
<1>4. ASSUME proc'["suite"].receipt = None
      PROVE  proc'["suite"].armed = {} /\ proc'["suite"].loaded = {}
  <2>1. proc["suite"].receipt = None BY <1>0, <1>4, PhaseMoves
  <2>2. ~Works BY <1>w, <2>1 DEF None
  <2>3. SameSuiteNotes BY <2>2, SuiteMoves
  <2> QED BY <2>1, <2>3 DEF SuiteNotes, SameSuiteNotes
<1>5. ASSUME w'.keys PROVE In(c.suite.prep, "keys")
  <2>1. CASE w.keys BY <2>1 DEF SuiteNotes, K
  <2>2. CASE ~w.keys
    <3>1. PICK x \in Procs : Affects(x)
      BY <1>0, <1>5, <2>2 DEF WorldMoves, Switches, Flows, Restarts, KeepsFiles
    <3>2. Current(x)[1] = "keys" BY <1>5, <2>2, <3>1 DEF Affects, LeavesAlone, Effects
    <3>3. x = "suite" /\ Running(x) /\ proc[x].phase = "prep" BY <3>1, <3>2, HomeOfOps DEF Affects, StepOf, SuiteOps
    <3>4. proc[x].pos \in 1 .. Len(c[x].prep) /\ Current(x) = c[x].prep[proc[x].pos] BY <1>0, <3>3, AtStep DEF Current
    <3> QED BY <3>2, <3>3, <3>4 DEF In
  <2> QED BY <2>1, <2>2
<1>6. ASSUME w'.request # None PROVE In(c.suite.body, "ask")
  <2>1. CASE w.request # None BY <2>1 DEF SuiteNotes, K
  <2>2. CASE w.request = None
    <3>1. PICK x \in Procs : Affects(x) BY <1>0, <1>6, <2>2 DEF WorldMoves, Switches, Flows, Restarts
    <3>2. Current(x)[1] = "ask" BY <1>6, <2>2, <3>1 DEF Affects, LeavesAlone
    <3>3. x = "suite" /\ Running(x) /\ proc[x].phase = "body" BY <3>1, <3>2, HomeOfOps DEF Affects, StepOf, SuiteOps
    <3>4. proc[x].pos \in 1 .. Len(c[x].body) /\ Current(x) = c[x].body[proc[x].pos] BY <1>0, <3>3, AtStep DEF Current
    <3> QED BY <3>2, <3>3, <3>4 DEF In
  <2> QED BY <2>1, <2>2
<1> QED BY <1>0, <1>1, <1>2, <1>3, <1>4, <1>5, <1>6 DEF SuiteNotes, K, T

LEMMA LiveMoves ==
  ASSUME Sound, [Next]_vars
  PROVE  LET s == Current("live") IN
         \/ /\ SameLiveNotes /\ w'.monitors = w.monitors
            /\ w'.collector \in {w.collector, "absent"} \/ Switches
         \/ /\ Affects("live") /\ s[1] \in {"watch", "unwatch", "up", "down"}
            /\ proc'["live"].watching =
                 IF s[1] = "watch" THEN proc["live"].watching \union {s[2]} ELSE proc["live"].watching
            /\ s[1] = "up" => proc'["live"].started \/ (~Good("live")' /\ proc'["live"].started = proc["live"].started)
            /\ s[1] # "up" => proc'["live"].started = proc["live"].started
<1>0. /\ Types /\ Controlled /\ Excluded /\ Moves /\ WorldMoves /\ Shaped(c) /\ "live" \in Procs
  BY NextAt DEF Sound, Procs
<1>p. proc["live"] \in Process BY <1>0 DEF Types
<1> DEFINE s == Current("live")
           LiveOps == {"watch", "unwatch", "up", "down"}
<1>1. CASE StepOf("live")
  <2>0. Running("live") BY <1>1 DEF StepOf
  <2>1. s \in STRING \X STRING /\ <<"live", proc["live"].phase>> \in Home(s[1]) BY <1>0, <2>0, AtStep
  <2>2. s[1] # "remove" BY <2>1, HomeOfOps
  <2>3. CASE Passes("live")
    <3>1. SameNotes(Noted(proc["live"], s), proc'["live"]) BY <2>3 DEF Passes
    <3>2. /\ proc'["live"].watching =
               IF s[1] = "watch" THEN proc["live"].watching \union {s[2]} ELSE proc["live"].watching
          /\ s[1] = "up" => proc'["live"].started
          /\ s[1] # "up" => proc'["live"].started = proc["live"].started
      <4> DEFINE N == Noted(proc["live"], s)
      <4>1. /\ s[1] # "watch" => N.watching = proc["live"].watching
            /\ s[1] # "up" => N.started = proc["live"].started
            /\ s[1] = "watch" => N.watching = proc["live"].watching \union {s[2]}
            /\ s[1] = "up" => N.started
        BY <1>0, <1>p, <2>1, NotedShape
      <4>2. proc'["live"].watching = N.watching /\ proc'["live"].started = N.started BY <3>1 DEF SameNotes
      <4> QED BY <4>1, <4>2
    <3>3. CASE s[1] \in LiveOps
      <4>1. Affects("live") BY <1>0, <1>1, <2>3, <3>3, AffectsIf DEF WorldOps
      <4> QED BY <3>2, <3>3, <4>1
    <3>4. CASE s[1] \notin LiveOps
      <4>1. SameLiveNotes BY <3>2, <3>4 DEF SameLiveNotes
      <4>2. CASE s[1] \in WorldOps
        <5>1. Affects("live") BY <1>0, <1>1, <2>3, <4>2, AffectsIf
        <5> QED BY <2>2, <3>4, <4>1, <5>1 DEF Affects, LeavesAlone
      <4>3. CASE s[1] \notin WorldOps
        <5>1. Takes(s) BY <2>3 DEF Passes
        <5>2. w' = w BY <1>0, <2>0, <4>3, <5>1, TakesShape
        <5> QED BY <4>1, <5>2
      <4> QED BY <4>2, <4>3
    <3> QED BY <3>3, <3>4
  <2>4. CASE Backfires("live")
    <3>1. /\ Affects("live") /\ Raise("live")
          /\ SameNotes(IF s[1] = "watch" THEN Noted(proc["live"], s) ELSE proc["live"], proc'["live"])
      BY <1>0, <1>1, <2>4, AffectsIf DEF Backfires
    <3>2. /\ proc'["live"].watching =
               IF s[1] = "watch" THEN proc["live"].watching \union {s[2]} ELSE proc["live"].watching
          /\ proc'["live"].started = proc["live"].started
      <4>1. CASE s[1] = "watch"
        <5>1. SameNotes(Noted(proc["live"], s), proc'["live"]) BY <3>1, <4>1
        <5> QED BY <1>0, <1>p, <2>1, <4>1, <5>1, NotedShape DEF SameNotes
      <4>2. CASE s[1] # "watch" BY <3>1, <4>2 DEF SameNotes
      <4> QED BY <4>1, <4>2
    <3>3. s[1] = "up" => ~Good("live")'
      <4>1. SUFFICES ASSUME s[1] = "up" PROVE ~Good("live")' OBVIOUS
      <4>2. hurt' BY <2>4, <4>1 DEF Backfires
      <4>3. proc["live"].phase = "body" BY <2>1, <4>1, HomeOfOps
      <4> QED BY <3>1, <4>2, <4>3 DEF Raise, Good
    <3>4. CASE s[1] \in LiveOps BY <3>1, <3>2, <3>3, <3>4
    <3>5. CASE s[1] \notin LiveOps
      BY <2>2, <3>1, <3>2, <3>5 DEF Affects, LeavesAlone, SameLiveNotes
    <3> QED BY <3>4, <3>5
  <2>5. CASE Skips("live") \/ Refused("live")
    BY <2>5 DEF Skips, Refused, Leaves, SameNotes, SameLiveNotes
  <2> QED BY <1>1, <2>3, <2>4, <2>5 DEF StepOf
<1>2. CASE ~StepOf("live")
  <2>1. SameLiveNotes
    <3>1. CASE proc'["live"] = proc["live"] BY <3>1 DEF SameLiveNotes
    <3>2. CASE Begin("live")
      <4>1. Control1("live") BY <1>0 DEF Controlled
      <4>2. proc["live"].watching = {} /\ proc["live"].started = FALSE BY <3>2, <4>1 DEF Begin, Control1, NewProc
      <4>3. Started("live").watching = {} /\ Started("live").started = FALSE
        BY DEF Started, NewProc
      <4> QED BY <1>0, <3>2, <4>2, <4>3 DEF Begin, SameLiveNotes
    <3>3. CASE Deserts BY <3>3 DEF Deserts, SameNotes, SameLiveNotes
    <3>4. CASE Again BY <1>p, <3>4 DEF Again, Process, SameLiveNotes
    <3> QED BY <1>0, <1>2, <3>1, <3>2, <3>3, <3>4, OneMoves
  <2>2. w'.monitors = w.monitors /\ (w'.collector \in {w.collector, "absent"} \/ Switches)
    <3>1. ASSUME NEW x \in Procs, Affects(x)
          PROVE  w'.monitors = w.monitors /\ w'.collector \in {w.collector, "absent"}
      <4>1. x # "live" /\ <<x, proc[x].phase>> \in Home(Current(x)[1]) BY <1>2, <3>1 DEF Affects
      <4>2. Current(x)[1] \notin LiveOps BY <4>1, HomeOfOps
      <4> QED BY <3>1, <4>2 DEF Affects, LeavesAlone, Effects
    <3> QED BY <1>0, <3>1 DEF WorldMoves, Switches, Flows, Restarts, KeepsFiles
  <2> QED BY <2>1, <2>2
<1> QED BY <1>1, <1>2

LEMMA LiveNotesStep ==
  ASSUME Sound, SuiteNotes, LiveNotes, [Next]_vars
  PROVE  LiveNotes'
<1>0. /\ Types /\ Controlled /\ Excluded /\ Types' /\ Controlled' /\ Moves /\ WorldMoves /\ Shaped(c)
      /\ c' = c /\ Ps' = Ps /\ "live" \in Procs \ {"build"} /\ "live" # "verify"
  BY NextAt DEF Sound, Procs
<1>g. Good("live")' => Good("live") BY <1>0, GoodMoves
<1> DEFINE s == Current("live")
           Calm  == /\ SameLiveNotes /\ w'.monitors = w.monitors
                    /\ w'.collector \in {w.collector, "absent"} \/ Switches
           Works == /\ Affects("live") /\ s[1] \in {"watch", "unwatch", "up", "down"}
                    /\ proc'["live"].watching =
                         IF s[1] = "watch" THEN proc["live"].watching \union {s[2]} ELSE proc["live"].watching
                    /\ s[1] = "up" => proc'["live"].started \/ (~Good("live")' /\ proc'["live"].started = proc["live"].started)
                    /\ s[1] # "up" => proc'["live"].started = proc["live"].started
<1>c. Calm \/ Works BY LiveMoves
<1>w. ASSUME Works
      PROVE  /\ s = <<s[1], s[2]>> /\ Running("live")
             /\ Effects(s[1], s[2], w') /\ LeavesAlone(s[1], w')
             /\ s[1] \in {"watch", "up"} => \E i \in 1 .. Len(c.live.body) : s = c.live.body[i]
             /\ proc["live"].receipt = "open"
  <2>1. s \in STRING \X STRING /\ <<"live", proc["live"].phase>> \in Home(s[1]) /\ Running("live")
    BY <1>w DEF Affects, StepOf
  <2>2. s = <<s[1], s[2]>> BY <2>1
  <2>3. proc["live"].phase \in {"body", "final"} /\ (s[1] \in {"watch", "up"} => proc["live"].phase = "body")
    BY <1>w, <2>1, HomeOfOps
  <2>4. proc["live"].receipt = "open" BY <1>0, <2>3, HeldOpen
  <2>5. s[1] \in {"watch", "up"} => \E i \in 1 .. Len(c.live.body) : s = c.live.body[i]
    BY <1>0, <2>1, <2>3, AtStep DEF Current
  <2> QED BY <1>w, <2>1, <2>2, <2>4, <2>5 DEF Affects
<1>s. proc["live"].started => proc'["live"].started BY <1>c DEF SameLiveNotes
<1> HIDE DEF Calm, Works
<1>1. w'.monitors \subseteq proc'["live"].watching
  <2>0. w.monitors \subseteq proc["live"].watching BY DEF LiveNotes
  <2>1. CASE Calm BY <2>0, <2>1 DEF Calm, SameLiveNotes
  <2>2. CASE Works
    <3>1. CASE s[1] = "watch" BY <1>w, <2>0, <2>2, <3>1 DEF Works, Effects
    <3>2. CASE s[1] = "unwatch" BY <1>w, <2>0, <2>2, <3>2 DEF Works, Effects
    <3>3. CASE s[1] \notin {"watch", "unwatch"} BY <1>w, <2>0, <2>2, <3>3 DEF Works, LeavesAlone
    <3> QED BY <3>1, <3>2, <3>3
  <2> QED BY <1>c, <2>1, <2>2
<1>2. ASSUME NEW p \in proc'["live"].watching
      PROVE  \E i \in 1 .. Len(c.live.body) : c.live.body[i] = <<"watch", p>>
  <2>1. CASE p \in proc["live"].watching BY <2>1 DEF LiveNotes, K
  <2>2. CASE p \notin proc["live"].watching
    <3>1. Works BY <1>2, <1>c, <2>2 DEF Calm, SameLiveNotes
    <3>2. s[1] = "watch" /\ p = s[2] BY <1>2, <2>2, <3>1 DEF Works
    <3> QED BY <1>w, <3>1, <3>2
  <2> QED BY <2>1, <2>2
<1>3. ASSUME Good("live")', w'.collector = "up" PROVE proc'["live"].started
  <2>0. w.collector = "up" => proc["live"].started BY <1>3, <1>g DEF LiveNotes
  <2>1. CASE Calm /\ ~Switches BY <1>3, <1>s, <2>0, <2>1 DEF Calm
  <2>2. CASE Switches
    <3>1. Running("live") /\ s[1] = "suite" /\ w.request # None BY <2>2 DEF Switches, Controls
    <3>2. /\ proc["live"].phase = "body" /\ proc["live"].pos \in 1 .. Len(c.live.body)
          /\ s = c.live.body[proc["live"].pos]
      BY <1>0, <3>1, AtSuite
    <3>3. In(c.suite.body, "ask") BY <3>1 DEF SuiteNotes, K
    <3>4. PICK k \in 1 .. Len(c.live.body) : k = proc["live"].pos BY <3>2
    <3>5. PICK j \in 1 .. k - 1 : c.live.body[j][1] = "up"
      BY <1>0, <3>1, <3>2, <3>3, <3>4, Formed DEF UndoesAll
    <3>6. j \in 1 .. Len(c.live.body) /\ j < proc["live"].pos BY <3>4, <3>5
    <3>7. Did("live", j) BY <3>2, <3>6 DEF Did, K
    <3>8. proc["live"].started BY <3>5, <3>6, <3>7 DEF LiveNotes, K
    <3> QED BY <1>s, <3>8
  <2>3. CASE Works
    <3>1. CASE s[1] = "up" BY <1>3, <2>3, <3>1 DEF Works
    <3>2. CASE s[1] = "down" BY <1>3, <1>w, <2>3, <3>2 DEF Effects
    <3>3. CASE s[1] \in {"watch", "unwatch"} BY <1>3, <1>s, <1>w, <2>0, <2>3, <3>3 DEF LeavesAlone
    <3> QED BY <2>3, <3>1, <3>2, <3>3 DEF Works
  <2> QED BY <1>c, <2>1, <2>2, <2>3
<1>4. ASSUME proc'["live"].started PROVE In(c.live.body, "up")
  <2>1. CASE proc["live"].started BY <2>1 DEF LiveNotes, K
  <2>2. CASE ~proc["live"].started
    <3>1. Works BY <1>4, <1>c, <2>2 DEF Calm, SameLiveNotes
    <3>2. s[1] = "up" BY <1>4, <2>2, <3>1 DEF Works
    <3> QED BY <1>w, <3>1, <3>2 DEF In
  <2> QED BY <2>1, <2>2
<1>5. ASSUME NEW i \in 1 .. Len(c.live.body), Did("live", i)', c.live.body[i][1] = "up"
      PROVE  proc'["live"].started
  <2>1. Did("live", i) \/ Gains("live", i) BY <1>0, <1>5, DidMoves
  <2>2. CASE Did("live", i) BY <1>5, <1>s, <2>2 DEF LiveNotes, K
  <2>3. CASE Gains("live", i)
    <3>1. SameNotes(Noted(proc["live"], s), proc'["live"]) /\ Running("live") /\ s = c.live.body[i]
      BY <2>3 DEF Gains, Passes
    <3>2. s \in STRING \X STRING /\ proc["live"] \in Process BY <1>0, <3>1, AtStep DEF Types
    <3> QED BY <1>0, <1>5, <3>1, <3>2, NotedShape DEF SameNotes
  <2> QED BY <2>1, <2>2, <2>3
<1>6. ASSUME proc'["live"].receipt = None
      PROVE  proc'["live"].watching = {} /\ ~proc'["live"].started
  <2>1. proc["live"].receipt = None BY <1>0, <1>6, PhaseMoves
  <2>2. ~Works BY <1>w, <2>1 DEF None
  <2>3. Calm BY <1>c, <2>2
  <2> QED BY <2>1, <2>3 DEF LiveNotes, SameLiveNotes, Calm
<1> QED BY <1>0, <1>1, <1>2, <1>3, <1>4, <1>5, <1>6 DEF LiveNotes, K

\* A suite in its body has come there, and goes on behind its current step.
LEMMA SuiteBody ==
  ASSUME Sound, [Next]_vars, proc'["suite"].phase = "body"
  PROVE  \/ proc["suite"].phase = "body" /\ proc'["suite"] = proc["suite"]
         \/ /\ proc["suite"].phase = "body" /\ StepOf("suite") /\ Passes("suite") /\ Running("suite")
            /\ proc'["suite"].pos = proc["suite"].pos + 1 /\ proc["suite"].pos \in 1 .. Len(c.suite.body)
            /\ Current("suite") = c.suite.body[proc["suite"].pos]
            /\ Current("suite") \in STRING \X STRING
         \/ proc["suite"].receipt = None
<1>0. Types /\ Controlled /\ Moves /\ "suite" \in Procs BY NextAt DEF Sound, Procs
<1>p. proc["suite"] \in Process /\ Control1("suite") BY <1>0 DEF Types, Controlled
<1>1. CASE proc'["suite"] = proc["suite"] BY <1>1
<1>2. CASE StepOf("suite")
  <2>1. Running("suite") BY <1>2 DEF StepOf
  <2>2. ~Raise("suite") BY DEF Raise
  <2>3. Advance("suite") /\ (Passes("suite") \/ Skips("suite"))
    BY <1>2, <2>2 DEF StepOf, Passes, Skips, Backfires, Refused
  <2>4. CASE proc["suite"].phase = "prep" BY <2>3, <2>4, <1>p DEF Advance, Control1
  <2>5. CASE proc["suite"].phase = "body"
    <3>1. Passes("suite") BY <2>3, <2>5 DEF Skips, Skipped, Ignores
    <3>2. proc'["suite"].pos = proc["suite"].pos + 1 BY <2>3, <2>5 DEF Advance
    <3>3. /\ proc["suite"].pos \in 1 .. Len(c.suite.body) /\ Current("suite") = c.suite.body[proc["suite"].pos]
          /\ Current("suite") \in STRING \X STRING
      BY <1>0, <2>1, <2>5, AtStep DEF Current
    <3> QED BY <1>2, <2>1, <2>5, <3>1, <3>2, <3>3
  <2>6. CASE proc["suite"].phase = "final" BY <2>3, <2>6 DEF Advance
  <2> QED BY <2>1, <2>4, <2>5, <2>6 DEF Running
<1>3. CASE Begin("suite") BY <1>3, <1>p DEF Begin, Control1, NewProc
<1> QED BY <1>0, <1>1, <1>2, <1>3, OneMoves

LEMMA ArmingStep ==
  ASSUME Sound, SuiteNotes, Arming, [Next]_vars
  PROVE  Arming'
<1>0. /\ Types /\ Controlled /\ Excluded /\ Moves /\ c' = c /\ "suite" \in Procs
  BY NextAt DEF Sound, Procs
<1>1. SUFFICES ASSUME proc'["suite"].phase = "body", NEW p \in proc'["suite"].armed
               PROVE  \E a \in 1 .. proc'["suite"].pos - 1 : ArmedAt(p, a)'
  BY DEF Arming
<1>2. CASE proc["suite"].receipt = None
  <2>1. proc["suite"].armed = {} BY <1>2 DEF SuiteNotes
  <2>2. ~(Affects("suite") /\ Current("suite")[1] \in Commands)
    <3>1. SUFFICES ASSUME Affects("suite"), Current("suite")[1] \in Commands PROVE FALSE OBVIOUS
    <3>2. proc["suite"].phase \in {"body", "final"} BY <3>1, HomeOfOps DEF Affects, Commands
    <3> QED BY <1>0, <1>2, <3>2, HeldOpen DEF None
  <2>3. SameSuiteNotes BY <2>2, SuiteMoves
  <2> QED BY <1>1, <2>1, <2>3 DEF SameSuiteNotes
<1>3. CASE proc["suite"].phase = "body" /\ proc'["suite"] = proc["suite"]
  <2>1. PICK a \in 1 .. proc["suite"].pos - 1 : ArmedAt(p, a) BY <1>1, <1>3 DEF Arming
  <2>2. ArmedAt(p, a)' BY <1>0, <1>3, <2>1 DEF ArmedAt, K
  <2> QED BY <1>3, <2>1, <2>2
<1>4. CASE /\ proc["suite"].phase = "body" /\ StepOf("suite") /\ Passes("suite") /\ Running("suite")
           /\ proc'["suite"].pos = proc["suite"].pos + 1 /\ proc["suite"].pos \in 1 .. Len(c.suite.body)
           /\ Current("suite") = c.suite.body[proc["suite"].pos]
           /\ Current("suite") \in STRING \X STRING
  <2> DEFINE s == Current("suite")
  <2>1. PICK k \in 1 .. Len(c.suite.body) : k = proc["suite"].pos BY <1>4
  <2>2. s = c.suite.body[k] /\ s = <<s[1], s[2]>> /\ k \in Nat /\ k > 0 BY <1>4, <2>1
  <2>3. SameNotes(Noted(proc["suite"], s), proc'["suite"]) /\ proc["suite"] \in Process
    BY <1>0, <1>4 DEF Passes, Types
  <2>4. /\ s[1] = "arm" => proc'["suite"].armed = proc["suite"].armed \union {s[2]}
        /\ s[1] = "disarm" => proc'["suite"].armed = proc["suite"].armed \ {s[2]}
        /\ s[1] \notin {"arm", "disarm"} => proc'["suite"].armed = proc["suite"].armed
    BY <1>0, <1>4, <2>3, NotedShape DEF SameNotes
  <2>5. proc'["suite"].pos - 1 = k BY <1>4, <2>1, <2>2
  <2>6. CASE s[1] = "arm" /\ p = s[2]
    <3>1. ArmedAt(p, k)'
      <4>1. c'.suite.body[k] = <<"arm", p>> BY <1>0, <2>2, <2>6
      <4>2. k + 1 .. proc'["suite"].pos - 1 = {} BY <2>2, <2>5
      <4> QED BY <4>1, <4>2 DEF ArmedAt, K
    <3> QED BY <2>2, <2>5, <3>1
  <2>7. CASE ~(s[1] = "arm" /\ p = s[2])
    <3>1. p \in proc["suite"].armed BY <1>1, <2>4, <2>7
    <3>2. s # <<"disarm", p>> BY <1>1, <2>4
    <3>3. PICK a \in 1 .. k - 1 : ArmedAt(p, a) BY <1>4, <2>1, <3>1 DEF Arming
    <3>4. a \in Nat /\ a \in 1 .. k BY <2>2, <3>3
    <3>5. \A d \in a + 1 .. k : c.suite.body[d] # <<"disarm", p>>
      <4>1. \A d \in a + 1 .. k - 1 : c.suite.body[d] # <<"disarm", p>> BY <2>1, <3>3 DEF ArmedAt, K
      <4>2. \A d \in a + 1 .. k : d = k \/ d \in a + 1 .. k - 1 BY <2>2, <3>4
      <4> QED BY <2>2, <3>2, <4>1, <4>2
    <3>6. ArmedAt(p, a)' BY <1>0, <2>5, <3>3, <3>5 DEF ArmedAt, K
    <3> QED BY <2>5, <3>4, <3>6
  <2> QED BY <2>6, <2>7
<1> QED BY <1>1, <1>2, <1>3, <1>4, SuiteBody

LEMMA RefusingStep ==
  ASSUME Sound, SuiteNotes, Arming, Refusing, [Next]_vars
  PROVE  Refusing'
<1>0. /\ Types /\ Controlled /\ Excluded /\ Moves /\ c' = c /\ Ps' = Ps /\ "suite" \in Procs
      /\ (hurt => hurt')
  BY NextAt DEF Sound, Procs, Moves
<1>a. \A p : Apart(p)' = Apart(p) BY <1>0 DEF Apart, K
<1>1. SUFFICES ASSUME ~hurt', NEW p \in Ps, Apart(p), p \in proc'["suite"].armed, w'.tmm.text[p] = "nop"
               PROVE  w'.tmm.slot[p] = NoObject
  BY <1>0, <1>a DEF Refusing, T
<1>2. p \in proc["suite"].armed /\ T.text[p] = "nop" => T.slot[p] = NoObject BY <1>0, <1>1 DEF Refusing
<1>3. CASE SameSuiteNotes /\ SameSlots BY <1>1, <1>2, <1>3 DEF SameSuiteNotes, SameSlots
<1>4. CASE Restarts BY <1>4 DEF Restarts
<1>5. CASE /\ Affects("suite") /\ Current("suite")[1] \in Commands /\ Passes("suite")
           /\ SameNotes(Noted(proc["suite"], Current("suite")), proc'["suite"])
  <2> DEFINE s == Current("suite")
  <2>1. /\ s \in STRING \X STRING /\ <<"suite", proc["suite"].phase>> \in Home(s[1]) /\ Running("suite")
        /\ Effects(s[1], s[2], w') /\ LeavesAlone(s[1], w')
    BY <1>5 DEF Affects, StepOf
  <2>2. proc["suite"] \in Process BY <1>0 DEF Types
  <2>3. /\ s[1] = "arm" => proc'["suite"].armed = proc["suite"].armed \union {s[2]}
        /\ s[1] = "disarm" => proc'["suite"].armed = proc["suite"].armed \ {s[2]}
        /\ s[1] \notin {"arm", "disarm"} => proc'["suite"].armed = proc["suite"].armed
    BY <1>0, <1>5, <2>1, <2>2, NotedShape DEF SameNotes
  <2>4. CASE s[1] = "load"
    <3>1. w'.tmm.text = T.text BY <2>1, <2>4 DEF LeavesAlone, T
    <3>2. p \in proc["suite"].armed BY <1>1, <2>3, <2>4
    <3>3. p # s[2]
      <4>1. SUFFICES ASSUME p = s[2] PROVE FALSE OBVIOUS
      <4>2. proc["suite"].phase = "body" BY <2>1, <2>4, HomeOfOps
      <4>3. /\ proc["suite"].pos \in 1 .. Len(c.suite.body) /\ s = c.suite.body[proc["suite"].pos]
        BY <1>0, <2>1, <4>2, AtStep DEF Current
      <4>4. PICK k \in 1 .. Len(c.suite.body) : k = proc["suite"].pos BY <4>3
      <4>5. PICK a \in 1 .. k - 1 : ArmedAt(p, a) BY <3>2, <4>2, <4>4 DEF Arming
      <4>6. c.suite.body[k] = <<"load", p>> BY <2>1, <2>4, <4>1, <4>3, <4>4
      <4>7. c.suite.body[a] = <<"arm", p>> BY <4>5 DEF ArmedAt, K
      <4>8. PICK d \in a + 1 .. k - 1 : c.suite.body[d] = <<"disarm", p>>
        BY <1>1, <4>5, <4>6, <4>7 DEF Apart, K
      <4> QED BY <4>4, <4>5, <4>8 DEF ArmedAt, K
    <3>4. w'.tmm.slot[p] = T.slot[p] BY <2>1, <2>4, <3>3 DEF Effects, T
    <3> QED BY <1>1, <1>2, <3>1, <3>2, <3>4
  <2>5. CASE s[1] = "revoke"
    <3>1. w'.tmm.text = T.text BY <2>1, <2>5 DEF LeavesAlone, T
    <3>2. w'.tmm.slot[p] = IF p = s[2] THEN NoObject ELSE T.slot[p] BY <2>1, <2>5 DEF Effects, T
    <3> QED BY <1>1, <1>2, <2>3, <2>5, <3>1, <3>2
  <2>6. CASE s[1] = "arm"
    <3>1. w'.tmm.text[p] = IF p = s[2] THEN "call" ELSE T.text[p] BY <2>1, <2>6 DEF Effects, T
    <3>2. w'.tmm.slot = T.slot BY <2>1, <2>6 DEF LeavesAlone, T
    <3> QED BY <1>1, <1>2, <2>3, <2>6, <3>1, <3>2
  <2>7. CASE s[1] = "disarm"
    <3>1. w'.tmm.text[p] = IF p = s[2] THEN "nop" ELSE T.text[p] BY <2>1, <2>7 DEF Effects, T
    <3>2. w'.tmm.slot = T.slot BY <2>1, <2>7 DEF LeavesAlone, T
    <3> QED BY <1>1, <1>2, <2>3, <2>7, <3>1, <3>2
  <2> QED BY <1>5, <2>4, <2>5, <2>6, <2>7 DEF Commands
<1> QED BY <1>1, <1>3, <1>4, <1>5, SuiteMoves

-----------------------------------------------------------------------------
(* What a cleanup undoes.                                                  *)

\* What is undone stays so, once the suite is past its body.
LEMMA SuiteAfter ==
  ASSUME Sound, [Next]_vars, proc["suite"].phase \notin {"prep", "body"}
  PROVE  /\ \A p \in Ps : T.text[p] = "nop" => w'.tmm.text[p] = "nop"
         /\ \A p \in Ps : T.slot[p] = NoObject => w'.tmm.slot[p] = NoObject
         /\ w'.keys => w.keys
<1>0. Types /\ Controlled /\ Excluded /\ Moves /\ WorldMoves BY NextAt DEF Sound
<1>1. CASE w' = w BY <1>1 DEF T
<1>2. CASE Switches BY <1>2 DEF Switches, KeepsFiles, T
<1>3. CASE Flows BY <1>3 DEF Flows, KeepsFiles, T
<1>4. CASE Restarts BY <1>4 DEF Restarts, KeepsFiles
<1>5. ASSUME NEW x \in Procs, Affects(x)
      PROVE  /\ \A p \in Ps : T.text[p] = "nop" => w'.tmm.text[p] = "nop"
             /\ \A p \in Ps : T.slot[p] = NoObject => w'.tmm.slot[p] = NoObject
             /\ w'.keys => w.keys
  <2> DEFINE op == Current(x)[1]
  <2>1. <<x, proc[x].phase>> \in Home(op) /\ LeavesAlone(op, w') /\ Effects(op, Current(x)[2], w')
    BY <1>5 DEF Affects
  <2>2. op \notin {"load", "arm", "keys"}
    <3>1. SUFFICES ASSUME op \in {"load", "arm", "keys"} PROVE FALSE OBVIOUS
    <3>2. x = "suite" /\ proc[x].phase \in {"prep", "body"} BY <2>1, <3>1, HomeOfOps DEF SuiteOps
    <3> QED BY <3>2
  <2>3. \A p \in Ps : T.text[p] = "nop" => w'.tmm.text[p] = "nop"
    <3>1. CASE op = "disarm" BY <2>1, <3>1 DEF Effects, T
    <3>2. CASE op # "disarm" BY <2>1, <2>2, <3>2 DEF LeavesAlone, T
    <3> QED BY <3>1, <3>2
  <2>4. \A p \in Ps : T.slot[p] = NoObject => w'.tmm.slot[p] = NoObject
    <3>1. CASE op = "revoke" BY <2>1, <3>1 DEF Effects, T
    <3>2. CASE op # "revoke" BY <2>1, <2>2, <3>2 DEF LeavesAlone, T
    <3> QED BY <3>1, <3>2
  <2>5. w'.keys => w.keys
    <3>1. CASE op = "erase" BY <2>1, <3>1 DEF Effects
    <3>2. CASE op # "erase" BY <2>1, <2>2, <3>2 DEF LeavesAlone
    <3> QED BY <3>1, <3>2
  <2> QED BY <2>3, <2>4, <2>5
<1> QED BY <1>0, <1>1, <1>2, <1>3, <1>4, <1>5 DEF WorldMoves

\* The same for the driver.
LEMMA LiveAfter ==
  ASSUME Sound, [Next]_vars, proc["live"].phase # "body"
  PROVE  w'.monitors \subseteq w.monitors /\ (w.collector # "up" => w'.collector # "up")
<1>0. Types /\ Controlled /\ Excluded BY DEF Sound
<1>1. ~Switches
  <2>1. SUFFICES ASSUME Switches PROVE FALSE OBVIOUS
  <2>2. Running("live") /\ Current("live")[1] = "suite" BY <2>1 DEF Switches, Controls
  <2> QED BY <1>0, <2>2, AtSuite
<1>2. CASE w'.monitors = w.monitors /\ w'.collector \in {w.collector, "absent"} BY <1>2
<1>3. CASE Affects("live")
  <2>1. /\ <<"live", proc["live"].phase>> \in Home(Current("live")[1]) /\ LeavesAlone(Current("live")[1], w')
        /\ Effects(Current("live")[1], Current("live")[2], w')
    BY <1>3 DEF Affects
  <2>2. Current("live")[1] \notin {"watch", "up", "remove"} BY <2>1, HomeOfOps
  <2>3. CASE Current("live")[1] = "unwatch" BY <2>1, <2>3 DEF LeavesAlone, Effects
  <2>4. CASE Current("live")[1] = "down" BY <2>1, <2>4 DEF LeavesAlone, Effects
  <2>5. CASE Current("live")[1] \notin {"unwatch", "down"} BY <2>1, <2>2, <2>5 DEF LeavesAlone
  <2> QED BY <2>3, <2>4, <2>5
<1> QED BY <1>1, <1>2, <1>3, LiveMoves

LEMMA UndoneAfter ==
  ASSUME Types, Controlled, NEW x \in {"live", "suite"}, NEW b, NEW j, Undone(x, b, j)
  PROVE  proc[x].phase # "body" /\ (x = "suite" => proc[x].phase # "prep")
<1>1. Control1(x) /\ x \in Procs BY DEF Controlled, Procs
<1>2. proc[x].phase # "body" BY <1>1 DEF Undone, Control1, Held, None
<1>3. x = "suite" => proc[x].phase # "prep" BY <1>1 DEF Undone, Control1, None
<1> QED BY <1>2, <1>3

LEMMA SuiteUndoingStep ==
  ASSUME Sound, SuiteNotes, Refusing, SuiteUndoing, [Next]_vars
  PROVE  SuiteUndoing'
<1>0. /\ Types /\ Controlled /\ Excluded /\ Moves /\ WorldMoves /\ Shaped(c) /\ c' = c /\ Ps' = Ps
      /\ "suite" \in Procs \ {"build"} /\ hurt \in BOOLEAN /\ (hurt => hurt')
  BY NextAt DEF Sound, Procs, Types, Moves
<1>a. \A p : Apart(p)' = Apart(p) BY <1>0 DEF Apart, K
<1>1. SUFFICES ASSUME Good("suite")', NEW b \in 1 .. Len(c.suite.final)
               PROVE  LET s == c.suite.final[b] IN
                      /\ Undone("suite", b, 1)' => \A p \in Ps :
                           /\ s[1] = <<"disarm", p>> => w'.tmm.text[p] = "nop"
                           /\ s[1] = <<"revoke", p>> => w'.tmm.slot[p] = NoObject
                      /\ Undone("suite", b, 1)' /\ s[1][1] = "erase" => ~w'.keys
                      /\ Undone("suite", b, 2)' => \A p \in Ps :
                           Len(s) > 1 /\ s[1] = <<"disarm", p>> /\ s[2] = <<"revoke", p>> /\ Apart(p) =>
                             w'.tmm.slot[p] = NoObject
  BY <1>0, <1>a DEF SuiteUndoing, K, T
<1> DEFINE s == c.suite.final[b]
<1>2. Good("suite") BY <1>0, <1>1, GoodMoves
<1>3. c["suite"].final \in Seq(Seq(STRING \X STRING)) /\ s # << >> BY <1>0, Parts DEF Shaped
<1>4. s \in Seq(STRING \X STRING) /\ 1 \in 1 .. Len(s) BY <1>3
<1>5. ASSUME NEW j \in {1, 2}, Undone("suite", b, j)
      PROVE  /\ \A p \in Ps : T.text[p] = "nop" => w'.tmm.text[p] = "nop"
             /\ \A p \in Ps : T.slot[p] = NoObject => w'.tmm.slot[p] = NoObject
             /\ w'.keys => w.keys
  BY <1>0, <1>5, UndoneAfter, SuiteAfter
<1>6. ASSUME NEW j \in {1, 2}, j \in 1 .. Len(s), Leaps("suite", b, j)
      PROVE  /\ Running("suite") /\ proc["suite"].phase = "final" /\ StepOf("suite")
             /\ Current("suite") = s[proc["suite"].pos] /\ proc["suite"].pos \in {1, j}
             /\ \/ proc["suite"].pos = j /\ Passes("suite") /\
                   (Current("suite")[1] \in WorldOps => Effects(Current("suite")[1], Current("suite")[2], w'))
                \/ proc["suite"].pos = j /\ Skips("suite") /\ w' = w
                \/ Refused("suite") /\ ~hurt' /\ w' = w /\ ~Ok("suite", Current("suite"))
                   /\ ~Skipped("suite", Current("suite"))
  <2>1. StepOf("suite") /\ Running("suite") /\ proc["suite"].phase = "final" /\ proc["suite"].block = b
    BY <1>6 DEF Leaps
  <2>2. Current("suite") = s[proc["suite"].pos] BY <1>0, <2>1, AtStep DEF Current
  <2>3. <<"suite", "final">> \in Home(Current("suite")[1]) BY <1>0, <2>1, AtStep
  <2>4. Current("suite")[1] \notin {"watch", "unwatch"} BY <2>3, HomeOfOps
  <2>5. ~(Backfires("suite") /\ ~hurt') BY <2>4 DEF Backfires
  <2>6. Passes("suite") /\ Current("suite")[1] \in WorldOps => Effects(Current("suite")[1], Current("suite")[2], w')
    BY <1>0, <2>1, AffectsIf DEF Affects
  <2>7. Skips("suite") => w' = w BY DEF Skips, Leaves
  <2>8. Refused("suite") /\ ~hurt' => w' = w /\ ~Ok("suite", Current("suite")) /\ ~Skipped("suite", Current("suite"))
    BY <2>1 DEF Refused, Leaves
  <2>9. proc["suite"].pos = j \/ proc["suite"].pos \in 1 .. j BY <1>6 DEF Leaps
  <2>10. proc["suite"].pos \in {1, j} BY <2>9
  <2> QED BY <1>6, <2>1, <2>2, <2>5, <2>6, <2>7, <2>8, <2>10 DEF Leaps
<1>7. ASSUME NEW p \in Ps
      PROVE  /\ T.text[p] \in {"nop", "call"}
             /\ p \notin proc["suite"].armed => T.text[p] = "nop"
             /\ p \notin proc["suite"].loaded => T.slot[p] = NoObject
  <2>1. T.text \in [Ps -> {"nop", "call"}] BY <1>0 DEF Types, World, Tmm, T
  <2>2. T.text[p] \in {"nop", "call"} BY <2>1
  <2> QED BY <1>2, <2>2 DEF SuiteNotes
<1>8. ASSUME Undone("suite", b, 1)', NEW p \in Ps, s[1] = <<"disarm", p>>
      PROVE  w'.tmm.text[p] = "nop"
  <2>1. Undone("suite", b, 1) \/ Leaps("suite", b, 1) BY <1>0, <1>1, <1>4, <1>8, UndoneMoves
  <2>2. CASE Undone("suite", b, 1)
    <3>1. T.text[p] = "nop" BY <1>2, <1>8, <2>2 DEF SuiteUndoing, K
    <3> QED BY <1>5, <2>2, <3>1
  <2>3. CASE Leaps("suite", b, 1)
    <3>1. Current("suite") = <<"disarm", p>> BY <1>4, <1>6, <1>8, <2>3
    <3>2. Current("suite")[1] = "disarm" /\ Current("suite")[2] = p /\ "disarm" \in WorldOps BY <3>1 DEF WorldOps
    <3>3. CASE Passes("suite") /\ Effects(Current("suite")[1], Current("suite")[2], w')
      BY <3>2, <3>3 DEF Effects
    <3>4. CASE Skips("suite") /\ w' = w
      <4>1. p \notin proc["suite"].armed BY <3>2, <3>4 DEF Skips, Skipped, Ignores
      <4> QED BY <1>7, <3>4, <4>1 DEF T
    <3>5. CASE w' = w /\ ~Ok("suite", Current("suite"))
      <4>1. T.text[p] # "call" BY <3>2, <3>5 DEF Ok, SuiteOk
      <4> QED BY <1>7, <3>5, <4>1 DEF T
    <3> QED BY <1>4, <1>6, <2>3, <3>2, <3>3, <3>4, <3>5
  <2> QED BY <2>1, <2>2, <2>3
<1>9. ASSUME Undone("suite", b, 1)', NEW p \in Ps, s[1] = <<"revoke", p>>
      PROVE  w'.tmm.slot[p] = NoObject
  <2>1. Undone("suite", b, 1) \/ Leaps("suite", b, 1) BY <1>0, <1>1, <1>4, <1>9, UndoneMoves
  <2>2. CASE Undone("suite", b, 1)
    <3>1. T.slot[p] = NoObject BY <1>2, <1>9, <2>2 DEF SuiteUndoing, K
    <3> QED BY <1>5, <2>2, <3>1
  <2>3. CASE Leaps("suite", b, 1)
    <3>1. Current("suite") = <<"revoke", p>> BY <1>4, <1>6, <1>9, <2>3
    <3>2. Current("suite")[1] = "revoke" /\ Current("suite")[2] = p /\ "revoke" \in WorldOps BY <3>1 DEF WorldOps
    <3>3. CASE Passes("suite") /\ Effects(Current("suite")[1], Current("suite")[2], w')
      BY <3>2, <3>3 DEF Effects
    <3>4. CASE Skips("suite") /\ w' = w
      <4>1. p \notin proc["suite"].loaded BY <3>2, <3>4 DEF Skips, Skipped, Ignores
      <4> QED BY <1>7, <3>4, <4>1 DEF T
    <3>5. Ok("suite", Current("suite")) BY <3>2 DEF Ok, SuiteOk
    <3> QED BY <1>4, <1>6, <2>3, <3>2, <3>3, <3>4, <3>5
  <2> QED BY <2>1, <2>2, <2>3
<1>10. ASSUME Undone("suite", b, 1)', s[1][1] = "erase"
       PROVE  ~w'.keys
  <2>1. Undone("suite", b, 1) \/ Leaps("suite", b, 1) BY <1>0, <1>1, <1>4, <1>10, UndoneMoves
  <2>2. CASE Undone("suite", b, 1)
    <3>1. ~w.keys BY <1>2, <1>10, <2>2 DEF SuiteUndoing, K
    <3> QED BY <1>5, <2>2, <3>1
  <2>3. CASE Leaps("suite", b, 1)
    <3>1. Current("suite")[1] = "erase" /\ "erase" \in WorldOps BY <1>4, <1>6, <1>10, <2>3 DEF WorldOps
    <3>2. CASE Passes("suite") /\ Effects(Current("suite")[1], Current("suite")[2], w')
      BY <3>1, <3>2 DEF Effects
    <3>3. ~Skips("suite") BY <3>1 DEF Skips, Skipped, Ignores
    <3>4. Ok("suite", Current("suite")) BY <3>1 DEF Ok, SuiteOk
    <3> QED BY <1>4, <1>6, <2>3, <3>1, <3>2, <3>3, <3>4
  <2> QED BY <2>1, <2>2, <2>3
<1>11. ASSUME Undone("suite", b, 2)', NEW p \in Ps, Len(s) > 1, s[1] = <<"disarm", p>>, s[2] = <<"revoke", p>>,
              Apart(p)
       PROVE  w'.tmm.slot[p] = NoObject
  <2>0. 2 \in 1 .. Len(s) BY <1>4, <1>11
  <2>1. Undone("suite", b, 2) \/ Leaps("suite", b, 2) BY <1>0, <1>1, <1>11, <2>0, UndoneMoves
  <2>2. CASE Undone("suite", b, 2)
    <3>1. T.slot[p] = NoObject BY <1>2, <1>11, <2>2 DEF SuiteUndoing, K
    <3> QED BY <1>5, <2>2, <3>1
  <2>3. CASE Leaps("suite", b, 2)
    <3>1. CASE proc["suite"].pos = 2
      <4>1. Current("suite") = <<"revoke", p>> BY <1>6, <1>11, <2>0, <2>3, <3>1
      <4>2. Current("suite")[1] = "revoke" /\ Current("suite")[2] = p /\ "revoke" \in WorldOps BY <4>1 DEF WorldOps
      <4>3. CASE Passes("suite") /\ Effects(Current("suite")[1], Current("suite")[2], w')
        BY <4>2, <4>3 DEF Effects
      <4>4. CASE Skips("suite") /\ w' = w
        <5>1. p \notin proc["suite"].loaded BY <4>2, <4>4 DEF Skips, Skipped, Ignores
        <5> QED BY <1>7, <4>4, <5>1 DEF T
      <4>5. Ok("suite", Current("suite")) BY <4>2 DEF Ok, SuiteOk
      <4> QED BY <1>6, <2>0, <2>3, <4>2, <4>3, <4>4, <4>5
    <3>2. CASE proc["suite"].pos # 2
      <4>1. /\ proc["suite"].pos = 1 /\ ~hurt' /\ w' = w /\ ~Ok("suite", Current("suite"))
            /\ ~Skipped("suite", Current("suite")) /\ proc["suite"].phase = "final"
            /\ Current("suite") = s[proc["suite"].pos]
        BY <1>6, <2>0, <2>3, <3>2
      <4>2. Current("suite")[1] = "disarm" /\ Current("suite")[2] = p BY <1>11, <4>1
      <4>3. p \in proc["suite"].armed BY <4>1, <4>2 DEF Skipped
      <4>4. T.text[p] # "call" BY <4>1, <4>2 DEF Ok, SuiteOk
      <4>5. T.text[p] = "nop" /\ ~hurt BY <1>0, <1>7, <4>1, <4>4
      <4> QED BY <1>11, <4>1, <4>3, <4>5 DEF Refusing, T
    <3> QED BY <3>1, <3>2
  <2> QED BY <2>1, <2>2, <2>3
<1> QED BY <1>8, <1>9, <1>10, <1>11

\* A stop that was refused stays so.
LEMMA IgnoredStays ==
  ASSUME Types, Controlled, Moves
  PROVE  proc["live"].ignored => proc'["live"].ignored
<1>0. "live" \in Procs BY DEF Procs
<1>p. proc["live"] \in Process /\ Control1("live") BY <1>0 DEF Types, Controlled
<1>1. CASE proc'["live"] = proc["live"] BY <1>1
<1>2. CASE StepOf("live") BY <1>2 DEF StepOf
<1>3. CASE Begin("live")
  <2>1. proc["live"] = NewProc BY <1>3, <1>p DEF Begin, Control1
  <2> QED BY <2>1 DEF NewProc
<1>4. CASE Deserts BY <1>4 DEF Deserts
<1>5. CASE Again BY <1>5, <1>p DEF Again, Process
<1> QED BY <1>0, <1>1, <1>2, <1>3, <1>4, <1>5, OneMoves

LEMMA LiveUndoingStep ==
  ASSUME Sound, LiveNotes, LiveUndoing, [Next]_vars
  PROVE  LiveUndoing'
<1>0. /\ Types /\ Controlled /\ Excluded /\ Moves /\ WorldMoves /\ Shaped(c) /\ c' = c
      /\ "live" \in Procs \ {"build"}
  BY NextAt DEF Sound, Procs
<1>1. SUFFICES ASSUME Good("live")', NEW b \in 1 .. Len(c.live.final)
               PROVE  LET s == c.live.final[b] IN
                      /\ Undone("live", b, 1)' /\ s[1][1] = "unwatch" => s[1][2] \notin w'.monitors
                      /\ \A j \in 1 .. Len(s) :
                           Undone("live", b, j)' /\ s[j][1] = "down" /\ (\A h \in 1 .. j - 1 : s[h][1] = "logs") =>
                             w'.collector # "up" \/ proc'["live"].ignored
  BY <1>0 DEF LiveUndoing, K
<1> DEFINE s == c.live.final[b]
           op == Current("live")[1]
<1>2. Good("live") BY <1>0, <1>1, GoodMoves
<1>3. c["live"].final \in Seq(Seq(STRING \X STRING)) /\ s # << >> BY <1>0, Parts DEF Shaped
<1>4. s \in Seq(STRING \X STRING) /\ 1 \in 1 .. Len(s) BY <1>3
<1>5. ASSUME NEW j \in 1 .. Len(s), Undone("live", b, j)
      PROVE  w'.monitors \subseteq w.monitors /\ (w.collector # "up" => w'.collector # "up")
  BY <1>0, <1>5, UndoneAfter, LiveAfter
<1>i. proc["live"].ignored => proc'["live"].ignored BY <1>0, IgnoredStays
<1>6. ASSUME NEW j \in 1 .. Len(s), Leaps("live", b, j)
      PROVE  /\ StepOf("live") /\ Running("live") /\ proc["live"].phase = "final"
             /\ Current("live") = s[proc["live"].pos]
             /\ Skips("live") => w' = w
             /\ op \in WorldOps /\ (Passes("live") \/ Backfires("live")) => Effects(op, Current("live")[2], w')
             /\ Refused("live") /\ ~hurt' => ~Ok("live", Current("live")) /\ op \notin {"watch", "unwatch"}
             /\ Backfires("live") /\ ~hurt' => op \in {"watch", "unwatch"}
  <2>1. StepOf("live") /\ Running("live") /\ proc["live"].phase = "final" /\ proc["live"].block = b
    BY <1>6 DEF Leaps
  <2>2. Current("live") = s[proc["live"].pos] BY <1>0, <2>1, AtStep DEF Current
  <2>3. op \in WorldOps /\ (Passes("live") \/ Backfires("live")) => Effects(op, Current("live")[2], w')
    BY <1>0, <2>1, AffectsIf DEF Affects
  <2>4. Skips("live") => w' = w BY DEF Skips, Leaves
  <2>5. Refused("live") /\ ~hurt' => ~Ok("live", Current("live")) /\ op \notin {"watch", "unwatch"}
    BY <2>1 DEF Refused
  <2>6. Backfires("live") /\ ~hurt' => op \in {"watch", "unwatch"} BY DEF Backfires
  <2> QED BY <2>1, <2>2, <2>3, <2>4, <2>5, <2>6
<1>7. ASSUME Undone("live", b, 1)', s[1][1] = "unwatch" PROVE s[1][2] \notin w'.monitors
  <2>1. Undone("live", b, 1) \/ Leaps("live", b, 1) BY <1>0, <1>1, <1>4, <1>7, UndoneMoves
  <2>2. CASE Undone("live", b, 1)
    <3>1. s[1][2] \notin w.monitors BY <1>2, <1>7, <2>2 DEF LiveUndoing, K
    <3> QED BY <1>4, <1>5, <2>2, <3>1
  <2>3. CASE Leaps("live", b, 1)
    <3>1. proc["live"].pos = 1 BY <2>3 DEF Leaps
    <3>2. op = "unwatch" /\ Current("live") = s[1] /\ op \in WorldOps BY <1>4, <1>6, <1>7, <2>3, <3>1 DEF WorldOps
    <3>3. CASE Passes("live") \/ Backfires("live")
      <4>1. Effects(op, Current("live")[2], w') BY <1>4, <1>6, <2>3, <3>2, <3>3
      <4> QED BY <3>2, <4>1 DEF Effects
    <3>4. CASE Skips("live")
      <4>1. s[1][2] \notin proc["live"].watching BY <3>2, <3>4 DEF Skips, Skipped, Ignores
      <4> QED BY <1>4, <1>6, <2>3, <3>4, <4>1 DEF LiveNotes
    <3>5. ~(Refused("live") /\ ~hurt') BY <1>4, <1>6, <2>3, <3>2
    <3> QED BY <2>3, <3>3, <3>4, <3>5 DEF Leaps
  <2> QED BY <2>1, <2>2, <2>3
<1>8. ASSUME NEW j \in 1 .. Len(s), Undone("live", b, j)', s[j][1] = "down",
             \A h \in 1 .. j - 1 : s[h][1] = "logs"
      PROVE  w'.collector # "up" \/ proc'["live"].ignored
  <2>1. Undone("live", b, j) \/ Leaps("live", b, j) BY <1>0, <1>1, <1>8, UndoneMoves
  <2>2. CASE Undone("live", b, j)
    <3>1. w.collector # "up" \/ proc["live"].ignored BY <1>2, <1>8, <2>2 DEF LiveUndoing, K
    <3> QED BY <1>5, <1>i, <2>2, <3>1
  <2>3. CASE Leaps("live", b, j)
    <3>1. CASE proc["live"].pos = j /\ (Passes("live") \/ Skips("live"))
      <4>1. op = "down" /\ op \in WorldOps BY <1>6, <1>8, <2>3, <3>1 DEF WorldOps
      <4>2. CASE Passes("live")
        <5>1. Effects(op, Current("live")[2], w') BY <1>6, <2>3, <4>1, <4>2
        <5> QED BY <4>1, <5>1 DEF Effects
      <4>3. CASE Skips("live")
        <5>1. Skipped("live", Current("live")) \/ proc'["live"].ignored BY <4>3 DEF Skips, Ignores
        <5>2. CASE Skipped("live", Current("live"))
          <6>1. ~proc["live"].started BY <4>1, <5>2 DEF Skipped
          <6>2. w.collector # "up" BY <1>2, <6>1 DEF LiveNotes
          <6> QED BY <1>6, <2>3, <4>3, <6>2
        <5> QED BY <5>1, <5>2
      <4> QED BY <3>1, <4>2, <4>3
    <3>2. CASE proc["live"].pos \in 1 .. j /\ ~hurt' /\ (Backfires("live") \/ Refused("live"))
      <4>1. op \in {"down", "logs"}
        <5>1. CASE proc["live"].pos = j BY <1>6, <1>8, <2>3, <5>1
        <5>2. CASE proc["live"].pos # j
          <6>1. proc["live"].pos \in 1 .. j - 1 BY <3>2, <5>2
          <6> QED BY <1>6, <1>8, <2>3, <6>1
        <5> QED BY <5>1, <5>2
      <4>2. Ok("live", Current("live")) BY <4>1 DEF Ok, LiveOk
      <4> QED BY <1>6, <2>3, <3>2, <4>1, <4>2
    <3> QED BY <2>3, <3>1, <3>2 DEF Leaps
  <2> QED BY <2>1, <2>2, <2>3
<1> QED BY <1>7, <1>8

\* A driver and a suite that have ended and know of no failure leave nothing, and
\* so do those that failed when no answer was lost and no cleanup failed.
LEMMA CleanIf ==
  ASSUME Sound, SuiteNotes, LiveNotes, SuiteUndoing, LiveUndoing, Over, proc["live"].receipt # "open",
         Good("suite"), Good("live")
  PROVE  Clean
<1>0. /\ Types /\ Controlled /\ Excluded /\ Shaped(c) /\ UndoesAll(c) /\ {"live", "suite"} \subseteq Procs
  BY Formed DEF Sound, Procs
<1>1. Control1("live") /\ Control1("suite") /\ proc["suite"] \in Process /\ proc["live"] \in Process
  BY <1>0 DEF Controlled, Types
<1>2. proc["suite"].phase \in {"idle", "done"} BY <1>1 DEF Over, Running, Process
<1>3. proc["suite"].receipt \in {None, "passed", "failed"}
  BY <1>1, <1>2 DEF Process, Receipts, Control1, NewProc
<1>4. proc["live"].receipt \in {None, "passed", "failed"} BY <1>1 DEF Process, Receipts
<1>5. \A b, j : proc["suite"].receipt # None => Undone("suite", b, j) BY <1>3 DEF Undone
<1>6. \A b, j : proc["live"].receipt # None => Undone("live", b, j) BY <1>4 DEF Undone
<1>7. ASSUME NEW p \in Ps PROVE T.text[p] = "nop"
  <2>1. T.text \in [Ps -> {"nop", "call"}] BY <1>0 DEF Types, World, Tmm, T
  <2>2. SUFFICES ASSUME T.text[p] = "call" PROVE FALSE BY <2>1
  <2>3. p \in proc["suite"].armed BY <2>2 DEF SuiteNotes
  <2>4. proc["suite"].receipt # None BY <2>3 DEF SuiteNotes
  <2>5. PICK i \in 1 .. Len(c.suite.body) : c.suite.body[i] = <<"arm", p>> BY <2>3 DEF SuiteNotes, K
  <2>6. c.suite.body[i][1] = "arm" /\ c.suite.body[i][2] = p BY <2>5
  <2>7. PICK b \in 1 .. Len(c.suite.final) : c.suite.final[b][1] = <<"disarm", p>>
    BY <1>0, <2>6 DEF UndoesAll
  <2> QED BY <1>5, <2>2, <2>4, <2>7 DEF SuiteUndoing, K
<1>8. ASSUME NEW p \in Ps PROVE T.slot[p] = NoObject
  <2>1. SUFFICES ASSUME T.slot[p] # NoObject PROVE FALSE OBVIOUS
  <2>2. p \in proc["suite"].loaded BY <2>1 DEF SuiteNotes
  <2>3. proc["suite"].receipt # None BY <2>2 DEF SuiteNotes
  <2>4. PICK i0 \in 1 .. Len(c.suite.body) : c.suite.body[i0] = <<"load", p>> BY <2>2 DEF SuiteNotes, K
  <2>5. \A i \in 1 .. Len(c.suite.body) : c.suite.body[i] = <<"load", p>> =>
            \/ \E b \in 1 .. Len(c.suite.final) : c.suite.final[b][1] = <<"revoke", p>>
            \/ /\ \E b \in 1 .. Len(c.suite.final) :
                    /\ Len(c.suite.final[b]) > 1
                    /\ c.suite.final[b][1] = <<"disarm", p>> /\ c.suite.final[b][2] = <<"revoke", p>>
               /\ \A a \in 1 .. i - 1 : c.suite.body[a] = <<"arm", p>> =>
                    \E d \in a + 1 .. i - 1 : c.suite.body[d] = <<"disarm", p>>
    <3>1. SUFFICES ASSUME NEW i \in 1 .. Len(c.suite.body), c.suite.body[i] = <<"load", p>>
                   PROVE  \/ \E b \in 1 .. Len(c.suite.final) : c.suite.final[b][1] = <<"revoke", p>>
                          \/ /\ \E b \in 1 .. Len(c.suite.final) :
                                  /\ Len(c.suite.final[b]) > 1
                                  /\ c.suite.final[b][1] = <<"disarm", p>> /\ c.suite.final[b][2] = <<"revoke", p>>
                             /\ \A a \in 1 .. i - 1 : c.suite.body[a] = <<"arm", p>> =>
                                  \E d \in a + 1 .. i - 1 : c.suite.body[d] = <<"disarm", p>>
      OBVIOUS
    <3>2. c.suite.body[i][1] = "load" /\ c.suite.body[i][2] = p BY <3>1
    <3> QED BY <1>0, <3>2 DEF UndoesAll
  <2>6. CASE \E b \in 1 .. Len(c.suite.final) : c.suite.final[b][1] = <<"revoke", p>>
    BY <1>5, <2>1, <2>3, <2>6 DEF SuiteUndoing, K
  <2>7. CASE ~\E b \in 1 .. Len(c.suite.final) : c.suite.final[b][1] = <<"revoke", p>>
    <3>1. Apart(p) BY <2>5, <2>7 DEF Apart, K
    <3>2. PICK b \in 1 .. Len(c.suite.final) :
             /\ Len(c.suite.final[b]) > 1
             /\ c.suite.final[b][1] = <<"disarm", p>> /\ c.suite.final[b][2] = <<"revoke", p>>
      BY <2>4, <2>5, <2>7
    <3> QED BY <1>5, <2>1, <2>3, <3>1, <3>2 DEF SuiteUndoing, K
  <2> QED BY <2>6, <2>7
<1>9. w.collector # "up" \/ proc["live"].ignored
  <2>1. SUFFICES ASSUME w.collector = "up", ~proc["live"].ignored PROVE FALSE OBVIOUS
  <2>2. proc["live"].started BY <2>1 DEF LiveNotes
  <2>3. proc["live"].receipt # None /\ In(c.live.body, "up") BY <2>2 DEF LiveNotes, K
  <2>4. PICK i \in 1 .. Len(c.live.body) : c.live.body[i][1] = "up" BY <2>3 DEF In
  <2>5. PICK b \in 1 .. Len(c.live.final) : \E j \in 1 .. Len(c.live.final[b]) :
          c.live.final[b][j][1] = "down" /\ \A h \in 1 .. j - 1 : c.live.final[b][h][1] = "logs"
    BY <1>0, <2>4 DEF UndoesAll
  <2> QED BY <1>6, <2>1, <2>3, <2>5 DEF LiveUndoing, K
<1>10. w.monitors = {}
  <2>1. SUFFICES ASSUME NEW m \in w.monitors PROVE FALSE OBVIOUS
  <2>2. m \in proc["live"].watching BY DEF LiveNotes
  <2>3. proc["live"].receipt # None BY <2>2 DEF LiveNotes
  <2>4. PICK i \in 1 .. Len(c.live.body) : c.live.body[i] = <<"watch", m>> BY <2>2 DEF LiveNotes, K
  <2>5. c.live.body[i][1] = "watch" /\ c.live.body[i][2] = m BY <2>4
  <2>6. PICK b \in 1 .. Len(c.live.final) : c.live.final[b][1] = <<"unwatch", m>> BY <1>0, <2>5 DEF UndoesAll
  <2>7. c.live.final[b][1][1] = "unwatch" /\ c.live.final[b][1][2] = m BY <2>6
  <2> QED BY <1>6, <2>3, <2>6, <2>7 DEF LiveUndoing, K
<1>11. w.keys => proc["suite"].receipt = None
  <2>1. SUFFICES ASSUME w.keys, proc["suite"].receipt # None PROVE FALSE OBVIOUS
  <2>2. In(c.suite.prep, "keys") BY <2>1 DEF SuiteNotes, K
  <2>3. PICK b \in 1 .. Len(c.suite.final) : c.suite.final[b][1][1] = "erase" BY <1>0, <2>2 DEF UndoesAll
  <2> QED BY <1>5, <2>1, <2>3 DEF SuiteUndoing, K
<1> QED BY <1>7, <1>8, <1>9, <1>10, <1>11 DEF Clean

\* What makes a run leave nothing behind.
Tidy == Sound /\ Reporting /\ SuiteNotes /\ LiveNotes /\ Arming /\ Refusing /\ SuiteUndoing /\ LiveUndoing

LEMMA TidyInit ==
  ASSUME Init
  PROVE  Tidy
<1>1. proc["suite"] = NewProc /\ proc["live"] = NewProc BY DEF Init, Procs
<1>2. /\ T.text = [p \in Ps |-> "nop"] /\ T.slot = [p \in Ps |-> NoObject]
      /\ w.monitors = {} /\ w.collector = "absent" /\ ~w.keys /\ w.request = None
  BY DEF Init, NewTmm, T
<1>3. \A i : ~Did("live", i) BY <1>1 DEF Did, NewProc, None
<1>4. \A x \in {"live", "suite"} : \A b, j : ~Undone(x, b, j) BY <1>1 DEF Undone, NewProc, None
<1>5. SuiteNotes BY <1>1, <1>2 DEF SuiteNotes, NewProc
<1>6. LiveNotes BY <1>1, <1>2, <1>3 DEF LiveNotes, NewProc
<1>7. Arming /\ Refusing BY <1>1 DEF Arming, Refusing, NewProc
<1>8. SuiteUndoing BY <1>4 DEF SuiteUndoing
<1>9. LiveUndoing BY <1>4 DEF LiveUndoing
<1> QED BY <1>5, <1>6, <1>7, <1>8, <1>9, SoundInit, ReportingInit DEF Tidy

LEMMA TidyStep ==
  ASSUME Tidy, [Next]_vars
  PROVE  Tidy'
<1>1. Sound' /\ Reporting' BY SoundStep, ReportingStep DEF Tidy
<1>2. SuiteNotes' /\ LiveNotes' BY SuiteNotesStep, LiveNotesStep DEF Tidy
<1>3. Arming' /\ Refusing' BY ArmingStep, RefusingStep DEF Tidy
<1>4. SuiteUndoing' /\ LiveUndoing' BY SuiteUndoingStep, LiveUndoingStep DEF Tidy
<1> QED BY <1>1, <1>2, <1>3, <1>4 DEF Tidy

LEMMA PassedClean ==
  ASSUME Tidy
  PROVE  PassedIsClean
<1>1. SUFFICES ASSUME Over, proc["live"].receipt = "passed" PROVE Clean BY DEF PassedIsClean
<1>2. Types /\ Controlled /\ {"live", "suite"} \subseteq Procs BY DEF Tidy, Sound, Procs
<1>3. Control1("live") /\ Control1("suite") BY <1>2 DEF Controlled
<1>4. c.live.body # << >>
  <2>1. proc["live"].phase # "idle" BY <1>1 DEF Over
  <2> QED BY <1>3, <2>1 DEF Control1, K
<1>5. In(c.live.body, "suite") BY <1>2, <1>4, Formed DEF UndoesAll
<1>6. PICK i \in 1 .. Len(c.live.body) : c.live.body[i][1] = "suite" BY <1>5 DEF In
<1>7. Did("live", i) BY <1>1, <1>6 DEF Did, K
<1>8. proc["suite"].receipt = "passed" BY <1>6, <1>7 DEF Tidy, Reporting, K
<1>9. Good("live") /\ Good("suite") BY <1>1, <1>3, <1>8 DEF Control1, Good
<1> QED BY <1>1, <1>9, CleanIf DEF Tidy

\* A driver's receipt says passed only if the hooks are restored, the slots
\* revoked, the monitors ended and the collector stopped, except a collector whose
\* refused stop the container driver does not look at.
THEOREM RunsClean == Spec => []PassedIsClean
BY TidyInit, TidyStep, PassedClean, PTL DEF Spec

\* Whatever step of a driver or of its suite is refused, nothing stays behind,
\* unless an answer was lost or the cleanup failed: each cleanup block begins with
\* what it must undo, and what could be there is noted.  A refused stop that the
\* container driver does not look at leaves the collector, and nothing else.
THEOREM NothingLeft == Spec => []NothingLeftBehind
<1>1. Tidy => NothingLeftBehind
  <2>1. SUFFICES ASSUME Tidy, Over, proc["live"].receipt # "open", ~Clean
                 PROVE  hurt /\ proc["live"].receipt = "failed"
    BY DEF NothingLeftBehind
  <2>2. proc["live"].receipt # "passed" BY <2>1, PassedClean DEF PassedIsClean
  <2>3. ~(Good("live") /\ Good("suite")) BY <2>1, CleanIf DEF Tidy
  <2>4. hurt BY <2>3 DEF Good
  <2>5. Types /\ Controlled /\ Excluded /\ {"live", "suite"} \subseteq Procs BY <2>1 DEF Tidy, Sound, Procs
  <2>6. Control1("live") /\ Control1("suite") /\ proc["live"] \in Process BY <2>5 DEF Controlled, Types
  <2>7. proc["live"].receipt # None
    <3>1. SUFFICES ASSUME proc["live"].receipt = None PROVE FALSE OBVIOUS
    <3>2. proc["suite"].phase = "idle" BY <2>5, <3>1 DEF Excluded
    <3>3. Good("suite") BY <2>6, <3>2 DEF Control1, NewProc, Good
    <3>4. Good("live") BY <2>1, <2>6, <3>1 DEF Control1, Over, Good
    <3> QED BY <2>3, <3>3, <3>4
  <2>8. proc["live"].receipt \in {None, "open", "passed", "failed"} BY <2>6 DEF Process, Receipts
  <2> QED BY <2>1, <2>2, <2>4, <2>7, <2>8
<1> QED BY <1>1, TidyInit, TidyStep, PTL DEF Spec

-----------------------------------------------------------------------------
(* What a suite receives.                                                  *)

Hushed == \A p \in Ps : T.text[p] = "nop"

\* What changes the counts of a suite that is past its step t.
LEMMA SuiteReads ==
  ASSUME Sound, [Next]_vars, NEW t \in Nat, Did("suite", t), Did("suite", t)'
  PROVE  \/ /\ KeepsCounts
            /\ \/ Restarts
               \/ w'.tmm.tmm = T.tmm /\ (Hushed => Hushed' /\ w'.tmm.fired = T.fired)
         \/ \E k \in 1 .. Len(c.suite.body) :
              /\ t < k /\ Did("suite", k)' /\ Gains("suite", k)
              /\ LeavesAlone(c.suite.body[k][1], w')
              /\ Effects(c.suite.body[k][1], c.suite.body[k][2], w')
<1>0. /\ Types /\ Controlled /\ Excluded /\ Moves /\ WorldMoves /\ Ps' = Ps /\ "suite" \in Procs
  BY NextAt DEF Sound, Procs
<1>1. CASE w' = w BY <1>0, <1>1 DEF KeepsCounts, T, Hushed
<1>2. CASE Switches BY <1>0, <1>2 DEF Switches, T, Hushed
<1>3. CASE Flows BY <1>0, <1>3 DEF Flows, T, Hushed
<1>4. CASE Restarts BY <1>4 DEF Restarts
<1>5. ASSUME NEW x \in Procs, Affects(x), x # "suite"
      PROVE  KeepsCounts /\ w'.tmm.tmm = T.tmm /\ (Hushed => Hushed' /\ w'.tmm.fired = T.fired)
  <2>1. Current(x)[1] \notin SuiteOps BY <1>5, HomeOfOps DEF Affects
  <2>2. LeavesAlone(Current(x)[1], w') BY <1>5 DEF Affects
  <2>3. KeepsCounts /\ w'.tmm.tmm = T.tmm /\ w'.tmm.fired = T.fired /\ w'.tmm.text = T.text
    BY <2>1, <2>2 DEF LeavesAlone, SuiteOps, KeepsCounts, T
  <2> QED BY <1>0, <2>3 DEF Hushed, T
<1>6. CASE Affects("suite")
  <2> DEFINE s == Current("suite")
  <2>1. /\ StepOf("suite") /\ Running("suite") /\ (Passes("suite") \/ Backfires("suite"))
        /\ LeavesAlone(s[1], w') /\ Effects(s[1], s[2], w') /\ <<"suite", proc["suite"].phase>> \in Home(s[1])
    BY <1>6 DEF Affects, StepOf
  <2>2. Control1("suite") BY <1>0 DEF Controlled
  <2>3. proc["suite"].phase # "prep" BY <2>2 DEF Did, Control1, None
  <2>4. CASE proc["suite"].phase = "body"
    <3>1. ~Backfires("suite")
      <4>1. SUFFICES ASSUME Raise("suite") PROVE FALSE BY DEF Backfires
      <4>2. proc["suite"].receipt # "passed" BY <2>2, <2>4 DEF Control1, Held, None
      <4> QED BY <2>4, <4>1, <4>2 DEF Raise, Did
    <3>2. PICK k \in 1 .. Len(c["suite"].body) :
            /\ k = proc["suite"].pos /\ Did("suite", k)' /\ s = c["suite"].body[k]
            /\ \A j \in Nat : Did("suite", j) => j < k
      BY <1>0, <2>1, <2>4, <3>1, GainsDid
    <3>3. Gains("suite", k) BY <2>1, <2>4, <3>1, <3>2 DEF Gains
    <3> QED BY <2>1, <3>2, <3>3
  <2>5. CASE proc["suite"].phase = "final"
    <3>1. s[1] \notin {"load", "arm", "counts", "traffic", "mark", "target", "drain", "discard", "cursor",
                       "pages", "ask"}
      BY <2>1, <2>5, HomeOfOps
    <3>2. KeepsCounts /\ w'.tmm.tmm = T.tmm /\ w'.tmm.fired = T.fired
      BY <2>1, <3>1 DEF LeavesAlone, KeepsCounts, T
    <3>3. Hushed => Hushed'
      <4>1. CASE s[1] = "disarm" BY <1>0, <2>1, <4>1 DEF Effects, Hushed, T
      <4>2. CASE s[1] # "disarm"
        <5>1. w'.tmm.text = T.text BY <2>1, <3>1, <4>2 DEF LeavesAlone, T
        <5> QED BY <1>0, <5>1 DEF Hushed, T
      <4> QED BY <4>1, <4>2
    <3> QED BY <3>2, <3>3
  <2> QED BY <2>1, <2>3, <2>4, <2>5 DEF Running
<1> QED BY <1>0, <1>1, <1>2, <1>3, <1>4, <1>5, <1>6 DEF WorldMoves

\* No hook calls a program when the suite comes to a step behind its last disarm.
LEMMA HushedAt ==
  ASSUME Sound, SuiteNotes, Arming, NEW t \in 1 .. Len(c.suite.body), Restored(t),
         proc["suite"].phase = "body", proc["suite"].pos = t
  PROVE  Hushed
<1>0. Types /\ Controlled /\ "suite" \in Procs BY DEF Sound, Procs
<1>1. SUFFICES ASSUME NEW p \in Ps, T.text[p] # "nop" PROVE FALSE BY DEF Hushed
<1>2. T.text[p] = "call"
  <2>1. T.text \in [Ps -> {"nop", "call"}] BY <1>0 DEF Types, World, Tmm, T
  <2> QED BY <1>1, <2>1
<1>3. Control1("suite") BY <1>0 DEF Controlled
<1>4. Good("suite") BY <1>3 DEF Control1, Good
<1>5. p \in proc["suite"].armed BY <1>2, <1>4 DEF SuiteNotes
<1>6. PICK a \in 1 .. t - 1 : ArmedAt(p, a) BY <1>5 DEF Arming
<1>7. a \in 1 .. Len(c.suite.body) /\ t \in Nat /\ a \in Nat
  <2>1. c["suite"].body \in Seq(STRING \X STRING) BY <1>0, Formed, Parts
  <2>2. Len(c.suite.body) \in Nat BY <2>1
  <2>3. t \in Nat /\ t <= Len(c.suite.body) BY <2>2
  <2> QED BY <1>6, <2>2, <2>3
<1>8. c.suite.body[a] = <<"arm", p>> BY <1>6 DEF ArmedAt, K
<1>9. PICK d \in a + 1 .. Len(c.suite.body) : c.suite.body[d] = <<"disarm", p>>
  <2>1. c.suite.body[a][1] = "arm" /\ c.suite.body[a][2] = p BY <1>8
  <2> QED BY <1>7, <2>1 DEF Restored, K
<1>10. c.suite.body[d][1] = "disarm" /\ d \in Nat BY <1>7, <1>9
<1>11. d \notin t .. Len(c.suite.body) BY <1>10 DEF Restored, K
<1>12. d \in a + 1 .. t - 1 BY <1>7, <1>9, <1>10, <1>11
<1> QED BY <1>6, <1>9, <1>12 DEF ArmedAt, K

\* Nothing is armed behind such a step.
LEMMA NoArmBehind ==
  ASSUME Types, NEW t \in 1 .. Len(c.suite.body), Restored(t), NEW k \in t .. Len(c.suite.body)
  PROVE  c.suite.body[k][1] # "arm"
<1>1. SUFFICES ASSUME c.suite.body[k][1] = "arm" PROVE FALSE OBVIOUS
<1>0. c["suite"].body \in Seq(STRING \X STRING) BY Formed, Parts DEF Procs
<1>2. Len(c.suite.body) \in Nat /\ t \in Nat /\ k \in Nat /\ k \in 1 .. Len(c.suite.body) /\ t <= k
  <2>1. Len(c.suite.body) \in Nat BY <1>0
  <2>2. t \in Nat /\ 1 <= t BY <2>1
  <2> QED BY <2>1, <2>2
<1>3. PICK d \in k + 1 .. Len(c.suite.body) : c.suite.body[d] = <<"disarm", c.suite.body[k][2]>>
  BY <1>1, <1>2 DEF Restored, K
<1>4. d \in t .. Len(c.suite.body) /\ c.suite.body[d][1] = "disarm" BY <1>2, <1>3
<1> QED BY <1>4 DEF Restored, K

LEMMA ReceivingStep ==
  ASSUME Sound, SuiteNotes, Arming, Receiving, [Next]_vars
  PROVE  Receiving'
<1>0. /\ Types /\ Controlled /\ Excluded /\ Types' /\ Controlled' /\ Moves /\ WorldMoves /\ c' = c /\ Ps' = Ps
      /\ "suite" \in Procs /\ w \in World /\ w' \in World
  BY NextAt DEF Sound, Procs, WorldMoves, Types
<1>r. \A t : Restored(t)' = Restored(t) BY <1>0 DEF Restored, K
<1>1. SUFFICES ASSUME NEW t \in 1 .. Len(c.suite.body), Did("suite", t)'
               PROVE  LET op == c.suite.body[t][1] IN
                      /\ op \in {"exact", "pages"} /\ Unread(t, {"counts", "drain", "target"})' => w'.got = w'.target
                      /\ Restored(t) => Hushed'
                      /\ op = "target" /\ Restored(t) /\ Unread(t, {"counts", "target"})' /\ w'.tmm.tmm = 1 =>
                           \A p \in Ps : w'.target[p] = w'.tmm.fired[p] - w'.base[p]
                      /\ op = "compare" /\ Restored(t) /\ Unread(t, {"counts", "drain", "pages"})' =>
                           w'.got = w'.sent
  BY <1>0, <1>r DEF Receiving, Hushed, K, T
<1> DEFINE op == c.suite.body[t][1]
<1>2. /\ \A j \in Nat : Did("suite", j) => Did("suite", j)'
      /\ Did("suite", t) \/ Gains("suite", t)
  BY <1>0, <1>1, DidMoves
<1>n. t \in Nat BY <1>1
<1>u. \A ops : Unread(t, ops)' => Unread(t, ops)
  <2>1. \A j \in t + 1 .. Len(c.suite.body) : j \in Nat BY <1>n
  <2> QED BY <1>0, <1>2, <2>1 DEF Unread, K
<1>k. \A ops : \A k \in 1 .. Len(c.suite.body) :
        Unread(t, ops)' /\ t < k /\ Did("suite", k)' => c.suite.body[k][1] \notin ops
  <2>1. \A k \in 1 .. Len(c.suite.body) : t < k => k \in t + 1 .. Len(c.suite.body) BY <1>n
  <2> QED BY <1>0, <2>1 DEF Unread, K
<1>z. w.tmm.tmm \in Nat \ {0} BY <1>0 DEF World, Tmm
<1>3. CASE Gains("suite", t)
  <2>1. /\ Running("suite") /\ Takes(Current("suite")) /\ Current("suite") = c.suite.body[t]
        /\ proc["suite"].phase = "body" /\ proc["suite"].pos = t
        /\ SuiteOk(op, c.suite.body[t][2])
    BY <1>3 DEF Gains, Passes, Ok
  <2>2. /\ op \in WorldOps => LeavesAlone(op, w') /\ Effects(op, c.suite.body[t][2], w')
        /\ op \notin WorldOps => w' = w
    BY <1>0, <2>1, TakesShape
  <2>3. op \in {"exact", "pages"} => w'.got = w'.target
    <3>1. CASE op = "exact" BY <2>1, <2>2, <3>1 DEF SuiteOk, Exact, WorldOps
    <3>2. CASE op = "pages"
      <4>1. LeavesAlone("pages", w') /\ Effects("pages", c.suite.body[t][2], w') BY <2>2, <3>2 DEF WorldOps
      <4>2. w.journal = w.target BY <2>1, <3>2 DEF SuiteOk, CaughtUp
      <4>3. w'.got = w.journal /\ w'.target = w.target BY <4>1 DEF LeavesAlone, Effects
      <4> QED BY <4>2, <4>3
    <3> QED BY <3>1, <3>2
  <2>4. Restored(t) => Hushed'
    <3>1. SUFFICES ASSUME Restored(t) PROVE Hushed' OBVIOUS
    <3>2. Hushed BY <2>1, <3>1, HushedAt
    <3>3. op # "arm"
      <4>1. c["suite"].body \in Seq(STRING \X STRING) BY <1>0, Formed, Parts
      <4>2. t \in t .. Len(c.suite.body) BY <4>1
      <4> QED BY <1>0, <3>1, <4>2, NoArmBehind
    <3>4. op # "disarm"
      <4>1. c["suite"].body \in Seq(STRING \X STRING) BY <1>0, Formed, Parts
      <4>2. t \in t .. Len(c.suite.body) BY <4>1
      <4> QED BY <3>1, <4>2 DEF Restored, K
    <3>5. w'.tmm.text = T.text BY <2>2, <3>3, <3>4 DEF LeavesAlone, T
    <3> QED BY <1>0, <3>2, <3>5 DEF Hushed, T
  <2>5. op = "target" => \A p \in Ps : w'.target[p] = w'.tmm.fired[p] - w'.base[p]
    <3>1. SUFFICES ASSUME op = "target" PROVE \A p \in Ps : w'.target[p] = w'.tmm.fired[p] - w'.base[p]
      OBVIOUS
    <3>2. LeavesAlone("target", w') /\ Effects("target", c.suite.body[t][2], w') BY <2>2, <3>1 DEF WorldOps
    <3>3. w'.tmm.fired = w.tmm.fired /\ w'.base = w.base BY <3>2 DEF LeavesAlone
    <3>4. w'.target = [q \in Ps |-> w.tmm.fired[q] - w.base[q]] BY <3>2 DEF Effects
    <3> QED BY <3>3, <3>4
  <2>6. op = "compare" => w'.got = w'.sent BY <2>1, <2>2 DEF SuiteOk, WorldOps
  <2> QED BY <2>3, <2>4, <2>5, <2>6
<1>4. CASE Did("suite", t)
  <2>1. /\ op \in {"exact", "pages"} /\ Unread(t, {"counts", "drain", "target"}) => w.got = w.target
        /\ Restored(t) => Hushed
        /\ op = "target" /\ Restored(t) /\ Unread(t, {"counts", "target"}) /\ w.tmm.tmm = 1 =>
             \A p \in Ps : w.target[p] = w.tmm.fired[p] - w.base[p]
        /\ op = "compare" /\ Restored(t) /\ Unread(t, {"counts", "drain", "pages"}) => w.got = w.sent
    BY <1>4 DEF Receiving, Hushed, K, T
  <2>2. CASE KeepsCounts /\ Restarts
    <3>1. Hushed' BY <1>0, <2>2 DEF Restarts, Hushed, T
    <3>2. w'.tmm.tmm # 1 BY <1>z, <2>2 DEF Restarts
    <3> QED BY <1>u, <2>1, <2>2, <3>1, <3>2 DEF KeepsCounts
  <2>3. CASE KeepsCounts /\ w'.tmm.tmm = T.tmm /\ (Hushed => Hushed' /\ w'.tmm.fired = T.fired)
    BY <1>u, <2>1, <2>3 DEF KeepsCounts, T
  <2>4. CASE \E k \in 1 .. Len(c.suite.body) :
              /\ t < k /\ Did("suite", k)' /\ Gains("suite", k)
              /\ LeavesAlone(c.suite.body[k][1], w')
              /\ Effects(c.suite.body[k][1], c.suite.body[k][2], w')
    <3>1. PICK k \in 1 .. Len(c.suite.body) :
              /\ t < k /\ Did("suite", k)' /\ Gains("suite", k)
              /\ LeavesAlone(c.suite.body[k][1], w')
              /\ Effects(c.suite.body[k][1], c.suite.body[k][2], w')
      BY <2>4
    <3> DEFINE ok == c.suite.body[k][1]
    <3>2. SuiteOk(ok, c.suite.body[k][2]) BY <3>1 DEF Gains, Passes, Ok
    <3>3. ASSUME op \in {"exact", "pages"}, Unread(t, {"counts", "drain", "target"})'
          PROVE  w'.got = w'.target
      <4>1. w.got = w.target BY <1>u, <2>1, <3>3
      <4>2. ok \notin {"counts", "drain", "target"} BY <1>k, <3>1, <3>3
      <4>3. w'.target = w.target BY <3>1, <4>2 DEF LeavesAlone
      <4>4. CASE ok = "pages"
        <5>1. w.journal = w.target BY <3>2, <4>4 DEF SuiteOk, CaughtUp
        <5>2. w'.got = w.journal BY <3>1, <4>4 DEF Effects
        <5> QED BY <4>3, <5>1, <5>2
      <4>5. CASE ok # "pages"
        <5>1. w'.got = w.got BY <3>1, <4>2, <4>5 DEF LeavesAlone
        <5> QED BY <4>1, <4>3, <5>1
      <4> QED BY <4>4, <4>5
    <3>4. Restored(t) => Hushed' /\ w'.tmm.fired = T.fired /\ (ok # "counts" => w'.sent = w.sent)
      <4>1. SUFFICES ASSUME Restored(t)
                     PROVE  Hushed' /\ w'.tmm.fired = T.fired /\ (ok # "counts" => w'.sent = w.sent)
        OBVIOUS
      <4>2. Hushed BY <2>1, <4>1
      <4>3. k \in t .. Len(c.suite.body) BY <1>n, <3>1
      <4>4. ok # "arm" /\ ok # "disarm" BY <1>0, <4>1, <4>3, NoArmBehind DEF Restored, K
      <4>5. w'.tmm.text = T.text BY <3>1, <4>4 DEF LeavesAlone, T
      <4>6. Hushed' BY <1>0, <4>2, <4>5 DEF Hushed, T
      <4>7. CASE ok = "traffic" BY <3>1, <4>2, <4>6, <4>7 DEF Effects, Hushed, T
      <4>8. CASE ok # "traffic" BY <3>1, <4>6, <4>8 DEF LeavesAlone, T
      <4> QED BY <4>7, <4>8
    <3>5. ASSUME op = "target", Restored(t), Unread(t, {"counts", "target"})', w'.tmm.tmm = 1
          PROVE  \A p \in Ps : w'.target[p] = w'.tmm.fired[p] - w'.base[p]
      <4>1. ok \notin {"counts", "target"} BY <1>k, <3>1, <3>5
      <4>2. w'.target = w.target /\ w'.base = w.base /\ w'.tmm.tmm = w.tmm.tmm BY <3>1, <4>1 DEF LeavesAlone
      <4>3. \A p \in Ps : w.target[p] = w.tmm.fired[p] - w.base[p] BY <1>u, <2>1, <3>5, <4>2
      <4> QED BY <3>4, <3>5, <4>2, <4>3 DEF T
    <3>6. ASSUME op = "compare", Restored(t), Unread(t, {"counts", "drain", "pages"})'
          PROVE  w'.got = w'.sent
      <4>1. ok \notin {"counts", "drain", "pages"} BY <1>k, <3>1, <3>6
      <4>2. w'.got = w.got /\ w'.sent = w.sent BY <3>1, <3>4, <3>6, <4>1 DEF LeavesAlone
      <4>3. w.got = w.sent BY <1>u, <2>1, <3>6
      <4> QED BY <4>2, <4>3
    <3> QED BY <3>3, <3>4, <3>5, <3>6
  <2> QED BY <1>1, <1>n, <1>4, <2>2, <2>3, <2>4, SuiteReads
<1> QED BY <1>2, <1>3, <1>4

\* A suite that passed has compared all that it was to compare.
LEMMA PassedComplete ==
  ASSUME Sound, Receiving
  PROVE  PassedIsComplete
<1>1. SUFFICES ASSUME proc["suite"].receipt = "passed", T.tmm = 1
               PROVE  /\ w.got = w.target
                      /\ Follows(c.suite.body, "disarm", "target") =>
                           \A p \in Ps : w.target[p] = T.fired[p] - w.base[p]
                      /\ Follows(c.suite.body, "disarm", "compare") => w.got = w.sent
  BY DEF PassedIsComplete, Before, K
<1>2. Types /\ Controlled /\ "suite" \in Procs BY DEF Sound, Procs
<1>3. Control1("suite") BY <1>2 DEF Controlled
<1>4. c.suite.body # << >> BY <1>1, <1>3 DEF Control1, NewProc, None, K
<1>5. ReceivesAll(c) BY <1>2, Formed
<1>6. \A t \in 1 .. Len(c.suite.body) : Did("suite", t) BY <1>1 DEF Did, K
<1>7. w.got = w.target
  <2>1. PICK i \in 1 .. Len(c.suite.body) :
          /\ c.suite.body[i][1] \in {"exact", "pages"}
          /\ \A j \in i + 1 .. Len(c.suite.body) : c.suite.body[j][1] \notin {"counts", "drain", "target"}
    BY <1>4, <1>5 DEF ReceivesAll
  <2>2. Unread(i, {"counts", "drain", "target"}) BY <2>1 DEF Unread, K
  <2> QED BY <1>6, <2>1, <2>2 DEF Receiving, K
<1>8. ASSUME NEW op \in {"target", "compare"}, NEW news,
             news = IF op = "target" THEN {"counts", "target"} ELSE {"counts", "drain", "pages"},
             Follows(c.suite.body, "disarm", op)
      PROVE  \E j \in 1 .. Len(c.suite.body) :
               c.suite.body[j][1] = op /\ Restored(j) /\ Unread(j, news)
  <2>1. /\ \A a \in 1 .. Len(c.suite.body) : c.suite.body[a][1] = "arm" =>
             \E d \in a + 1 .. Len(c.suite.body) : c.suite.body[d] = <<"disarm", c.suite.body[a][2]>>
        /\ \E j \in 1 .. Len(c.suite.body) :
             /\ c.suite.body[j][1] = op /\ \A i \in j .. Len(c.suite.body) : c.suite.body[i][1] # "disarm"
             /\ \A i \in j + 1 .. Len(c.suite.body) : c.suite.body[i][1] \notin news
    BY <1>5, <1>8 DEF ReceivesAll
  <2> QED BY <2>1 DEF Restored, Unread, K
<1>9. Follows(c.suite.body, "disarm", "target") => \A p \in Ps : w.target[p] = T.fired[p] - w.base[p]
  <2>1. SUFFICES ASSUME Follows(c.suite.body, "disarm", "target")
                 PROVE  \A p \in Ps : w.target[p] = T.fired[p] - w.base[p]
    OBVIOUS
  <2>2. PICK j \in 1 .. Len(c.suite.body) :
          c.suite.body[j][1] = "target" /\ Restored(j) /\ Unread(j, {"counts", "target"})
    BY <1>8, <2>1
  <2> QED BY <1>1, <1>6, <2>2 DEF Receiving, K
<1>10. Follows(c.suite.body, "disarm", "compare") => w.got = w.sent
  <2>1. SUFFICES ASSUME Follows(c.suite.body, "disarm", "compare") PROVE w.got = w.sent OBVIOUS
  <2>2. PICK j \in 1 .. Len(c.suite.body) :
          c.suite.body[j][1] = "compare" /\ Restored(j) /\ Unread(j, {"counts", "drain", "pages"})
    BY <1>8, <2>1
  <2> QED BY <1>6, <2>2 DEF Receiving, K
<1> QED BY <1>7, <1>9, <1>10

\* An archive that was accepted tells of such a suite.
LEMMA VerifiedComplete ==
  ASSUME Sound, Reporting, Verifying, PassedIsComplete
  PROVE  VerifiedIsComplete
<1>1. SUFFICES ASSUME proc["verify"].receipt = "passed", c.live.body # << >>, T.tmm = 1, NEW p \in Ps
               PROVE  saved.got[p] = T.fired[p] - w.base[p] /\ saved.got[p] = w.sent[p]
  BY DEF VerifiedIsComplete, K
<1>2. Types /\ Controlled /\ {"verify", "suite"} \subseteq Procs BY DEF Sound, Procs
<1>3. Control1("verify") BY <1>2 DEF Controlled
<1>4. c.verify.body # << >> BY <1>1, <1>3 DEF Control1, NewProc, None, K
<1>5. /\ In(c.verify.body, "result") /\ In(c.verify.body, "events") /\ Follows(c.suite.body, "disarm", "target")
  BY <1>1, <1>2, <1>4, Formed DEF ReceivesAll
<1>6. saved.result = "passed" /\ EventsOk BY <1>1, <1>2, <1>5, VerifyDid
<1>7. /\ proc["suite"].receipt = "passed" /\ saved.got = w.got /\ saved.sent = w.sent /\ saved.target = w.target
  BY <1>6 DEF Reporting
<1>8. ~Running("suite") BY <1>2, <1>7, SettledDone
<1>9. w.target[p] = T.fired[p] - w.base[p] BY <1>1, <1>5, <1>7, <1>8 DEF PassedIsComplete, Before, K
<1> QED BY <1>6, <1>7, <1>9 DEF EventsOk

\* What makes a result complete.
Complete == Sound /\ Reporting /\ SuiteNotes /\ Arming /\ Receiving /\ Verifying

LEMMA CompleteInvariant ==
  ASSUME TRUE
  PROVE  (Init => Complete) /\ (Complete /\ [Next]_vars => Complete')
<1>1. ASSUME Init PROVE Complete
  <2>1. Sound /\ Reporting /\ SuiteNotes /\ Arming BY <1>1, TidyInit DEF Tidy
  <2>2. proc["suite"] = NewProc /\ proc["verify"] = NewProc BY <1>1 DEF Init, Procs
  <2>3. \A i : ~Did("suite", i) /\ ~Did("verify", i) BY <2>2 DEF Did, NewProc, None
  <2>4. Receiving BY <2>3 DEF Receiving
  <2>5. Verifying BY <2>3 DEF Verifying
  <2> QED BY <2>1, <2>4, <2>5 DEF Complete
<1>2. ASSUME Complete, [Next]_vars PROVE Complete'
  BY <1>2, SoundStep, ReportingStep, SuiteNotesStep, ArmingStep, ReceivingStep, VerifyingStep DEF Complete
<1> QED BY <1>1, <1>2

\* A suite's result says passed only if every run of every program up to its
\* reading of the counters was received, none twice, and what it compares behind
\* its last disarm can no longer change.
THEOREM ResultsComplete == Spec => []PassedIsComplete
<1>1. Complete => PassedIsComplete BY PassedComplete DEF Complete
<1> QED BY <1>1, CompleteInvariant, PTL DEF Spec

\* An accepted archive holds exactly the runs TMM made, and all of them are
\* answers to the suite's own requests.
THEOREM ArchivesComplete == Spec => []VerifiedIsComplete
<1>1. Complete => VerifiedIsComplete BY PassedComplete, VerifiedComplete DEF Complete
<1> QED BY <1>1, CompleteInvariant, PTL DEF Spec
=============================================================================
