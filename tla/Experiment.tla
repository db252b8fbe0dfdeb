----------------------------- MODULE Experiment -----------------------------
(***************************************************************************)
(* An experiment of env/ai-traffic: an isolated fixture is created, a      *)
(* build makes and signs programs, a live driver runs a suite against the  *)
(* fixture's TMM, the evidence is archived and the fixture removed, and a  *)
(* verifier checks the archive.                                            *)
(*                                                                         *)
(* Each of these programs is a script: steps before its receipt is         *)
(* reserved, a guarded body, and cleanup blocks in which a failure skips   *)
(* the rest of its own block only, which is what try/except/finally does   *)
(* in the code.  The scripts are data (module ExperimentScripts); here is  *)
(* what a step does to TMM, the collector, the files and the process's own *)
(* notes, and what can go wrong: a command is refused, or it takes effect  *)
(* and its answer is lost; a driver stops waiting for a suite that goes on *)
(* running; TMM restarts, traffic of others passes, a record is dropped, a *)
(* source file is edited.                                                  *)
(***************************************************************************)
EXTENDS Integers, Sequences, FiniteSets

CONSTANTS
  Campaigns,   \* the experiments: name -> record of four scripts
  EventMax     \* bound: faults and interferences in one behaviour

Procs == {"create", "build", "live", "suite", "cleanup", "reset", "verify"}

-----------------------------------------------------------------------------
(* What the scripts of every experiment keep to.                           *)

\* Steps are pairs of an operation and what it is about.
Scripts == LET S == Seq(STRING \X STRING) IN [prep : S, body : S, final : Seq(S)]

In(s, op) == \E i \in 1 .. Len(s) : s[i][1] = op

\* All a come before some b.
Follows(s, a, b) ==
  In(s, a) /\ \E j \in 1 .. Len(s) : s[j][1] = b /\ \A i \in 1 .. Len(s) : s[i][1] = a => i < j

\* The part of the program in which an operation is used.
Home(op) ==
  CASE op \in {"load", "arm", "counts", "traffic", "mark", "target", "drain", "discard", "cursor",
               "pages", "ask"}             -> {<<"suite", "body">>}
    [] op \in {"disarm", "revoke"}         -> {<<"suite", "body">>, <<"suite", "final">>}
    [] op = "keys"                         -> {<<"suite", "prep">>}
    [] op = "erase"                        -> {<<"suite", "final">>}
    [] op \in {"watch", "up", "suite", "before"} -> {<<"live", "body">>}
    [] op \in {"unwatch", "down", "files"} -> {<<"live", "final">>}
    [] op \in {"manifest", "remove"}       -> {<<"cleanup", "body">>, <<"reset", "body">>}
    [] op = "make"                         -> {<<"create", "body">>}
    [] op = "reserve"                      -> Procs \X {"prep"}
    [] op \in {"compile", "import", "transform", "sign", "digest"} -> {<<"build", "body">>}
    [] op \in {"sources", "prevail", "native"} -> Procs \X {"body"}
    [] OTHER                               -> Procs \X {"prep", "body", "final"}

\* A receipt is reserved last, before what it will tell of, and a part that is
\* entered has steps.
Shaped(k) ==
  \A x \in Procs :
    /\ k[x] \in Scripts
    /\ \A i \in 1 .. Len(k[x].prep) :
         /\ <<x, "prep">> \in Home(k[x].prep[i][1])
         /\ k[x].prep[i][1] = "reserve" <=> i = Len(k[x].prep)
    /\ \A i \in 1 .. Len(k[x].body) : <<x, "body">> \in Home(k[x].body[i][1])
    /\ \A b \in 1 .. Len(k[x].final) :
         /\ k[x].final[b] # << >>
         /\ \A i \in 1 .. Len(k[x].final[b]) : <<x, "final">> \in Home(k[x].final[b][i][1])
    /\ k[x].prep # << >> => k[x].body # << >>
    /\ k[x].body # << >> => k[x].prep # << >> \/ x = "verify"

\* A build has steps.  A program that is signed, or taken over with its signature,
\* is signed, verified, run and digested after its last change, where it is at all.
Changes(p) == {<<"compile", p>>, <<"transform", p>>, <<"import", p>>}
MadeLast(s, ops, p) ==
  \E i \in 1 .. Len(s) : /\ s[i] \in ops \X {p}
                         /\ \A j \in i + 1 .. Len(s) : s[j] \notin Changes(p)
SignsLast(k) ==
  /\ k.build.body # << >>
  /\ \A p \in k.programs :
       (\E i \in 1 .. Len(k.build.body) : k.build.body[i] \in {"sign", "import"} \X {p}) =>
         /\ MadeLast(k.build.body, {"sign", "import"}, p)
         /\ \A op \in {"prevail", "native", "digest"} :
              (\E i \in 1 .. Len(k.build.body) : k.build.body[i] = <<op, p>>) =>
                MadeLast(k.build.body, {op}, p)

\* A verifier that looks at the sources looks at the receipt of the build, which
\* digested them before it compiled every program.
DigestsFirst(k) ==
  In(k.verify.body, "sources") =>
    /\ In(k.verify.body, "receipts") \/ In(k.verify.body, "build")
    /\ \A p \in k.programs :
         /\ \E j \in 1 .. Len(k.build.body) : k.build.body[j] = <<"compile", p>>
         /\ \A j \in 1 .. Len(k.build.body) :
              /\ k.build.body[j] # <<"import", p>>
              /\ k.build.body[j] = <<"compile", p>> =>
                   \A i \in j .. Len(k.build.body) : k.build.body[i][1] # "sources"

\* The fixture is removed after it is known that no suite runs, and after that
\* the hooks are looked at and the evidence listed.  A driver looks at the fixture,
\* and if it has to be found out whether there was one, starts the collector
\* before the suite.
KeepsFirst(k) ==
  /\ \A x \in {"cleanup", "reset"} : \A i \in 1 .. Len(k[x].body) :
       /\ k[x].body[i][1] = "remove" =>
            \E e \in 1 .. i - 1 :
              /\ k[x].body[e][1] \in {"passed run", "result", "created"}
              /\ \E m \in e + 1 .. i - 1 : k[x].body[m][1] = "manifest"
              /\ \/ \E d \in e + 1 .. i - 1 : k[x].body[d][1] = "disarmed"
                 \/ \A p \in k.programs :
                      \E d \in e + 1 .. i - 1 : k[x].body[d] = <<"untouched", p>>
       /\ k[x].body[i][1] = "passed run" => In(k.live.body, "suite")
  /\ \A i \in 1 .. Len(k.live.body) : k.live.body[i][1] = "suite" =>
       /\ \E j \in 1 .. i - 1 : k.live.body[j][1] = "before"
       /\ In(k.cleanup.body, "created") \/ In(k.reset.body, "created") =>
            \E j \in 1 .. i - 1 : k.live.body[j][1] = "up"

\* A cleanup tries to undo all that was done: no step before it in its block is
\* one that can be refused.  Where a refused disarm keeps a slot from being revoked,
\* nothing is loaded while the hook is armed.
UndoesAll(k) ==
  /\ k.live.body # << >> => In(k.live.body, "suite")
  /\ In(k.live.body, "suite") => k.suite.body # << >>
  /\ \A i \in 1 .. Len(k.live.body) :
       /\ k.live.body[i][1] = "watch" =>
            \E b \in 1 .. Len(k.live.final) : k.live.final[b][1] = <<"unwatch", k.live.body[i][2]>>
       /\ k.live.body[i][1] = "up" =>
            \E b \in 1 .. Len(k.live.final) : \E j \in 1 .. Len(k.live.final[b]) :
              /\ k.live.final[b][j][1] = "down"
              /\ \A h \in 1 .. j - 1 : k.live.final[b][h][1] = "logs"
       /\ k.live.body[i][1] = "suite" /\ In(k.suite.body, "ask") =>
            \E j \in 1 .. i - 1 : k.live.body[j][1] = "up"
  /\ In(k.suite.prep, "keys") => \E b \in 1 .. Len(k.suite.final) : k.suite.final[b][1][1] = "erase"
  /\ \A i \in 1 .. Len(k.suite.body) : LET p == k.suite.body[i][2] IN
       /\ k.suite.body[i][1] = "arm" =>
            \E b \in 1 .. Len(k.suite.final) : k.suite.final[b][1] = <<"disarm", p>>
       /\ k.suite.body[i][1] = "load" =>
            \/ \E b \in 1 .. Len(k.suite.final) : k.suite.final[b][1] = <<"revoke", p>>
            \/ /\ \E b \in 1 .. Len(k.suite.final) :
                    /\ Len(k.suite.final[b]) > 1
                    /\ k.suite.final[b][1] = <<"disarm", p>> /\ k.suite.final[b][2] = <<"revoke", p>>
               /\ \A a \in 1 .. i - 1 : k.suite.body[a] = <<"arm", p>> =>
                    \E d \in a + 1 .. i - 1 : k.suite.body[d] = <<"disarm", p>>

\* A suite looks at what it received after it has read the counters for the last
\* time.  Where it reads them after it has restored the hooks, or compares the
\* records with the requests then, every hook that was armed is restored, and
\* nothing is read anew after that.  A verifier looks at the suite's result and
\* events, and the suite of a run that is verified reads the counters at its end.
ReceivesAll(k) ==
  LET s == k.suite.body
      Closes(op, news) ==
        Follows(s, "disarm", op) =>
          /\ \A a \in 1 .. Len(s) : s[a][1] = "arm" =>
               \E d \in a + 1 .. Len(s) : s[d] = <<"disarm", s[a][2]>>
          /\ \E j \in 1 .. Len(s) :
               /\ s[j][1] = op /\ \A i \in j .. Len(s) : s[i][1] # "disarm"
               /\ \A i \in j + 1 .. Len(s) : s[i][1] \notin news
  IN /\ s # << >> => \E i \in 1 .. Len(s) :
          /\ s[i][1] \in {"exact", "pages"}
          /\ \A j \in i + 1 .. Len(s) : s[j][1] \notin {"counts", "drain", "target"}
     /\ Closes("target", {"counts", "target"})
     /\ Closes("compare", {"counts", "drain", "pages"})
     /\ k.live.body # << >> /\ k.verify.body # << >> =>
          /\ In(k.verify.body, "result") /\ In(k.verify.body, "events")
          /\ Follows(s, "disarm", "target")

ASSUME CampaignsAssumption ==
  \A n \in DOMAIN Campaigns : LET k == Campaigns[n] IN
    /\ Shaped(k) /\ SignsLast(k) /\ DigestsFirst(k) /\ KeepsFirst(k) /\ UndoesAll(k) /\ ReceivesAll(k)

VARIABLES
  c,        \* the experiment that is run: its programs and scripts
  proc,     \* the processes of the experiment
  built,    \* the output directories of the builds, in order
  w,        \* the fixture: TMM, the collector, what the suite counted
  src,      \* version of the source files
  saved,    \* what the driver's receipt and the evidence hold
  events,   \* faults and interferences so far
  hurt      \* an answer was lost, or a cleanup step failed (not in the code)

vars == <<c, proc, built, w, src, saved, events, hurt>>

K         == c
Ps        == K.programs
None      == "none"
NoObject  == [src |-> -1, form |-> 0]

\* A process: the script it is at, its position, and the notes it keeps for
\* its cleanup.  That a stop was refused and not looked at (ignored) it does not keep.
NewProc == [phase |-> "idle", block |-> 0, pos |-> 1, failed |-> FALSE, errors |-> FALSE,
            receipt |-> None, loaded |-> {}, armed |-> {}, watching |-> {}, started |-> FALSE,
            before |-> 0, ignored |-> FALSE]

\* What a build leaves in its directory.
NewBuild(ps) ==
  [rec |-> -1, obj |-> [p \in ps |-> NoObject], prevail |-> [p \in ps |-> NoObject],
   native |-> [p \in ps |-> NoObject], sig |-> [p \in ps |-> NoObject],
   digest |-> [p \in ps |-> NoObject], passed |-> FALSE]

NewTmm(ps, n) ==
  [tmm |-> n, slot |-> [p \in ps |-> NoObject], text |-> [p \in ps |-> "nop"],
   fired |-> [p \in ps |-> 0], ring |-> [p \in ps |-> 0], dropped |-> FALSE]

\* Counts of records, of each program, since the counters were read: sent
\* for, run, received, in the journal.
Zero(ps) == [p \in ps |-> 0]

Init ==
  /\ \E n \in DOMAIN Campaigns : c = Campaigns[n]
  /\ proc = [x \in Procs |-> NewProc]
  /\ built = << >> /\ src = 0 /\ events = 0 /\ hurt = FALSE
  /\ w = [fixture |-> IF K.create.body = << >> THEN "up" ELSE "absent",
          tmm |-> NewTmm(Ps, 1), collector |-> "absent", request |-> None, handled |-> 0,
          journal |-> Zero(Ps), got |-> Zero(Ps), sent |-> Zero(Ps), target |-> Zero(Ps),
          base |-> Zero(Ps), mark |-> Zero(Ps), monitors |-> {}, patches |-> Zero(Ps),
          keys |-> FALSE]
  /\ saved = [build |-> 0, archived |-> 0, rec |-> 0, result |-> None, errors |-> FALSE,
              kept |-> None, got |-> Zero(Ps), sent |-> Zero(Ps),
              target |-> Zero(Ps), journal |-> Zero(Ps), patches |-> Zero(Ps)]

-----------------------------------------------------------------------------
(* Steps of a build.  A build works on the newest directory.               *)

B == built[Len(built)]

BuildOps == {"sources", "compile", "import", "transform", "prevail", "native", "sign", "digest"}

\* A signed object of an earlier build, from the first version of the sources.
Earlier == [src |-> 0, form |-> 3]

\* Mutated form: the signature is made before the last transformation is in.
BuildDoSignsEarly(op, p) ==
  CASE op = "sources"   -> [B EXCEPT !.rec = src]
    [] op = "compile"   -> [B EXCEPT !.obj[p] = [src |-> src, form |-> 1]]
    [] op = "import"    -> [B EXCEPT !.obj[p] = Earlier, !.sig[p] = Earlier]
    [] op = "transform" -> [B EXCEPT !.obj[p].form = @ + 1]
    [] op = "prevail"   -> [B EXCEPT !.prevail[p] = B.obj[p], !.obj[p].form = @ + 1]
    [] op = "native"    -> [B EXCEPT !.native[p] = B.obj[p]]
    [] op = "sign"      -> [B EXCEPT !.sig[p] = B.obj[p]]
    [] op = "digest"    -> [B EXCEPT !.digest[p] = B.obj[p]]

\* The digests of the sources, the compiler, the tools that rewrite the object
\* (objcopy, bind_target), the copy of an earlier build's object, the verifier, the native harness, the signer, and
\* the digests of object and signature.
BuildDo(op, p) ==
  CASE op = "sources"   -> [B EXCEPT !.rec = src]
    [] op = "compile"   -> [B EXCEPT !.obj[p] = [src |-> src, form |-> 1]]
    [] op = "import"    -> [B EXCEPT !.obj[p] = Earlier, !.sig[p] = Earlier]
    [] op = "transform" -> [B EXCEPT !.obj[p].form = @ + 1]
    [] op = "prevail"   -> [B EXCEPT !.prevail[p] = B.obj[p]]
    [] op = "native"    -> [B EXCEPT !.native[p] = B.obj[p]]
    [] op = "sign"      -> [B EXCEPT !.sig[p] = B.obj[p]]
    [] op = "digest"    -> [B EXCEPT !.digest[p] = B.obj[p]]

-----------------------------------------------------------------------------
(* Steps that act on TMM, the collector and the monitors.                  *)

T == w.tmm
U == built[saved.build]

\* Hooks whose text calls a loaded program run it and publish a record.
Fire(t) ==
  LET runs(p) == t.text[p] = "call" /\ t.slot[p] # NoObject IN
  [t EXCEPT !.fired = [p \in Ps |-> IF runs(p) THEN t.fired[p] + 1 ELSE t.fired[p]],
            !.ring  = [p \in Ps |-> IF runs(p) THEN t.ring[p] + 1 ELSE t.ring[p]]]

WorldOps == {"load", "arm", "disarm", "revoke", "counts", "traffic", "mark", "target", "drain",
             "discard", "cursor", "pages", "watch", "unwatch", "up", "down", "ask", "keys", "erase",
             "make", "remove"}

Runs(p) == T.text[p] = "call" /\ T.slot[p] # NoObject

\* load, arm, disarm and revoke are loader commands; counts and target read the
\* counters of the programs; a drain consumes the ring and a page of the
\* collector's journal does not.
WorldDo(op, p) ==
  CASE op = "load"    -> [w EXCEPT !.tmm.slot[p] = U.obj[p]]
    [] op = "arm"     -> [w EXCEPT !.tmm.text[p] = "call", !.patches[p] = @ + 1]
    [] op = "disarm"  -> [w EXCEPT !.tmm.text[p] = "nop"]
    [] op = "revoke"  -> [w EXCEPT !.tmm.slot[p] = NoObject]
    [] op = "counts"  -> [w EXCEPT !.base = T.fired, !.got = Zero(Ps), !.sent = Zero(Ps)]
    [] op = "traffic" -> [w EXCEPT !.tmm = Fire(T),
                                   !.sent = [q \in Ps |-> w.sent[q] + (IF Runs(q) THEN 1 ELSE 0)]]
    [] op = "mark"    -> [w EXCEPT !.mark = T.fired]
    [] op = "target"  -> [w EXCEPT !.target = [q \in Ps |-> T.fired[q] - w.base[q]]]
    [] op = "drain"   -> [w EXCEPT !.got = [q \in Ps |-> w.got[q] + T.ring[q]],
                                   !.tmm.ring = Zero(Ps)]
    [] op = "discard" -> [w EXCEPT !.tmm.ring = Zero(Ps)]
    [] op = "cursor"  -> [w EXCEPT !.journal = Zero(Ps)]
    [] op = "pages"   -> [w EXCEPT !.got = w.journal]
    [] op = "watch"   -> [w EXCEPT !.monitors = @ \union {p}]
    [] op = "unwatch" -> [w EXCEPT !.monitors = @ \ {p}]
    [] op = "up"      -> [w EXCEPT !.collector = "up"]
    [] op = "down"    -> [w EXCEPT !.collector = IF @ = "absent" THEN @ ELSE "stopped"]
    [] op = "ask"     -> [w EXCEPT !.request = p]
    [] op = "make"    -> [w EXCEPT !.fixture = "up"]
    [] op = "remove"  -> [w EXCEPT !.fixture = "removed", !.collector = "absent"]
    [] op = "keys"    -> [w EXCEPT !.keys = TRUE]
    [] op = "erase"   -> [w EXCEPT !.keys = FALSE]

-----------------------------------------------------------------------------
(* Running a script.                                                       *)

Running(x) == proc[x].phase \in {"prep", "body", "final"}
Steps(x)   == CASE proc[x].phase = "prep"  -> K[x].prep
                [] proc[x].phase = "body"  -> K[x].body
                [] proc[x].phase = "final" -> K[x].final[proc[x].block]
Current(x) == Steps(x)[proc[x].pos]

\* The driver is in the loop in which it also answers the suite.
Controls == Running("live") /\ Current("live")[1] = "suite"

-----------------------------------------------------------------------------
(* When a step succeeds.  What is not named here has nothing to compare.   *)

\* Mutated form: received records are only looked at for being there.
ExactSome == \A p \in Ps : w.got[p] > 0

\* All that ran up to the reading of the counters has been received.
Exact == w.got = w.target

\* The journal holds what the counters said, and reports no loss.
CaughtUp == w.collector = "up" /\ ~T.dropped /\ w.journal = w.target

SuiteOk(op, p) ==
  CASE op = "load"      -> U.sig[p] = U.obj[p] /\ U.obj[p] # NoObject
    [] op = "arm"       -> T.slot[p] # NoObject /\ T.text[p] = "nop"
    [] op = "disarm"    -> T.text[p] = "call"
    [] op = "drain"     -> ~T.dropped
    [] op = "pages"     -> CaughtUp
    [] op = "exact"     -> Exact
    [] op = "compare"   -> w.got = w.sent
    [] op = "replay"    -> w.journal = w.got
    [] op = "moved"     -> \A q \in Ps : T.fired[q] > w.base[q]
    [] op = "unmoved"   -> T.fired = w.mark
    [] op = "answered"  -> w.request = None
    [] OTHER            -> TRUE

\* Mutated form: the suite waits for an answer also when its driver is gone.
WaitsForDriver(op) ==
  CASE op = "pages"              -> /\ w.collector = "up" /\ \E p \in Ps : T.ring[p] > 0
                                    /\ \E p \in Ps : w.journal[p] < w.target[p]
    [] op \in {"suite", "await"} -> proc["suite"].phase # "done"
    [] op = "answered"           -> w.request # None
    [] OTHER                     -> FALSE

\* The journal is asked again until it has caught up; a driver waits for the
\* suite it started, and the suite for the driver's answer.
Waits(op) ==
  CASE op = "pages"              -> /\ w.collector = "up" /\ \E p \in Ps : T.ring[p] > 0
                                    /\ \E p \in Ps : w.journal[p] < w.target[p]
    [] op \in {"suite", "await"} -> proc["suite"].phase # "done"
    [] op = "answered"           -> w.request # None /\ Controls
    [] OTHER                     -> FALSE

\* What the monitor of a hook saw; 0 stands for "at least once".
Witnessed(p) == IF K.patches[p] = 0 THEN w.patches[p] > 0 ELSE w.patches[p] = K.patches[p]

LiveOk(op, p) ==
  CASE op = "before"    -> w.fixture = "up"
    [] op = "program"   -> U.passed
    [] op = "objects"   -> U.obj[p] = U.digest[p]
    [] op = "watch"     -> T.text[p] = "nop"
    [] op = "suite"     -> proc["suite"].receipt = "passed" /\ w.handled = K.requests
    [] op = "unwatch"   -> T.text[p] = "nop" /\ proc["live"].before = T.tmm
    [] op = "witnessed" -> proc["live"].failed \/ Witnessed(p)
    [] op = "after"     -> proc["live"].before = T.tmm
    [] op = "idle"      -> T.slot[p] = NoObject
    [] OTHER            -> TRUE

\* Mutated form: any run's receipt will do.
FixtureOkAnyRun(op, p) ==
  CASE op = "not there"  -> w.fixture = "absent"
    [] op = "owned"      -> w.fixture = "up" /\ proc["live"].before = T.tmm
    [] op = "passed run" -> proc["live"].receipt # None
    [] op = "failed run" -> proc["live"].receipt = "failed" /\ proc["live"].before = T.tmm
    [] op = "result"     -> saved.result = "failed" /\ ~saved.errors
    [] op = "failed build" -> proc["build"].receipt = "failed"
    [] op = "created"    -> /\ proc["create"].receipt = "passed" /\ w.fixture = "up" /\ T.tmm = 1
                            /\ w.collector = "absent"
    [] op = "witness"    -> T.text[p] = "nop" /\ proc["live"].before \in {0, T.tmm}
    [] op = "untouched"  -> T.text[p] = "nop" /\ T.slot[p] = NoObject /\ T.fired[p] = 0
    [] op = "disarmed"   -> \A q \in Ps : T.text[q] = "nop"
    [] OTHER             -> TRUE

\* The fixture is removed after a driver's receipt was read and its evidence
\* archived.
FixtureOk(op, p) ==
  CASE op = "not there"  -> w.fixture = "absent"
    [] op = "owned"      -> w.fixture = "up" /\ proc["live"].before = T.tmm
    [] op = "passed run" -> proc["live"].receipt = "passed"
    [] op = "failed run" -> proc["live"].receipt = "failed" /\ proc["live"].before = T.tmm
    [] op = "result"     -> saved.result = "failed" /\ ~saved.errors
    [] op = "failed build" -> proc["build"].receipt = "failed"
    [] op = "created"    -> /\ proc["create"].receipt = "passed" /\ w.fixture = "up" /\ T.tmm = 1
                            /\ w.collector = "absent"
    [] op = "witness"    -> T.text[p] = "nop" /\ proc["live"].before \in {0, T.tmm}
    [] op = "untouched"  -> T.text[p] = "nop" /\ T.slot[p] = NoObject /\ T.fired[p] = 0
    [] op = "disarmed"   -> \A q \in Ps : T.text[q] = "nop"
    [] OTHER             -> TRUE

\* The verifier reads the archived receipts and the sources as they are now.
A == built[saved.archived]

\* Mutated form: the records are compared with the counters only.
EventsOkCounted == saved.got = saved.target

\* As many records as the counters say, and each belongs to a request.
EventsOk == saved.got = saved.target /\ saved.got = saved.sent

\* Mutated form: the build that was run is not looked for.
VerifyOkAnyBuild(op) ==
  CASE op = "receipts"   -> A.passed /\ proc["live"].receipt = "passed"
    [] op = "cleanup"    -> proc["cleanup"].receipt = "passed"
    [] op = "build"      -> A.passed
    [] op = "same build" -> A.passed
    [] op = "sources"    -> A.rec = src
    [] op = "driver"     -> saved.rec = src
    [] op = "prevail"    -> \A p \in Ps : A.prevail[p] # NoObject
    [] op = "native"     -> \E p \in Ps : A.native[p] # NoObject
    [] op = "archive"    -> saved.kept # None
    [] op = "result"     -> saved.result = "passed"
    [] op = "events"     -> EventsOk
    [] op = "witness"    -> \A p \in Ps : saved.patches[p] = K.patches[p]
    [] op = "journal"    -> saved.journal = saved.got
    [] OTHER             -> TRUE

VerifyOk(op) ==
  CASE op = "receipts"   -> A.passed /\ proc["live"].receipt = "passed"
    [] op = "cleanup"    -> proc["cleanup"].receipt = "passed"
    [] op = "build"      -> A.passed
    [] op = "same build" -> A = U
    [] op = "sources"    -> A.rec = src
    [] op = "driver"     -> saved.rec = src
    [] op = "prevail"    -> \A p \in Ps : A.prevail[p] # NoObject
    [] op = "native"     -> \E p \in Ps : A.native[p] # NoObject
    [] op = "archive"    -> saved.kept # None
    [] op = "result"     -> saved.result = "passed"
    [] op = "events"     -> EventsOk
    [] op = "witness"    -> \A p \in Ps : saved.patches[p] = K.patches[p]
    [] op = "journal"    -> saved.journal = saved.got
    [] OTHER             -> TRUE

Ok(x, s) ==
  CASE x = "build"  -> TRUE
    [] x = "live"   -> LiveOk(s[1], s[2])
    [] x = "suite"  -> SuiteOk(s[1], s[2])
    [] x = "verify" -> VerifyOk(s[1])
    [] OTHER        -> FixtureOk(s[1], s[2])

-----------------------------------------------------------------------------
(* What a process does after a step.                                       *)

\* The cleanup undoes what the process noted; a command whose exit code is not
\* looked at is sent in any case.
Skipped(x, s) ==
  /\ proc[x].phase = "final"
  /\ \/ s[1] = "disarm"  /\ s[2] \notin proc[x].armed
     \/ s[1] = "revoke"  /\ s[2] \notin proc[x].loaded
     \/ s[1] \in {"unwatch", "witnessed"} /\ s[2] \notin proc[x].watching
     \/ s[1] \in {"logs", "down", "journal"} /\ s[2] = "" /\ ~proc[x].started
     \/ s[1] \in {"journal", "files"} /\ s[2] = "passed" /\ proc[x].failed
     \/ s[1] = "await"   /\ proc["suite"].phase = "idle"

Ended(P) == [P EXCEPT !.phase = "done", !.block = 0, !.pos = 1,
                      !.receipt = IF P.failed \/ P.errors THEN "failed" ELSE "passed"]

\* The next cleanup block; after the last one the receipt is written.
NextBlock(x, P) ==
  IF P.block < Len(K[x].final)
  THEN [P EXCEPT !.phase = "final", !.block = @ + 1, !.pos = 1] ELSE Ended(P)

\* The step after the current one.
Onward(x, P) ==
  IF P.pos < Len(Steps(x)) THEN [P EXCEPT !.pos = @ + 1]
  ELSE IF P.phase = "prep" THEN [P EXCEPT !.phase = "body", !.pos = 1]
  ELSE NextBlock(x, P)

\* Mutated form: an exception of the cleanup is not kept for the receipt.
RaisedForgets(x, P) ==
  CASE P.phase = "prep" -> [P EXCEPT !.phase = "done", !.pos = 1]
    [] P.phase = "body" -> NextBlock(x, [P EXCEPT !.failed = TRUE])
    [] OTHER            -> NextBlock(x, P)

\* An exception: before the receipt is reserved it ends the process, in the
\* body it leads to the cleanup, there to the next block; closing the clients
\* is not guarded.
Raised(x, P) ==
  CASE P.phase = "prep" -> [P EXCEPT !.phase = "done", !.pos = 1]
    [] P.phase = "body" -> NextBlock(x, [P EXCEPT !.failed = TRUE])
    [] OTHER            -> IF Current(x)[1] = "close" THEN Ended([P EXCEPT !.errors = TRUE])
                           ELSE NextBlock(x, [P EXCEPT !.errors = TRUE])

\* Mutated form: a slot is noted only when its program is armed.
NotedWithoutLoad(P, s) ==
  CASE s[1] = "arm"     -> [P EXCEPT !.armed = @ \union {s[2]}, !.loaded = @ \union {s[2]}]
    [] s[1] = "disarm"  -> [P EXCEPT !.armed = @ \ {s[2]}]
    [] s[1] = "revoke"  -> [P EXCEPT !.loaded = @ \ {s[2]}]
    [] s[1] = "watch"   -> [P EXCEPT !.watching = @ \union {s[2]}]
    [] s[1] = "up"      -> [P EXCEPT !.started = TRUE]
    [] s[1] = "before"  -> [P EXCEPT !.before = T.tmm]
    [] s[1] = "reserve" -> [P EXCEPT !.receipt = "open"]
    [] OTHER            -> P

\* What a process notes once a step is through.
Noted(P, s) ==
  CASE s[1] = "load"    -> [P EXCEPT !.loaded = @ \union {s[2]}]
    [] s[1] = "arm"     -> [P EXCEPT !.armed = @ \union {s[2]}]
    [] s[1] = "disarm"  -> [P EXCEPT !.armed = @ \ {s[2]}]
    [] s[1] = "revoke"  -> [P EXCEPT !.loaded = @ \ {s[2]}]
    [] s[1] = "watch"   -> [P EXCEPT !.watching = @ \union {s[2]}]
    [] s[1] = "up"      -> [P EXCEPT !.started = TRUE]
    [] s[1] = "before"  -> [P EXCEPT !.before = T.tmm]
    [] s[1] = "reserve" -> [P EXCEPT !.receipt = "open"]
    [] OTHER            -> P

\* The files and the world after a step.
Takes(s) ==
  /\ w' = IF s[1] \in WorldOps THEN WorldDo(s[1], s[2]) ELSE w
  /\ built' = IF s[1] \in BuildOps /\ Running("build")
              THEN [built EXCEPT ![Len(built)] = BuildDo(s[1], s[2])] ELSE built
  /\ saved' = CASE s[1] = "files"    -> [saved EXCEPT !.result = proc["suite"].receipt,
                                           !.errors = proc["suite"].errors, !.got = w.got, !.sent = w.sent,
                                           !.target = w.target, !.patches = w.patches]
                [] s[1] = "journal"  -> [saved EXCEPT !.journal = w.journal]
                [] s[1] = "manifest" -> [saved EXCEPT !.kept =
                                           IF proc["suite"].phase = "idle" THEN "blocked"
                                           ELSE proc["suite"].receipt]
                [] s[1] = "sources" /\ Running("live") -> [saved EXCEPT !.rec = src]
                [] OTHER             -> saved
Leaves == UNCHANGED <<w, built, saved>>

\* Mutated form: an existing receipt is opened again.
ReservedNever(x, s) == FALSE

\* A reserved name is never reserved again.
Reserved(x, s) == s[1] = "reserve" /\ proc[x].receipt # None

\* A step succeeds.
StepOk(x) ==
  /\ Running(x)
  /\ LET s == Current(x) IN
     /\ Skipped(x, s) \/ (Ok(x, s) /\ ~Waits(s[1]) /\ ~Reserved(x, s))
     /\ IF Skipped(x, s) THEN Leaves ELSE Takes(s)
     /\ proc' = [proc EXCEPT ![x] = Onward(x, IF Skipped(x, s) THEN proc[x] ELSE Noted(proc[x], s))]
  /\ UNCHANGED <<c, src, events, hurt>>

\* A check does not hold.  A monitor is started or stopped before it is checked.
StepRaises(x) ==
  /\ Running(x)
  /\ LET s == Current(x) IN
     /\ ~Skipped(x, s) /\ ~Waits(s[1])
     /\ ~Ok(x, s) \/ Reserved(x, s)
     /\ IF s[1] \in {"watch", "unwatch"} THEN Takes(s) ELSE Leaves
     /\ proc' = [proc EXCEPT ![x] = Raised(x, IF s[1] = "watch" THEN Noted(proc[x], s) ELSE proc[x])]
  /\ UNCHANGED <<c, src, events, hurt>>

Event == events < EventMax /\ events' = events + 1

\* A command fails although nothing was wrong, with or without its effect; the
\* answer to a file that was written is never lost.
StepFaults(x, lost) ==
  /\ Running(x) /\ Event
  /\ LET s == Current(x) IN
     /\ ~Skipped(x, s) /\ s[1] # "suite"
     /\ lost => s[1] \in WorldOps /\ Ok(x, s)
     /\ IF lost THEN Takes(s) ELSE Leaves
     /\ proc' = [proc EXCEPT ![x] = Raised(x, IF lost /\ s[1] = "watch" THEN Noted(proc[x], s) ELSE proc[x])]
     /\ hurt' = (hurt \/ lost \/ proc[x].phase = "final")
  /\ UNCHANGED <<c, src>>

\* The stop of the collector is refused, and the driver does not look at its exit
\* code.  Refused logs would change nothing.
StepIgnored(x) ==
  /\ Running(x) /\ Event
  /\ Current(x) = <<"down", "unchecked">>
  /\ proc' = [proc EXCEPT ![x] = Onward(x, [proc[x] EXCEPT !.ignored = TRUE])]
  /\ Leaves
  /\ UNCHANGED <<c, src, hurt>>

\* The driver starts the suite in the fixture's container.
StartSuite ==
  /\ Running("live") /\ Current("live")[1] = "suite" /\ proc["suite"].phase = "idle"
  /\ proc' = [proc EXCEPT !["suite"].phase = "prep"]
  /\ UNCHANGED <<c, built, w, src, saved, events, hurt>>

\* The driver stops, kills or restarts the collector for the suite.  It restarts
\* it only on a ring in which records have queued and none was dropped, and
\* answers only if TMM is still the same.
Queued    == w.request = "resume" => ~T.dropped /\ \E p \in Ps : T.ring[p] > 0
Unchanged == proc["live"].before = T.tmm
Switched  == IF w.request = "resume" THEN "up" ELSE "stopped"

Control ==
  /\ Controls /\ w.request # None /\ Queued /\ Unchanged
  /\ w' = [w EXCEPT !.request = None, !.handled = @ + 1, !.collector = Switched]
  /\ UNCHANGED <<c, proc, built, src, saved, events, hurt>>

ControlRaises ==
  /\ Controls /\ w.request # None /\ ~(Queued /\ Unchanged)
  /\ w' = IF Queued THEN [w EXCEPT !.collector = Switched] ELSE w
  /\ proc' = [proc EXCEPT !["live"] = Raised("live", proc["live"])]
  /\ UNCHANGED <<c, built, src, saved, events, hurt>>

\* The driver stops waiting; killing its docker client does not end the suite.
SuiteTimeout ==
  /\ Running("live") /\ Current("live")[1] = "suite" /\ proc["suite"].phase # "idle" /\ Event
  /\ proc' = [proc EXCEPT !["live"] = Raised("live", proc["live"])]
  /\ UNCHANGED <<c, built, w, src, saved, hurt>>

-----------------------------------------------------------------------------
(* The operator and the environment.                                       *)

\* A build's receipt is complete and not yet written.
Pending == proc["build"].phase = "done" /\ proc["build"].receipt = "passed" /\ ~B.passed

Through(x) == proc[x].phase = "done" \/ K[x].body = << >>
Started(x) == [NewProc EXCEPT !.phase = IF K[x].prep = << >> THEN "body" ELSE "prep"]
Fresh(x)   == proc[x].phase = "idle" /\ K[x].body # << >>

\* The fixture is made once.
BeginCreate ==
  /\ Fresh("create")
  /\ proc' = [proc EXCEPT !["create"] = Started("create")]
  /\ UNCHANGED <<c, built, w, src, saved, events, hurt>>

\* A build into a new directory; a second one when the sources have changed.
BeginBuild ==
  /\ Through("create") /\ proc["live"].phase = "idle" /\ ~Running("build") /\ ~Pending
  /\ proc["verify"].phase = "idle" /\ ~Running("reset")
  /\ \/ built = << >>
     \/ Len(built) = 1 /\ built[1].rec # src
  /\ built' = Append(built, NewBuild(Ps))
  /\ proc' = [proc EXCEPT !["build"] = Started("build")]
  /\ UNCHANGED <<c, w, src, saved, events, hurt>>

\* The build's receipt says that it passed.
EndBuild ==
  /\ Pending
  /\ built' = [built EXCEPT ![Len(built)].passed = TRUE]
  /\ UNCHANGED <<c, proc, w, src, saved, events, hurt>>

\* The driver is given some build; the verifier finds some build archived.
BeginLive ==
  /\ proc["build"].phase = "done" /\ ~Pending /\ Fresh("live") /\ ~Running("reset")
  /\ \E n \in 1 .. Len(built) : saved' = [saved EXCEPT !.build = n]
  /\ proc' = [proc EXCEPT !["live"] = Started("live")]
  /\ UNCHANGED <<c, built, w, src, events, hurt>>

\* The fixture is archived although the build failed and no driver was started.
BeginBlocked ==
  /\ proc["build"].phase = "done" /\ proc["build"].receipt = "failed"
  /\ proc["live"].phase = "idle" /\ Fresh("reset")
  /\ proc' = [proc EXCEPT !["reset"] = Started("reset")]
  /\ UNCHANGED <<c, built, w, src, saved, events, hurt>>

\* The evidence of a run is archived, also while a suite goes on that the
\* driver gave up.
BeginCleanup ==
  /\ proc["live"].phase = "done"
  /\ \E x \in {"cleanup", "reset"} : Fresh(x) /\ proc' = [proc EXCEPT ![x] = Started(x)]
  /\ ~Running("cleanup") /\ ~Running("reset")
  /\ UNCHANGED <<c, built, w, src, saved, events, hurt>>

BeginVerify ==
  /\ Fresh("verify")
  /\ IF K.live.body = << >> THEN proc["build"].phase = "done" /\ ~Pending
     ELSE proc["live"].phase = "done" /\ Through("cleanup") /\ ~Running("suite")
  /\ \E n \in 1 .. Len(built) :
       saved' = [saved EXCEPT !.archived = n, !.build = IF K.live.body = << >> THEN n ELSE @]
  /\ proc' = [proc EXCEPT !["verify"] = Started("verify")]
  /\ UNCHANGED <<c, built, w, src, events, hurt>>

\* The driver is started again with the same receipt name.
Rerun ==
  /\ proc["live"].phase = "done" /\ proc["live"].receipt # None
  /\ \A x \in {"cleanup", "reset", "verify"} : proc[x].phase = "idle"
  /\ Event
  /\ proc' = [proc EXCEPT !["live"] = [@ EXCEPT !.phase = "prep", !.pos = 1]]
  /\ UNCHANGED <<c, built, w, src, saved, hurt>>

\* The collector moves what is in the ring to its journal.
Collect ==
  /\ w.collector = "up" /\ \E p \in Ps : T.ring[p] > 0
  /\ w' = [w EXCEPT !.journal = [p \in Ps |-> w.journal[p] + T.ring[p]],
                    !.tmm.ring = [p \in Ps |-> 0]]
  /\ UNCHANGED <<c, proc, built, src, saved, events, hurt>>

\* TMM restarts in its container; the next one has pads, empty slots and counters at zero.
Restart ==
  /\ Running("live") \/ Running("cleanup") \/ Running("reset")
  /\ Event /\ w.fixture = "up"
  /\ w' = [w EXCEPT !.tmm = NewTmm(Ps, T.tmm + 1)]
  /\ UNCHANGED <<c, proc, built, src, saved, hurt>>

\* Traffic of others passes the hooks.
Background ==
  /\ Running("suite") /\ Fire(T) # T /\ Event
  /\ w' = [w EXCEPT !.tmm = Fire(T)]
  /\ UNCHANGED <<c, proc, built, src, saved, hurt>>

\* The ring is full when a program runs.
Drop ==
  /\ Running("suite") /\ Event
  /\ \E p \in Ps : /\ T.ring[p] > 0
                    /\ w' = [w EXCEPT !.tmm = [T EXCEPT !.ring[p] = @ - 1, !.dropped = TRUE]]
  /\ UNCHANGED <<c, proc, built, src, saved, hurt>>

Edit ==
  /\ Event /\ proc["verify"].phase = "idle"
  /\ src' = src + 1
  /\ UNCHANGED <<c, proc, built, w, saved, hurt>>

Next ==
  \/ \E x \in Procs : \/ StepOk(x) \/ StepRaises(x) \/ StepIgnored(x)
                      \/ \E lost \in BOOLEAN : StepFaults(x, lost)
  \/ StartSuite \/ Control \/ ControlRaises \/ SuiteTimeout \/ BeginCreate \/ BeginBuild \/ EndBuild \/ BeginLive
  \/ BeginBlocked \/ BeginCleanup \/ BeginVerify \/ Rerun
  \/ Collect \/ Restart \/ Background \/ Drop \/ Edit

Spec == Init /\ [][Next]_vars

\* Processes that run go on, the collector keeps up.
FairSpec ==
  /\ Spec
  /\ \A x \in Procs : WF_vars(StepOk(x) \/ StepRaises(x))
  /\ WF_vars(StartSuite) /\ WF_vars(Control \/ ControlRaises) /\ WF_vars(Collect)

-----------------------------------------------------------------------------
(* Properties.                                                             *)

\* Nothing of a run is left, but for a collector whose refused stop its driver did
\* not look at.
Clean ==
  /\ \A p \in Ps : T.text[p] = "nop" /\ T.slot[p] = NoObject
  /\ (w.collector # "up" \/ proc["live"].ignored) /\ w.monitors = {}
  /\ w.keys => proc["suite"].receipt = None

Over == proc["live"].phase = "done" /\ ~Running("suite")

\* In a build that passed, the bytes that were signed are the bytes that were
\* verified, run and digested, as far as the script has these steps for the
\* program, and they are the bytes that are there.
Makes(op, p) == \E i \in 1 .. Len(K.build.body) : K.build.body[i] = <<op, p>>
SignedIsVerified ==
  \A n \in 1 .. Len(built) : built[n].passed =>
    \A p \in Ps : built[n].sig[p] # NoObject =>
      /\ built[n].sig[p] = built[n].obj[p]
      /\ Makes("prevail", p) => built[n].prevail[p] = built[n].sig[p]
      /\ Makes("native", p) => built[n].native[p] = built[n].sig[p]
      /\ Makes("digest", p) => built[n].digest[p] = built[n].sig[p]

\* The suite reads the counters after it has disarmed every program.
Before(a, b) == Follows(K.suite.body, a, b)

\* A suite's result says passed only if it received every run of every program
\* up to its reading of the counters, none twice; where the counters are read
\* after the hooks are restored, that is every run there was, and where the
\* records are compared with the requests after that, these are its own.
PassedIsComplete ==
  (proc["suite"].receipt = "passed" /\ ~Running("suite") /\ T.tmm = 1) =>
    /\ w.got = w.target
    /\ Before("disarm", "target") => \A p \in Ps : w.target[p] = T.fired[p] - w.base[p]
    /\ Before("disarm", "compare") => w.got = w.sent

\* A driver's receipt says passed only if the hooks are restored, the slots
\* revoked, the monitors ended and the collector stopped.  The container driver
\* does not look at the answer to its stop: if that is refused, the receipt may
\* say passed and the collector run on, and nothing else.
PassedIsClean == (Over /\ proc["live"].receipt = "passed") => Clean

\* Whatever step fails, nothing stays behind, unless the answer to a command
\* was lost or the cleanup itself failed; in that case the receipt says failed.
\* What a refused stop leaves, which the container driver does not look at, is
\* the collector only.
NothingLeftBehind == (Over /\ proc["live"].receipt # "open" /\ ~Clean) => hurt /\ proc["live"].receipt = "failed"

\* A receipt once written never changes, and TMM, the collector and the
\* monitors are touched only while a receipt that will tell of it is reserved.
Touched == /\ w'.tmm.tmm = T.tmm
           /\ \/ w'.monitors # w.monitors \/ w'.collector # w.collector
              \/ w'.tmm.slot # T.slot \/ w'.tmm.text # T.text
ReceiptsGuard ==
  [][/\ \A x \in Procs \ {"build"} : proc[x].receipt \in {"passed", "failed"} =>
           proc'[x].receipt = proc[x].receipt
     /\ Touched => \E x \in {"live", "suite", "cleanup", "reset"} : proc[x].receipt = "open"]_vars

\* The fixture, and with it the evidence, is removed only when the archive holds
\* the final result of a suite that has ended, or says that none was started, and
\* no hook calls a program.
RemovedIsKept ==
  w.fixture = "removed" =>
    /\ ~Running("suite") /\ \A p \in Ps : T.text[p] = "nop"
    /\ IF proc["suite"].phase = "idle" THEN saved.kept = "blocked"
       ELSE saved.kept \in {"passed", "failed"} /\ saved.kept = proc["suite"].receipt

\* An archive is accepted only if what TMM ran was compiled from the sources
\* that are there now, where the verifier compares these and the builds.
Verifies(op) == \E i \in 1 .. Len(K.verify.body) : K.verify.body[i][1] = op
VerifiedIsCurrent ==
  /\ proc["verify"].receipt = "passed" /\ Verifies("sources")
  /\ Verifies("same build") \/ K.live.body = << >>
  => \A p \in Ps : built[saved.build].obj[p].src = src

\* An accepted archive holds exactly the runs TMM made while the programs were
\* armed, and all of them are answers to the suite's own requests.
VerifiedIsComplete ==
  (proc["verify"].receipt = "passed" /\ K.live.body # << >> /\ T.tmm = 1) =>
    \A p \in Ps : saved.got[p] = T.fired[p] - w.base[p] /\ saved.got[p] = w.sent[p]

\* A driver that started ends with a written receipt, and so does the suite,
\* also one its driver gave up.
EveryRunEnds ==
  \A x \in {"live", "suite"} : proc[x].phase = "body" ~> proc[x].phase = "done"
=============================================================================
