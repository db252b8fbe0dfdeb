-------------------------- MODULE Experiment_proofs --------------------------
(***************************************************************************)
(* Proofs about Experiment for every set of experiments whose scripts keep *)
(* to the assumptions, every number of programs and steps, and every       *)
(* number of faults and interferences.                                     *)
(*                                                                         *)
(* A script is data: what a step does is one lemma for each operation, and *)
(* the invariants say where a process stands in its script and which other *)
(* processes that excludes.                                                *)
(***************************************************************************)
EXTENDS Experiment, SequenceTheorems, TLAPS

-----------------------------------------------------------------------------
(* The inductive invariant.                                                *)

Receipts  == {None, "open", "passed", "failed"}
Process   == [phase : {"idle", "prep", "body", "final", "done"}, block : Nat, pos : Nat,
              failed : BOOLEAN, errors : BOOLEAN, receipt : Receipts, loaded : SUBSET STRING,
              armed : SUBSET STRING, watching : SUBSET STRING, started : BOOLEAN, before : Nat,
              ignored : BOOLEAN]
Bytes     == [src : Int, form : Int]
Objects   == [Ps -> Bytes]
Counts    == [Ps -> Int]
Directory == [rec : Int, obj : Objects, prevail : Objects, native : Objects, sig : Objects,
              digest : Objects, passed : BOOLEAN]
Tmm       == [tmm : Nat \ {0}, slot : Objects, text : [Ps -> {"nop", "call"}], fired : Counts,
              ring : Counts, dropped : BOOLEAN]
World     == [fixture : {"absent", "up", "removed"}, tmm : Tmm,
              collector : {"absent", "up", "stopped"}, request : STRING \union {None}, handled : Nat,
              journal : Counts, got : Counts, sent : Counts, target : Counts, base : Counts,
              mark : Counts, monitors : SUBSET STRING, patches : Counts, keys : BOOLEAN]
Evidence  == [build : Nat, archived : Nat, rec : Int, result : Receipts, errors : BOOLEAN,
              kept : Receipts \union {"blocked"}, got : Counts, sent : Counts, target : Counts,
              journal : Counts, patches : Counts]

Types ==
  /\ \E n \in DOMAIN Campaigns : c = Campaigns[n]
  /\ proc \in [Procs -> Process] /\ built \in Seq(Directory) /\ w \in World /\ src \in Nat
  /\ saved \in Evidence /\ events \in Int /\ hurt \in BOOLEAN

\* Where a process is, and what its receipt says of that.
Held(x) == IF K[x].prep = << >> THEN None ELSE "open"
Control1(x) ==
  LET P == proc[x] IN
  /\ IF P.phase = "idle" THEN P = NewProc ELSE K[x].body # << >>
  /\ P.phase = "prep" =>
       /\ P.block = 0 /\ P.pos \in 1 .. Len(K[x].prep)
       /\ \/ P.receipt = None /\ ~P.failed /\ ~P.errors
          \/ x = "live" /\ P.receipt \in {"passed", "failed"}
  /\ P.phase = "body" =>
       P.block = 0 /\ P.pos \in 1 .. Len(K[x].body) /\ ~P.failed /\ ~P.errors /\ P.receipt = Held(x)
  /\ P.phase = "final" =>
       /\ P.block \in 1 .. Len(K[x].final) /\ P.pos \in 1 .. Len(K[x].final[P.block])
       /\ P.receipt = Held(x)
  /\ P.phase = "done" => P.block = 0 /\ P.receipt # "open" /\ (P.receipt = None => ~P.failed /\ ~P.errors)
  /\ P.receipt = "passed" => ~P.failed /\ ~P.errors
Controlled == \A x \in Procs : Control1(x)

\* Which processes keep which from running.
Busy == Running("build") \/ Pending
Excluded ==
  /\ ~Through("create") => \A x \in Procs \ {"create"} : proc[x].phase = "idle"
  /\ built = << >> <=> proc["build"].phase = "idle"
  /\ Busy => /\ \A x \in {"live", "suite", "cleanup", "verify"} : proc[x].phase = "idle"
             /\ ~Running("reset")
  /\ proc["live"].phase # "idle" => saved.build \in 1 .. Len(built)
  /\ proc["live"].receipt = None => proc["suite"].phase = "idle"
  /\ proc["cleanup"].phase # "idle" => proc["live"].phase = "done"
  /\ Running("reset") => proc["live"].phase \in {"idle", "done"} /\ ~Running("cleanup")
  /\ proc["verify"].phase # "idle" =>
       /\ proc["live"].phase = "done" \/ (K.live.body = << >> /\ saved.build = saved.archived)
       /\ ~Running("suite") /\ saved.archived \in 1 .. Len(built)

\* What a build has in its directory for a kind of step.
Made(b, op) == CASE op = "prevail" -> b.prevail [] op = "native" -> b.native
                 [] op = "digest" -> b.digest [] OTHER -> b.sig
Checks == {"prevail", "native", "digest", "sign", "import"}

-----------------------------------------------------------------------------
(* Scripts.                                                                *)

\* The experiment that is run keeps to the assumptions.
LEMMA Formed ==
  ASSUME Types
  PROVE  Shaped(c) /\ SignsLast(c) /\ DigestsFirst(c) /\ KeepsFirst(c) /\ UndoesAll(c) /\ ReceivesAll(c)
BY CampaignsAssumption DEF Types

\* The parts of a script are sequences of pairs.
LEMMA Parts ==
  ASSUME Shaped(c), NEW x \in Procs
  PROVE  /\ c[x].prep \in Seq(STRING \X STRING) /\ c[x].body \in Seq(STRING \X STRING)
         /\ c[x].final \in Seq(Seq(STRING \X STRING))
BY DEF Shaped, Scripts

\* A running process is at a step of its script, in a part where that step belongs.
LEMMA AtStep ==
  ASSUME Types, Controlled, NEW x \in Procs, Running(x)
  PROVE  /\ Steps(x) \in Seq(STRING \X STRING) /\ proc[x].pos \in 1 .. Len(Steps(x))
         /\ Current(x) \in STRING \X STRING
         /\ <<x, proc[x].phase>> \in Home(Current(x)[1])
         /\ proc[x].phase = "prep" => Steps(x) = c[x].prep
         /\ proc[x].phase = "body" => Steps(x) = c[x].body
         /\ proc[x].phase = "final" => Steps(x) = c[x].final[proc[x].block]
<1>1. Shaped(c) BY Formed
<1>2. c[x].prep \in Seq(STRING \X STRING) /\ c[x].body \in Seq(STRING \X STRING)
      /\ c[x].final \in Seq(Seq(STRING \X STRING))
  BY <1>1, Parts
<1>3. Control1(x) BY DEF Controlled
<1>4. CASE proc[x].phase = "prep"
  <2>1. Steps(x) = c[x].prep BY <1>4 DEF Steps, K
  <2>2. proc[x].pos \in 1 .. Len(c[x].prep) BY <1>3, <1>4 DEF Control1, K
  <2>3. <<x, "prep">> \in Home(c[x].prep[proc[x].pos][1]) BY <1>1, <2>2 DEF Shaped
  <2> QED BY <1>2, <1>4, <2>1, <2>2, <2>3 DEF Current
<1>5. CASE proc[x].phase = "body"
  <2>1. Steps(x) = c[x].body BY <1>5 DEF Steps, K
  <2>2. proc[x].pos \in 1 .. Len(c[x].body) BY <1>3, <1>5 DEF Control1, K
  <2>3. <<x, "body">> \in Home(c[x].body[proc[x].pos][1]) BY <1>1, <2>2 DEF Shaped
  <2> QED BY <1>2, <1>5, <2>1, <2>2, <2>3 DEF Current
<1>6. CASE proc[x].phase = "final"
  <2> DEFINE b == proc[x].block
  <2>1. Steps(x) = c[x].final[b] BY <1>6 DEF Steps, K
  <2>2. b \in 1 .. Len(c[x].final) /\ proc[x].pos \in 1 .. Len(c[x].final[b])
    BY <1>3, <1>6 DEF Control1, K
  <2>3. <<x, "final">> \in Home(c[x].final[b][proc[x].pos][1]) BY <1>1, <2>2 DEF Shaped
  <2>4. c[x].final[b] \in Seq(STRING \X STRING) BY <1>2, <2>2
  <2> HIDE DEF b
  <2>5. c[x].final[b][proc[x].pos] \in STRING \X STRING BY <2>2, <2>4
  <2>6. Current(x) = c[x].final[b][proc[x].pos] BY <2>1 DEF Current
  <2> QED BY <1>6, <2>1, <2>2, <2>3, <2>4, <2>5, <2>6 DEF b
<1> QED BY <1>4, <1>5, <1>6 DEF Running

-----------------------------------------------------------------------------
(* How a process moves.                                                    *)

\* Behind the current step.
Advance(x) ==
  LET P == proc[x]
      Q == proc'[x]
  IN /\ Q.failed = P.failed /\ Q.errors = P.errors
     /\ \/ /\ P.pos < Len(Steps(x)) /\ Q.pos = P.pos + 1
           /\ Q.phase = P.phase /\ Q.block = P.block /\ Q.receipt = P.receipt
        \/ /\ P.pos = Len(Steps(x)) /\ P.phase = "prep" /\ P.receipt = None
           /\ Q.phase = "body" /\ Q.block = P.block /\ Q.pos = 1 /\ Q.receipt = "open"
        \/ /\ P.pos = Len(Steps(x)) /\ P.phase # "prep" /\ P.block < Len(K[x].final)
           /\ Q.phase = "final" /\ Q.block = P.block + 1 /\ Q.pos = 1 /\ Q.receipt = P.receipt
        \/ /\ P.pos = Len(Steps(x)) /\ P.phase # "prep" /\ P.block >= Len(K[x].final)
           /\ Q.phase = "done" /\ Q.block = 0 /\ Q.pos = 1
           /\ Q.receipt = IF P.failed \/ P.errors THEN "failed" ELSE "passed"

\* Out of the current block.
Raise(x) ==
  LET P == proc[x]
      Q == proc'[x]
  IN \/ /\ P.phase = "prep" /\ Q.phase = "done" /\ Q.block = P.block
        /\ Q.failed = P.failed /\ Q.errors = P.errors /\ Q.receipt = P.receipt
     \/ /\ P.phase # "prep"
        /\ IF P.phase = "body" THEN Q.failed /\ Q.errors = P.errors ELSE Q.failed = P.failed /\ Q.errors
        /\ \/ /\ P.block < Len(K[x].final)
              /\ Q.phase = "final" /\ Q.block = P.block + 1 /\ Q.pos = 1 /\ Q.receipt = P.receipt
           \/ /\ P.block >= Len(K[x].final) \/ (P.phase = "final" /\ Current(x)[1] = "close")
              /\ Q.phase = "done" /\ Q.block = 0 /\ Q.receipt = "failed"

\* The notes of a process.
SameNotes(P, Q) ==
  /\ Q.loaded = P.loaded /\ Q.armed = P.armed /\ Q.watching = P.watching
  /\ Q.started = P.started /\ Q.before = P.before

\* What Noted leaves alone.
LEMMA NotedShape ==
  ASSUME Types, NEW P \in Process, NEW s \in STRING \X STRING
  PROVE  /\ Noted(P, s) \in Process
         /\ Noted(P, s).phase = P.phase /\ Noted(P, s).block = P.block /\ Noted(P, s).pos = P.pos
         /\ Noted(P, s).failed = P.failed /\ Noted(P, s).errors = P.errors
         /\ Noted(P, s).ignored = P.ignored
         /\ Noted(P, s).receipt = IF s[1] = "reserve" THEN "open" ELSE P.receipt
         /\ s[1] # "load" /\ s[1] # "revoke" => Noted(P, s).loaded = P.loaded
         /\ s[1] # "arm" /\ s[1] # "disarm" => Noted(P, s).armed = P.armed
         /\ s[1] # "watch" => Noted(P, s).watching = P.watching
         /\ s[1] # "up" => Noted(P, s).started = P.started
         /\ s[1] # "before" => Noted(P, s).before = P.before
         /\ s[1] = "load" => Noted(P, s).loaded = P.loaded \union {s[2]}
         /\ s[1] = "revoke" => Noted(P, s).loaded = P.loaded \ {s[2]}
         /\ s[1] = "arm" => Noted(P, s).armed = P.armed \union {s[2]}
         /\ s[1] = "disarm" => Noted(P, s).armed = P.armed \ {s[2]}
         /\ s[1] = "watch" => Noted(P, s).watching = P.watching \union {s[2]}
         /\ s[1] = "up" => Noted(P, s).started
         /\ s[1] = "before" => Noted(P, s).before = T.tmm
<1>1. T.tmm \in Nat BY DEF Types, World, Tmm, T
<1>2. s[1] \in STRING /\ s[2] \in STRING OBVIOUS
<1>3. CASE s[1] = "load"
  BY <1>1, <1>2, <1>3 DEF Noted, Process, Receipts
<1>4. CASE s[1] = "arm"
  BY <1>1, <1>2, <1>4 DEF Noted, Process, Receipts
<1>5. CASE s[1] = "disarm"
  BY <1>1, <1>2, <1>5 DEF Noted, Process, Receipts
<1>6. CASE s[1] = "revoke"
  BY <1>1, <1>2, <1>6 DEF Noted, Process, Receipts
<1>7. CASE s[1] = "watch"
  BY <1>1, <1>2, <1>7 DEF Noted, Process, Receipts
<1>8. CASE s[1] = "up"
  BY <1>1, <1>2, <1>8 DEF Noted, Process, Receipts
<1>9. CASE s[1] = "before"
  BY <1>1, <1>2, <1>9 DEF Noted, Process, Receipts
<1>10. CASE s[1] = "reserve"
  BY <1>1, <1>2, <1>10 DEF Noted, Process, Receipts
<1>11. CASE s[1] \notin {"load", "arm", "disarm", "revoke", "watch", "up", "before", "reserve"}
  BY <1>1, <1>2, <1>11 DEF Noted, Process, Receipts
<1> QED BY <1>3, <1>4, <1>5, <1>6, <1>7, <1>8, <1>9, <1>10, <1>11

LEMMA EndedShape ==
  ASSUME NEW P \in Process
  PROVE  /\ Ended(P) \in Process /\ SameNotes(P, Ended(P))
         /\ Ended(P).phase = "done" /\ Ended(P).block = 0 /\ Ended(P).pos = 1
         /\ Ended(P).failed = P.failed /\ Ended(P).errors = P.errors /\ Ended(P).ignored = P.ignored
         /\ Ended(P).receipt = IF P.failed \/ P.errors THEN "failed" ELSE "passed"
BY DEF Ended, Process, Receipts, SameNotes

LEMMA NextBlockShape ==
  ASSUME NEW x \in Procs, NEW P \in Process
  PROVE  /\ NextBlock(x, P) \in Process /\ SameNotes(P, NextBlock(x, P))
         /\ NextBlock(x, P).failed = P.failed /\ NextBlock(x, P).errors = P.errors
         /\ NextBlock(x, P).ignored = P.ignored
         /\ P.block < Len(c[x].final) =>
              /\ NextBlock(x, P).phase = "final" /\ NextBlock(x, P).block = P.block + 1
              /\ NextBlock(x, P).pos = 1 /\ NextBlock(x, P).receipt = P.receipt
         /\ ~(P.block < Len(c[x].final)) => NextBlock(x, P) = Ended(P)
<1>1. CASE P.block < Len(c[x].final)
  <2>1. NextBlock(x, P) = [P EXCEPT !.phase = "final", !.block = P.block + 1, !.pos = 1]
    BY <1>1 DEF NextBlock, K
  <2>2. P.block + 1 \in Nat BY DEF Process
  <2> DEFINE Q == [P EXCEPT !.phase = "final", !.block = P.block + 1, !.pos = 1]
  <2>3. Q \in Process BY <2>2 DEF Process
  <2>4. /\ SameNotes(P, Q) /\ Q.failed = P.failed /\ Q.errors = P.errors /\ Q.phase = "final"
        /\ Q.block = P.block + 1 /\ Q.pos = 1 /\ Q.receipt = P.receipt /\ Q.ignored = P.ignored
    BY DEF Process, SameNotes
  <2> HIDE DEF Q
  <2>5. NextBlock(x, P) = Q BY <2>1 DEF Q
  <2> QED BY <1>1, <2>3, <2>4, <2>5
<1>2. CASE ~(P.block < Len(c[x].final))
  <2>1. NextBlock(x, P) = Ended(P) BY <1>2 DEF NextBlock, K
  <2> QED BY <1>2, <2>1, EndedShape
<1> QED BY <1>1, <1>2

\* The step after the current one.
LEMMA OnwardShape ==
  ASSUME NEW x \in Procs, NEW P \in Process, NEW n \in Nat, n = Len(Steps(x)), P.pos <= n
  PROVE  /\ Onward(x, P) \in Process /\ SameNotes(P, Onward(x, P))
         /\ Onward(x, P).failed = P.failed /\ Onward(x, P).errors = P.errors
         /\ Onward(x, P).ignored = P.ignored
         /\ P.pos < n => /\ Onward(x, P).pos = P.pos + 1 /\ Onward(x, P).phase = P.phase
                         /\ Onward(x, P).block = P.block /\ Onward(x, P).receipt = P.receipt
         /\ P.pos = n /\ P.phase = "prep" =>
              /\ Onward(x, P).pos = 1 /\ Onward(x, P).phase = "body"
              /\ Onward(x, P).block = P.block /\ Onward(x, P).receipt = P.receipt
         /\ P.pos = n /\ P.phase # "prep" => Onward(x, P) = NextBlock(x, P)
<1>0. P.pos \in Nat BY DEF Process
<1>1. CASE P.pos < n
  <2>1. Onward(x, P) = [P EXCEPT !.pos = P.pos + 1] BY <1>1 DEF Onward
  <2>2. P.pos + 1 \in Nat BY <1>0
  <2> QED BY <1>0, <1>1, <2>1, <2>2 DEF Process, SameNotes
<1>2. CASE P.pos = n /\ P.phase = "prep"
  <2>1. Onward(x, P) = [P EXCEPT !.phase = "body", !.pos = 1] BY <1>0, <1>2 DEF Onward
  <2> DEFINE Q == [P EXCEPT !.phase = "body", !.pos = 1]
  <2>2. Q \in Process BY DEF Process
  <2>3. /\ SameNotes(P, Q) /\ Q.failed = P.failed /\ Q.errors = P.errors /\ Q.phase = "body"
        /\ Q.block = P.block /\ Q.pos = 1 /\ Q.receipt = P.receipt /\ Q.ignored = P.ignored
    BY DEF Process, SameNotes
  <2> HIDE DEF Q
  <2>4. Onward(x, P) = Q BY <2>1 DEF Q
  <2> QED BY <1>0, <1>2, <2>2, <2>3, <2>4
<1>3. CASE P.pos = n /\ P.phase # "prep"
  <2>1. Onward(x, P) = NextBlock(x, P) BY <1>3, <1>0 DEF Onward
  <2> QED BY <1>3, <2>1, NextBlockShape
<1> QED BY <1>0, <1>1, <1>2, <1>3

\* An exception.
LEMMA RaisedShape ==
  ASSUME NEW x \in Procs, NEW P \in Process, c[x].final \in Seq(Seq(STRING \X STRING))
  PROVE  /\ Raised(x, P) \in Process /\ SameNotes(P, Raised(x, P)) /\ Raised(x, P).ignored = P.ignored
         /\ P.phase = "prep" =>
              /\ Raised(x, P).phase = "done" /\ Raised(x, P).block = P.block
              /\ Raised(x, P).failed = P.failed /\ Raised(x, P).errors = P.errors
              /\ Raised(x, P).receipt = P.receipt
         /\ P.phase # "prep" =>
              /\ IF P.phase = "body" THEN Raised(x, P).failed /\ Raised(x, P).errors = P.errors
                 ELSE Raised(x, P).failed = P.failed /\ Raised(x, P).errors
              /\ \/ /\ P.block < Len(c[x].final)
                    /\ Raised(x, P).phase = "final" /\ Raised(x, P).block = P.block + 1
                    /\ Raised(x, P).pos = 1 /\ Raised(x, P).receipt = P.receipt
                 \/ /\ P.block >= Len(c[x].final) \/ (P.phase # "body" /\ Current(x)[1] = "close")
                    /\ Raised(x, P).phase = "done" /\ Raised(x, P).block = 0
                    /\ Raised(x, P).receipt = "failed"
<1>0. P.block \in Nat /\ Len(c[x].final) \in Nat BY DEF Process
<1>1. CASE P.phase = "prep"
  BY <1>1 DEF Raised, Process, Receipts, SameNotes
<1>2. CASE P.phase = "body"
  <2> DEFINE F == [P EXCEPT !.failed = TRUE]
  <2>1. F \in Process /\ SameNotes(P, F) /\ F.failed /\ F.errors = P.errors /\ F.block = P.block
        /\ F.receipt = P.receipt /\ F.ignored = P.ignored
    BY DEF Process, SameNotes
  <2>2. Raised(x, P) = NextBlock(x, F) BY <1>2 DEF Raised
  <2> HIDE DEF F
  <2>3. CASE P.block < Len(c[x].final)
    BY <1>0, <1>2, <2>1, <2>2, <2>3, NextBlockShape DEF SameNotes
  <2>4. CASE ~(P.block < Len(c[x].final))
    <3>1. Raised(x, P) = Ended(F) BY <2>1, <2>2, <2>4, NextBlockShape
    <3> QED BY <1>0, <1>2, <2>1, <2>4, <3>1, EndedShape DEF SameNotes
  <2> QED BY <2>3, <2>4
<1>3. CASE P.phase # "prep" /\ P.phase # "body"
  <2> DEFINE F == [P EXCEPT !.errors = TRUE]
  <2>1. F \in Process /\ SameNotes(P, F) /\ F.failed = P.failed /\ F.errors /\ F.block = P.block
        /\ F.receipt = P.receipt /\ F.ignored = P.ignored
    BY DEF Process, SameNotes
  <2>2. Raised(x, P) = IF Current(x)[1] = "close" THEN Ended(F) ELSE NextBlock(x, F)
    BY <1>3 DEF Raised
  <2> HIDE DEF F
  <2>3. CASE P.block < Len(c[x].final) /\ Current(x)[1] # "close"
    <3>1. Raised(x, P) = NextBlock(x, F) BY <2>2, <2>3
    <3> QED BY <1>0, <1>3, <2>1, <2>3, <3>1, NextBlockShape DEF SameNotes
  <2>4. CASE ~(P.block < Len(c[x].final)) \/ Current(x)[1] = "close"
    <3>1. Raised(x, P) = Ended(F) BY <2>1, <2>2, <2>4, NextBlockShape
    <3> QED BY <1>0, <1>3, <2>1, <2>4, <3>1, EndedShape DEF SameNotes
  <2> QED BY <2>3, <2>4
<1> QED BY <1>1, <1>2, <1>3

Others(x) == proc' \in [Procs -> Process] /\ \A y \in Procs \ {x} : proc'[y] = proc[y]

\* A step that succeeds takes the process behind it.
LEMMA OkMoves ==
  ASSUME Types, Controlled, NEW x \in Procs, StepOk(x)
  PROVE  /\ Others(x) /\ Advance(x) /\ proc'[x].ignored = proc[x].ignored
         /\ SameNotes(IF Skipped(x, Current(x)) THEN proc[x] ELSE Noted(proc[x], Current(x)), proc'[x])
         /\ ~Skipped(x, Current(x)) => Ok(x, Current(x)) /\ ~Waits(Current(x)[1])
<1> DEFINE s == Current(x)
           P == IF Skipped(x, s) THEN proc[x] ELSE Noted(proc[x], s)
<1>0. Running(x) BY DEF StepOk
<1>1. /\ Steps(x) \in Seq(STRING \X STRING) /\ proc[x].pos \in 1 .. Len(Steps(x))
      /\ s \in STRING \X STRING /\ <<x, proc[x].phase>> \in Home(s[1])
      /\ proc[x].phase = "prep" => Steps(x) = c[x].prep
  BY <1>0, AtStep
<1>2. proc[x] \in Process /\ proc \in [Procs -> Process] BY DEF Types
<1>3. /\ P \in Process /\ P.phase = proc[x].phase /\ P.block = proc[x].block /\ P.pos = proc[x].pos
      /\ P.failed = proc[x].failed /\ P.errors = proc[x].errors /\ P.ignored = proc[x].ignored
      /\ P.receipt = IF s[1] = "reserve" /\ ~Skipped(x, s) THEN "open" ELSE proc[x].receipt
  BY <1>1, <1>2, NotedShape
<1>4. proc' = [proc EXCEPT ![x] = Onward(x, P)] BY DEF StepOk
<1>5. Skipped(x, s) \/ (Ok(x, s) /\ ~Waits(s[1]) /\ ~Reserved(x, s)) BY DEF StepOk
<1>6. Shaped(c) BY Formed
<1>7. s[1] = "reserve" <=> proc[x].phase = "prep" /\ proc[x].pos = Len(Steps(x))
  <2>1. CASE proc[x].phase = "prep"
    <3>1. s = c[x].prep[proc[x].pos] BY <1>1, <2>1 DEF Current
    <3>2. \A i \in 1 .. Len(c[x].prep) : (c[x].prep[i][1] = "reserve") <=> (i = Len(c[x].prep))
      BY <1>6, Zenon DEF Shaped
    <3>3. proc[x].pos \in 1 .. Len(c[x].prep) /\ Steps(x) = c[x].prep BY <1>1, <2>1
    <3>4. s[1] = c[x].prep[proc[x].pos][1] BY <3>1
    <3> QED BY <2>1, <3>2, <3>3, <3>4
  <2>2. CASE proc[x].phase # "prep"
    <3>1. SUFFICES s[1] # "reserve" BY <2>2
    <3>2. SUFFICES ASSUME s[1] = "reserve" PROVE FALSE OBVIOUS
    <3>3. <<x, proc[x].phase>> \in Procs \X {"prep"} BY <1>1, <3>2 DEF Home
    <3> QED BY <2>2, <3>3
  <2> QED BY <2>1, <2>2
<1>8. s[1] = "reserve" => ~Skipped(x, s) /\ proc[x].receipt = None
  BY <1>5, <1>7 DEF Skipped, Reserved
<1> HIDE DEF P, s
<1>9. PICK n \in Nat : n = Len(Steps(x)) BY <1>1
<1>10. proc'[x] = Onward(x, P) /\ Others(x)
  <2>1. Onward(x, P) \in Process BY <1>1, <1>3, <1>9, OnwardShape
  <2> QED BY <1>2, <1>4, <2>1 DEF Others
<1>11. SameNotes(P, proc'[x]) BY <1>1, <1>3, <1>9, <1>10, OnwardShape
<1>12. /\ proc'[x].failed = proc[x].failed /\ proc'[x].errors = proc[x].errors
       /\ proc'[x].ignored = proc[x].ignored
  BY <1>1, <1>3, <1>9, <1>10, OnwardShape
<1>13. ASSUME P.pos < n PROVE Advance(x)
  <2>1. /\ proc'[x].pos = P.pos + 1 /\ proc'[x].phase = P.phase
        /\ proc'[x].block = P.block /\ proc'[x].receipt = P.receipt
    BY <1>1, <1>3, <1>9, <1>10, <1>13, OnwardShape
  <2>2. P.receipt = proc[x].receipt BY <1>1, <1>3, <1>7, <1>9, <1>13
  <2> QED BY <1>3, <1>9, <1>12, <1>13, <2>1, <2>2 DEF Advance
<1>14. ASSUME P.pos = n, P.phase = "prep" PROVE Advance(x)
  <2>1. /\ proc'[x].pos = 1 /\ proc'[x].phase = "body"
        /\ proc'[x].block = P.block /\ proc'[x].receipt = P.receipt
    BY <1>1, <1>3, <1>9, <1>10, <1>14, OnwardShape
  <2>2. P.receipt = "open" /\ proc[x].receipt = None BY <1>1, <1>3, <1>7, <1>8, <1>9, <1>14
  <2> QED BY <1>3, <1>9, <1>12, <1>14, <2>1, <2>2 DEF Advance
<1>15. ASSUME P.pos = n, P.phase # "prep" PROVE Advance(x)
  <2>1. proc'[x] = NextBlock(x, P) BY <1>1, <1>3, <1>9, <1>10, <1>15, OnwardShape
  <2>2. P.block \in Nat /\ Len(c[x].final) \in Nat
    <3>1. c[x].final \in Seq(Seq(STRING \X STRING)) BY <1>6, Parts
    <3> QED BY <1>3, <3>1 DEF Process
  <2>3. P.receipt = proc[x].receipt BY <1>1, <1>3, <1>7, <1>9, <1>15
  <2>4. CASE P.block < Len(c[x].final)
    <3>1. /\ proc'[x].phase = "final" /\ proc'[x].block = P.block + 1
          /\ proc'[x].pos = 1 /\ proc'[x].receipt = P.receipt
      BY <1>3, <2>1, <2>4, NextBlockShape
    <3> QED BY <1>3, <1>9, <1>12, <1>15, <2>3, <2>4, <3>1 DEF Advance, K
  <2>5. CASE ~(P.block < Len(c[x].final))
    <3>1. proc'[x] = Ended(P) BY <1>3, <2>1, <2>5, NextBlockShape
    <3>2. P.block >= Len(c[x].final) BY <2>2, <2>5
    <3>3. /\ proc'[x].phase = "done" /\ proc'[x].block = 0 /\ proc'[x].pos = 1
          /\ proc'[x].receipt = IF P.failed \/ P.errors THEN "failed" ELSE "passed"
      BY <1>3, <3>1, EndedShape
    <3> QED BY <1>3, <1>9, <1>12, <1>15, <3>2, <3>3 DEF Advance, K
  <2> QED BY <2>4, <2>5
<1>16. P.pos < n \/ P.pos = n BY <1>1, <1>3, <1>9
<1>17. Advance(x) BY <1>13, <1>14, <1>15, <1>16
<1> QED BY <1>5, <1>10, <1>11, <1>12, <1>17 DEF P, s

\* An exception takes it out of its block.
LEMMA RaiseMoves ==
  ASSUME Types, Controlled, NEW x \in Procs, Running(x), NEW P,
         P = proc[x] \/ (Current(x)[1] = "watch" /\ P = Noted(proc[x], Current(x))),
         proc' = [proc EXCEPT ![x] = Raised(x, P)]
  PROVE  /\ Others(x) /\ Raise(x)
         /\ SameNotes(P, proc'[x]) /\ proc'[x].ignored = proc[x].ignored
<1>1. Current(x) \in STRING \X STRING BY AtStep
<1>2. proc[x] \in Process /\ proc \in [Procs -> Process] BY DEF Types
<1>3. /\ P \in Process /\ P.phase = proc[x].phase /\ P.block = proc[x].block /\ P.pos = proc[x].pos
      /\ P.failed = proc[x].failed /\ P.errors = proc[x].errors /\ P.receipt = proc[x].receipt
      /\ P.ignored = proc[x].ignored
  <2>1. CASE P = proc[x] BY <1>2, <2>1
  <2>2. CASE Current(x)[1] = "watch" /\ P = Noted(proc[x], Current(x)) BY <1>1, <1>2, <2>2, NotedShape
  <2> QED BY <2>1, <2>2
<1>4. c[x].final \in Seq(Seq(STRING \X STRING)) BY Formed, Parts
<1>5. Raised(x, P) \in Process BY <1>3, <1>4, RaisedShape
<1>6. proc'[x] = Raised(x, P) /\ Others(x) BY <1>2, <1>5 DEF Others
<1>7. ASSUME P.phase = "prep" PROVE Raise(x)
  BY <1>3, <1>4, <1>6, <1>7, RaisedShape DEF Raise
<1>8. ASSUME P.phase # "prep" PROVE Raise(x)
  <2>1. P.phase \in {"body", "final"} BY <1>3, <1>8 DEF Running
  <2> QED BY <1>3, <1>4, <1>6, <1>8, <2>1, RaisedShape DEF Raise, K
<1> QED BY <1>3, <1>4, <1>6, <1>7, <1>8, RaisedShape

-----------------------------------------------------------------------------
(* What a step does to the world.                                          *)

\* What an operation leaves alone, field by field.
LeavesAlone(op, W) ==
  /\ op \notin {"make", "remove"} => W.fixture = w.fixture
  /\ op \notin {"up", "down", "remove"} => W.collector = w.collector
  /\ op # "ask" => W.request = w.request
  /\ W.handled = w.handled
  /\ op # "cursor" => W.journal = w.journal
  /\ op \notin {"counts", "drain", "pages"} => W.got = w.got
  /\ op \notin {"counts", "traffic"} => W.sent = w.sent
  /\ op # "target" => W.target = w.target
  /\ op # "counts" => W.base = w.base
  /\ op \notin {"watch", "unwatch"} => W.monitors = w.monitors
  /\ op \notin {"keys", "erase"} => W.keys = w.keys
  /\ W.tmm.tmm = w.tmm.tmm
  /\ op \notin {"load", "revoke"} => W.tmm.slot = w.tmm.slot
  /\ op \notin {"arm", "disarm"} => W.tmm.text = w.tmm.text
  /\ op # "traffic" => W.tmm.fired = w.tmm.fired

\* What it does to the others.
Effects(op, p, W) ==
  /\ op = "make" => W.fixture = "up"
  /\ op = "remove" => W.fixture = "removed" /\ W.collector = "absent"
  /\ op = "up" => W.collector = "up"
  /\ op = "down" => W.collector = IF w.collector = "absent" THEN "absent" ELSE "stopped"
  /\ op = "drain" => W.got = [q \in Ps |-> w.got[q] + w.tmm.ring[q]]
  /\ op = "target" => W.target = [q \in Ps |-> w.tmm.fired[q] - w.base[q]]
  /\ op = "pages" => W.got = w.journal
  /\ op = "watch" => W.monitors = w.monitors \union {p}
  /\ op = "unwatch" => W.monitors = w.monitors \ {p}
  /\ op = "keys" => W.keys
  /\ op = "erase" => ~W.keys
  /\ op = "load" => \A q \in Ps : W.tmm.slot[q] = IF q = p THEN U.obj[p] ELSE w.tmm.slot[q]
  /\ op = "revoke" => \A q \in Ps : W.tmm.slot[q] = IF q = p THEN NoObject ELSE w.tmm.slot[q]
  /\ op = "arm" => \A q \in Ps : W.tmm.text[q] = IF q = p THEN "call" ELSE w.tmm.text[q]
  /\ op = "disarm" => \A q \in Ps : W.tmm.text[q] = IF q = p THEN "nop" ELSE w.tmm.text[q]
  /\ op = "traffic" =>
       /\ (\A q \in Ps : w.tmm.text[q] = "nop") => W.tmm.fired = w.tmm.fired /\ W.sent = w.sent

LEMMA FireShape ==
  ASSUME NEW t \in Tmm
  PROVE  /\ Fire(t) \in Tmm /\ Fire(t).tmm = t.tmm /\ Fire(t).slot = t.slot /\ Fire(t).text = t.text
         /\ Fire(t).dropped = t.dropped
         /\ (\A q \in Ps : t.text[q] = "nop") => Fire(t).fired = t.fired
<1> DEFINE f == [p \in Ps |-> IF t.text[p] = "call" /\ t.slot[p] # NoObject THEN t.fired[p] + 1 ELSE t.fired[p]]
           r == [p \in Ps |-> IF t.text[p] = "call" /\ t.slot[p] # NoObject THEN t.ring[p] + 1 ELSE t.ring[p]]
<1>1. Fire(t) = [t EXCEPT !.fired = f, !.ring = r] BY DEF Fire
<1>2. f \in Counts /\ r \in Counts BY DEF Tmm, Counts
<1>3. (\A q \in Ps : t.text[q] = "nop") => f = t.fired BY DEF Tmm, Counts
<1> HIDE DEF f, r
<1> QED BY <1>1, <1>2, <1>3 DEF Tmm

LEMMA CountedOnce ==
  ASSUME NEW f \in Counts, NEW p
  PROVE  [f EXCEPT ![p] = @ + 1] \in Counts
<1>1. CASE p \in Ps
  <2>1. f[p] + 1 \in Int BY <1>1 DEF Counts
  <2> QED BY <1>1, <2>1 DEF Counts
<1>2. CASE p \notin Ps BY <1>2 DEF Counts
<1> QED BY <1>1, <1>2

LEMMA WorldDoShape ==
  ASSUME Types, NEW op \in WorldOps, NEW p \in STRING,
         op = "load" /\ p \in Ps => U.obj[p] \in Bytes
  PROVE  /\ WorldDo(op, p) \in World
         /\ LeavesAlone(op, WorldDo(op, p)) /\ Effects(op, p, WorldDo(op, p))
<1> DEFINE W == WorldDo(op, p)
<1>1. w \in World /\ w.tmm \in Tmm BY DEF Types, World
<1>2. NoObject \in Bytes /\ Zero(Ps) \in Counts BY DEF NoObject, Bytes, Zero, Counts
<1>3. CASE op = "load"
  BY <1>1, <1>2, <1>3 DEF WorldDo, World, Tmm, Objects, LeavesAlone, Effects
<1>4. CASE op = "arm"
  <2> DEFINE t == [w.tmm EXCEPT !.text[p] = "call"]
             n == [w.patches EXCEPT ![p] = @ + 1]
  <2>1. W = [w EXCEPT !.tmm = t, !.patches = n] BY <1>1, <1>4 DEF WorldDo, World
  <2>2. /\ t \in Tmm /\ t.tmm = w.tmm.tmm /\ t.slot = w.tmm.slot /\ t.fired = w.tmm.fired
        /\ \A q \in Ps : t.text[q] = IF q = p THEN "call" ELSE w.tmm.text[q]
    BY <1>1 DEF Tmm
  <2>3. n \in Counts BY <1>1, CountedOnce DEF World
  <2> HIDE DEF t, n, W
  <2>4. W \in World BY <1>1, <2>1, <2>2, <2>3 DEF World
  <2>5. LeavesAlone(op, W) BY <1>1, <1>4, <2>1, <2>2 DEF World, LeavesAlone
  <2>6. Effects(op, p, W) BY <1>1, <1>4, <2>1, <2>2 DEF World, Effects
  <2> QED BY <2>4, <2>5, <2>6 DEF W
<1>5. CASE op = "disarm"
  BY <1>1, <1>2, <1>5 DEF WorldDo, World, Tmm, Objects, LeavesAlone, Effects
<1>6. CASE op = "revoke"
  BY <1>1, <1>2, <1>6 DEF WorldDo, World, Tmm, Objects, LeavesAlone, Effects
<1>7. CASE op = "counts"
  BY <1>1, <1>2, <1>7 DEF WorldDo, World, Tmm, LeavesAlone, Effects, T
<1>8. CASE op = "traffic"
  <2> DEFINE n == [q \in Ps |-> w.sent[q] + (IF Runs(q) THEN 1 ELSE 0)]
  <2>1. W = [w EXCEPT !.tmm = Fire(T), !.sent = n] BY <1>8 DEF WorldDo
  <2>2. n \in Counts BY <1>1 DEF World, Counts
  <2>3. (\A q \in Ps : w.tmm.text[q] = "nop") => n = w.sent
    <3>1. SUFFICES ASSUME \A q \in Ps : w.tmm.text[q] = "nop" PROVE n = w.sent OBVIOUS
    <3>2. \A q \in Ps : ~Runs(q) BY <3>1 DEF Runs, T
    <3> QED BY <1>1, <3>2 DEF World, Counts
  <2>4. Fire(T) \in Tmm /\ Fire(T).tmm = w.tmm.tmm /\ Fire(T).slot = w.tmm.slot /\ Fire(T).text = w.tmm.text
        /\ ((\A q \in Ps : w.tmm.text[q] = "nop") => Fire(T).fired = w.tmm.fired)
    BY <1>1, FireShape DEF T
  <2> HIDE DEF n, W
  <2>5. W \in World BY <1>1, <2>1, <2>2, <2>4 DEF World
  <2>6. LeavesAlone(op, W) BY <1>1, <1>8, <2>1, <2>4 DEF World, LeavesAlone
  <2>7. Effects(op, p, W) BY <1>1, <1>8, <2>1, <2>3, <2>4 DEF World, Effects
  <2> QED BY <2>5, <2>6, <2>7 DEF W
<1>9. CASE op = "mark"
  BY <1>1, <1>2, <1>9 DEF WorldDo, World, Tmm, LeavesAlone, Effects, T
<1>10. CASE op = "target"
  BY <1>1, <1>2, <1>10 DEF WorldDo, World, Tmm, Counts, LeavesAlone, Effects, T
<1>11. CASE op = "drain"
  <2> DEFINE t == [w.tmm EXCEPT !.ring = Zero(Ps)]
             n == [q \in Ps |-> w.got[q] + w.tmm.ring[q]]
  <2>1. W = [w EXCEPT !.got = n, !.tmm = t] BY <1>1, <1>11 DEF WorldDo, World, T
  <2>2. /\ t \in Tmm /\ t.tmm = w.tmm.tmm /\ t.slot = w.tmm.slot /\ t.fired = w.tmm.fired
        /\ t.text = w.tmm.text
    BY <1>1, <1>2 DEF Tmm
  <2>3. n \in Counts BY <1>1 DEF World, Tmm, Counts
  <2> HIDE DEF t, W
  <2>4. W \in World BY <1>1, <2>1, <2>2, <2>3 DEF World
  <2>5. LeavesAlone(op, W) BY <1>1, <1>11, <2>1, <2>2 DEF World, LeavesAlone
  <2>6. Effects(op, p, W) BY <1>1, <1>11, <2>1, <2>2 DEF World, Effects
  <2> QED BY <2>4, <2>5, <2>6 DEF W
<1>12. CASE op = "discard"
  BY <1>1, <1>2, <1>12 DEF WorldDo, World, Tmm, LeavesAlone, Effects, T
<1>13. CASE op \in {"cursor", "pages", "watch", "unwatch"}
  <2>1. CASE op = "cursor" BY <1>1, <1>2, <2>1 DEF WorldDo, World, LeavesAlone, Effects
  <2>2. CASE op = "pages" BY <1>1, <1>2, <2>2 DEF WorldDo, World, LeavesAlone, Effects
  <2>3. CASE op = "watch" BY <1>1, <1>2, <2>3 DEF WorldDo, World, LeavesAlone, Effects
  <2>4. CASE op = "unwatch" BY <1>1, <1>2, <2>4 DEF WorldDo, World, LeavesAlone, Effects
  <2> QED BY <1>13, <2>1, <2>2, <2>3, <2>4
<1>14. CASE op \in {"up", "down", "ask", "make"}
  <2>1. CASE op = "up" BY <1>1, <1>2, <2>1 DEF WorldDo, World, LeavesAlone, Effects
  <2>2. CASE op = "down"
    <3>1. PICK s \in {"absent", "stopped"} : s = IF w.collector = "absent" THEN "absent" ELSE "stopped"
      OBVIOUS
    <3>2. WorldDo(op, p) = [w EXCEPT !.collector = s] BY <2>2, <3>1 DEF WorldDo
    <3> QED BY <1>1, <2>2, <3>1, <3>2 DEF World, LeavesAlone, Effects
  <2>3. CASE op = "ask" BY <1>1, <1>2, <2>3 DEF WorldDo, World, LeavesAlone, Effects
  <2>4. CASE op = "make" BY <1>1, <1>2, <2>4 DEF WorldDo, World, LeavesAlone, Effects
  <2> QED BY <1>14, <2>1, <2>2, <2>3, <2>4
<1>15. CASE op \in {"remove", "keys", "erase"}
  <2>1. CASE op = "remove" BY <1>1, <2>1 DEF WorldDo, World, LeavesAlone, Effects
  <2>2. CASE op = "keys" BY <1>1, <2>2 DEF WorldDo, World, LeavesAlone, Effects
  <2>3. CASE op = "erase" BY <1>1, <2>3 DEF WorldDo, World, LeavesAlone, Effects
  <2> QED BY <1>15, <2>1, <2>2, <2>3
<1> QED BY <1>3, <1>4, <1>5, <1>6, <1>7, <1>8, <1>9, <1>10, <1>11, <1>12, <1>13, <1>14, <1>15 DEF WorldOps

-----------------------------------------------------------------------------
(* What a step of a build does to its directory.                           *)

LEMMA Newest ==
  ASSUME Types, built # << >>
  PROVE  Len(built) \in Nat \ {0} /\ B \in Directory
BY DEF Types, B

LEMMA BuiltStep ==
  ASSUME Types, built # << >>, NEW D \in Directory, built' = [built EXCEPT ![Len(built)] = D]
  PROVE  /\ built' \in Seq(Directory) /\ Len(built') = Len(built) /\ built'[Len(built)] = D
         /\ built' # << >>
         /\ \A n \in 1 .. Len(built) : n # Len(built) => built'[n] = built[n]
<1>1. built \in Seq(Directory) /\ Len(built) \in 1 .. Len(built) BY DEF Types
<1>2. PICK i \in 1 .. Len(built) : i = Len(built) BY <1>1
<1>3. /\ [built EXCEPT ![i] = D] \in Seq(Directory)
      /\ Len([built EXCEPT ![i] = D]) = Len(built)
      /\ \A j \in 1 .. Len(built) : [built EXCEPT ![i] = D][j] = IF j = i THEN D ELSE built[j]
  BY <1>1, ExceptSeq
<1>4. built' = [built EXCEPT ![i] = D] BY <1>2
<1> QED BY <1>1, <1>2, <1>3, <1>4

\* What an operation on p does to the directory D.
Fills(op, p, D) ==
  /\ D.passed = B.passed
  /\ D.rec = IF op = "sources" THEN src ELSE B.rec
  /\ \A q \in Ps : <<op, p>> \notin Changes(q) => D.obj[q] = B.obj[q]
  /\ p \in Ps => /\ op = "compile" => D.obj[p].src = src
                 /\ op = "import" => D.obj[p].src = 0
                 /\ op = "transform" => D.obj[p].src = B.obj[p].src
  /\ \A q \in Ps : q # p \/ op # "prevail" => D.prevail[q] = B.prevail[q]
  /\ \A q \in Ps : q # p \/ op # "native" => D.native[q] = B.native[q]
  /\ \A q \in Ps : q # p \/ op # "digest" => D.digest[q] = B.digest[q]
  /\ \A q \in Ps : q # p \/ op \notin {"sign", "import"} => D.sig[q] = B.sig[q]
  /\ op \in Checks /\ p \in Ps => Made(D, op)[p] = D.obj[p]

LEMMA BuildDoShape ==
  ASSUME Types, built # << >>, NEW op \in BuildOps, NEW p \in STRING
  PROVE  BuildDo(op, p) \in Directory /\ Fills(op, p, BuildDo(op, p))
<1>1. B \in Directory BY Newest
<1>2. src \in Nat BY DEF Types
<1>3. CASE op = "sources"
  BY <1>1, <1>2, <1>3 DEF BuildDo, Directory, Fills, Made, Checks, Changes
<1>4. CASE op = "compile"
  <2> DEFINE D == [B EXCEPT !.obj[p] = [src |-> src, form |-> 1]]
  <2>1. BuildDo(op, p) = D BY <1>4 DEF BuildDo
  <2>2. [src |-> src, form |-> 1] \in Bytes BY <1>2 DEF Bytes
  <2>3. D \in Directory BY <1>1, <2>2 DEF Directory, Objects
  <2>4. Fills(op, p, D) BY <1>1, <1>4 DEF Directory, Objects, Fills, Checks, Changes
  <2> QED BY <2>1, <2>3, <2>4
<1>5. CASE op = "import"
  <2> DEFINE D == [B EXCEPT !.obj[p] = Earlier, !.sig[p] = Earlier]
  <2>1. BuildDo(op, p) = D BY <1>5 DEF BuildDo
  <2>2. Earlier \in Bytes /\ Earlier.src = 0 BY DEF Bytes, Earlier
  <2>3. D \in Directory BY <1>1, <2>2 DEF Directory, Objects
  <2>4. Fills(op, p, D) BY <1>1, <1>5, <2>2 DEF Directory, Objects, Fills, Checks, Changes, Made
  <2> QED BY <2>1, <2>3, <2>4
<1>6. CASE op = "transform"
  <2> DEFINE D == [B EXCEPT !.obj[p].form = @ + 1]
  <2>1. BuildDo(op, p) = D BY <1>6 DEF BuildDo
  <2>2. CASE p \in Ps
    <3> DEFINE n == [B.obj[p] EXCEPT !.form = @ + 1]
    <3>1. B.obj[p] \in Bytes BY <1>1, <2>2 DEF Directory, Objects
    <3>2. n \in Bytes /\ n.src = B.obj[p].src BY <3>1 DEF Bytes
    <3>3. D = [B EXCEPT !.obj = [B.obj EXCEPT ![p] = n]] OBVIOUS
    <3> HIDE DEF n, D
    <3>4. D \in Directory BY <1>1, <3>2, <3>3 DEF Directory, Objects
    <3>5. Fills(op, p, D) BY <1>1, <1>6, <3>2, <3>3 DEF Directory, Objects, Fills, Checks, Changes, Made
    <3> QED BY <2>1, <3>4, <3>5
  <2>3. CASE p \notin Ps
    <3>1. D = B BY <1>1, <2>3 DEF Directory, Objects
    <3>2. Fills(op, p, B) BY <1>6, <2>3 DEF Fills, Checks, Changes
    <3> QED BY <1>1, <2>1, <3>1, <3>2
  <2> QED BY <2>2, <2>3
<1>7. CASE op \in {"prevail", "native", "sign", "digest"}
  <2>1. p \in Ps => B.obj[p] \in Bytes BY <1>1 DEF Directory, Objects
  <2>2. BuildDo(op, p) \in Directory BY <1>1, <1>7, <2>1 DEF BuildDo, Directory, Objects
  <2>3. Fills(op, p, BuildDo(op, p))
    BY <1>1, <1>7, <2>1 DEF BuildDo, Directory, Objects, Fills, Checks, Changes, Made
  <2> QED BY <2>2, <2>3
<1> QED BY <1>3, <1>4, <1>5, <1>6, <1>7 DEF BuildOps

-----------------------------------------------------------------------------
(* The steps of a process, by what becomes of them.                        *)

Acts(x) == StepOk(x) \/ StepRaises(x) \/ StepIgnored(x) \/ \E lost \in BOOLEAN : StepFaults(x, lost)

\* The step takes effect and the process goes on.
Passes(x) ==
  LET s == Current(x) IN
  /\ Advance(x) /\ ~Skipped(x, s) /\ Ok(x, s) /\ ~Waits(s[1]) /\ Takes(s) /\ hurt' = hurt
  /\ SameNotes(Noted(proc[x], s), proc'[x])

\* A refused stop is not looked at.
Ignores(x) == x = "live" /\ proc[x].phase = "final" /\ Current(x)[1] = "down" /\ proc'[x].ignored

\* The process goes on without it.
Skips(x) ==
  /\ Advance(x) /\ (Skipped(x, Current(x)) \/ Ignores(x))
  /\ Leaves /\ hurt' = hurt /\ SameNotes(proc[x], proc'[x])

\* The step takes effect and is an exception all the same.
Backfires(x) ==
  LET s == Current(x) IN
  /\ Raise(x) /\ ~Skipped(x, s) /\ s[1] \in WorldOps /\ Takes(s)
  /\ hurt' \/ (hurt' = hurt /\ s[1] \in {"watch", "unwatch"})
  /\ hurt' => s[1] \in {"watch", "unwatch"} \/ Ok(x, s)
  /\ SameNotes(IF s[1] = "watch" THEN Noted(proc[x], s) ELSE proc[x], proc'[x])

\* The step is an exception, and nothing else.
Refused(x) ==
  LET s == Current(x) IN
  /\ Raise(x) /\ Leaves /\ SameNotes(proc[x], proc'[x])
  /\ hurt' \/ (hurt' = hurt /\ (proc[x].phase = "final" =>
                                  ~Ok(x, s) /\ ~Skipped(x, s) /\ s[1] \notin {"watch", "unwatch"}))

StepOf(x) ==
  /\ Running(x) /\ Others(x) /\ c' = c /\ src' = src /\ (hurt => hurt') /\ hurt' \in BOOLEAN
  /\ proc[x].ignored => proc'[x].ignored
  /\ Passes(x) \/ Skips(x) \/ Backfires(x) \/ Refused(x)

LEMMA IgnoredMoves ==
  ASSUME Types, Controlled, NEW x \in Procs, StepIgnored(x)
  PROVE  StepOf(x)
<1> DEFINE P == [proc[x] EXCEPT !.ignored = TRUE]
<1>0. Running(x) /\ Current(x) = <<"down", "unchecked">> BY DEF StepIgnored
<1>1. /\ Steps(x) \in Seq(STRING \X STRING) /\ proc[x].pos \in 1 .. Len(Steps(x))
      /\ <<x, proc[x].phase>> \in Home("down")
  BY <1>0, AtStep
<1>2. x = "live" /\ proc[x].phase = "final" BY <1>1 DEF Home
<1>3. proc[x] \in Process /\ proc \in [Procs -> Process] /\ hurt \in BOOLEAN BY DEF Types
<1>4. /\ P \in Process /\ P.phase = proc[x].phase /\ P.block = proc[x].block /\ P.pos = proc[x].pos
      /\ P.failed = proc[x].failed /\ P.errors = proc[x].errors /\ P.receipt = proc[x].receipt
      /\ P.ignored /\ SameNotes(proc[x], P)
  BY <1>3 DEF Process, SameNotes
<1>5. /\ proc' = [proc EXCEPT ![x] = Onward(x, P)] /\ Leaves /\ c' = c /\ src' = src /\ hurt' = hurt
  BY DEF StepIgnored
<1> HIDE DEF P
<1>6. PICK n \in Nat : n = Len(Steps(x)) BY <1>1
<1>7. proc'[x] = Onward(x, P) /\ Others(x)
  <2>1. Onward(x, P) \in Process BY <1>1, <1>4, <1>6, OnwardShape
  <2> QED BY <1>3, <1>5, <2>1 DEF Others
<1>8. /\ SameNotes(P, proc'[x]) /\ proc'[x].ignored = P.ignored
      /\ proc'[x].failed = proc[x].failed /\ proc'[x].errors = proc[x].errors
  <2>1. P.pos <= n BY <1>1, <1>4, <1>6
  <2>2. /\ SameNotes(P, Onward(x, P)) /\ Onward(x, P).ignored = P.ignored
        /\ Onward(x, P).failed = P.failed /\ Onward(x, P).errors = P.errors
    BY <1>4, <1>6, <2>1, OnwardShape
  <2> QED BY <1>4, <1>7, <2>2, Zenon
<1>9. ASSUME P.pos < n PROVE Advance(x)
  <2>1. /\ proc'[x].pos = P.pos + 1 /\ proc'[x].phase = P.phase
        /\ proc'[x].block = P.block /\ proc'[x].receipt = P.receipt
    BY <1>1, <1>4, <1>6, <1>7, <1>9, OnwardShape
  <2> QED BY <1>4, <1>6, <1>8, <1>9, <2>1 DEF Advance
<1>10. ASSUME P.pos = n PROVE Advance(x)
  <2>1. proc'[x] = NextBlock(x, P) BY <1>1, <1>2, <1>4, <1>6, <1>7, <1>10, OnwardShape
  <2>2. P.block \in Nat /\ Len(c[x].final) \in Nat
    <3>1. c[x].final \in Seq(Seq(STRING \X STRING)) BY Formed, Parts
    <3> QED BY <1>4, <3>1 DEF Process
  <2>3. CASE P.block < Len(c[x].final)
    <3>1. /\ proc'[x].phase = "final" /\ proc'[x].block = P.block + 1
          /\ proc'[x].pos = 1 /\ proc'[x].receipt = P.receipt
      BY <1>4, <2>1, <2>3, NextBlockShape
    <3> QED BY <1>2, <1>4, <1>6, <1>8, <1>10, <2>3, <3>1 DEF Advance, K
  <2>4. CASE ~(P.block < Len(c[x].final))
    <3>1. proc'[x] = Ended(P) BY <1>4, <2>1, <2>4, NextBlockShape
    <3>2. P.block >= Len(c[x].final) BY <2>2, <2>4
    <3>3. /\ proc'[x].phase = "done" /\ proc'[x].block = 0 /\ proc'[x].pos = 1
          /\ proc'[x].receipt = IF P.failed \/ P.errors THEN "failed" ELSE "passed"
      BY <1>4, <3>1, EndedShape
    <3> QED BY <1>2, <1>4, <1>6, <1>8, <1>10, <3>2, <3>3 DEF Advance, K
  <2> QED BY <2>3, <2>4
<1>11. Advance(x) BY <1>1, <1>4, <1>6, <1>9, <1>10
<1>12. SameNotes(proc[x], proc'[x]) BY <1>4, <1>8 DEF SameNotes
<1>13. Ignores(x) BY <1>0, <1>2, <1>4, <1>8 DEF Ignores
<1>14. Skips(x) BY <1>5, <1>11, <1>12, <1>13 DEF Skips
<1> QED BY <1>0, <1>3, <1>4, <1>5, <1>7, <1>8, <1>14 DEF StepOf

LEMMA ActsShape ==
  ASSUME Types, Controlled, NEW x \in Procs, Acts(x)
  PROVE  StepOf(x)
<1> DEFINE s == Current(x)
<1>0. Running(x) BY DEF Acts, StepOk, StepRaises, StepIgnored, StepFaults
<1>1. s \in STRING \X STRING /\ <<x, proc[x].phase>> \in Home(s[1]) BY <1>0, AtStep
<1>2. hurt \in BOOLEAN /\ proc[x] \in Process BY DEF Types
<1>3. CASE StepOk(x)
  <2>1. /\ Others(x) /\ Advance(x) /\ proc'[x].ignored = proc[x].ignored
        /\ SameNotes(IF Skipped(x, s) THEN proc[x] ELSE Noted(proc[x], s), proc'[x])
        /\ ~Skipped(x, s) => Ok(x, s) /\ ~Waits(s[1])
    BY <1>3, OkMoves
  <2>2. /\ IF Skipped(x, s) THEN Leaves ELSE Takes(s)
        /\ hurt' = hurt /\ c' = c /\ src' = src
    BY <1>3 DEF StepOk
  <2>3. Passes(x) \/ Skips(x) BY <2>1, <2>2 DEF Passes, Skips
  <2> QED BY <1>0, <1>2, <2>1, <2>2, <2>3 DEF StepOf
<1>4. CASE StepRaises(x)
  <2> DEFINE P == IF s[1] = "watch" THEN Noted(proc[x], s) ELSE proc[x]
  <2>1. proc' = [proc EXCEPT ![x] = Raised(x, P)] BY <1>4 DEF StepRaises
  <2>2. P = proc[x] \/ (s[1] = "watch" /\ P = Noted(proc[x], s)) OBVIOUS
  <2>3. Others(x) /\ Raise(x) /\ SameNotes(P, proc'[x]) /\ proc'[x].ignored = proc[x].ignored
    <3> HIDE DEF P
    <3> QED BY <1>0, <2>1, <2>2, RaiseMoves
  <2>4. /\ ~Skipped(x, s) /\ ~Waits(s[1]) /\ (~Ok(x, s) \/ Reserved(x, s))
        /\ IF s[1] \in {"watch", "unwatch"} THEN Takes(s) ELSE Leaves
        /\ hurt' = hurt /\ c' = c /\ src' = src
    BY <1>4 DEF StepRaises
  <2>5. CASE s[1] \in {"watch", "unwatch"}
    <3>1. Backfires(x) BY <2>3, <2>4, <2>5 DEF Backfires, WorldOps
    <3> QED BY <1>0, <1>2, <2>3, <2>4, <3>1 DEF StepOf
  <2>6. CASE s[1] \notin {"watch", "unwatch"}
    <3>1. P = proc[x] BY <2>6
    <3>2. proc[x].phase = "final" => ~Reserved(x, s)
      <4>1. SUFFICES ASSUME proc[x].phase = "final", s[1] = "reserve" PROVE FALSE BY DEF Reserved
      <4>2. <<x, "final">> \in Procs \X {"prep"} BY <1>1, <4>1 DEF Home
      <4> QED BY <4>2
    <3>3. Refused(x) BY <2>3, <2>4, <2>6, <3>1, <3>2 DEF Refused
    <3> QED BY <1>0, <1>2, <2>3, <2>4, <3>3 DEF StepOf
  <2> QED BY <2>5, <2>6
<1>5. ASSUME NEW lost \in BOOLEAN, StepFaults(x, lost) PROVE StepOf(x)
  <2> DEFINE P == IF lost /\ s[1] = "watch" THEN Noted(proc[x], s) ELSE proc[x]
  <2>1. proc' = [proc EXCEPT ![x] = Raised(x, P)] BY <1>5 DEF StepFaults
  <2>2. P = proc[x] \/ (s[1] = "watch" /\ P = Noted(proc[x], s)) OBVIOUS
  <2>3. Others(x) /\ Raise(x) /\ SameNotes(P, proc'[x]) /\ proc'[x].ignored = proc[x].ignored
    <3> HIDE DEF P
    <3> QED BY <1>0, <2>1, <2>2, RaiseMoves
  <2>4. /\ ~Skipped(x, s) /\ (lost => s[1] \in WorldOps /\ Ok(x, s))
        /\ IF lost THEN Takes(s) ELSE Leaves
        /\ hurt' = (hurt \/ lost \/ proc[x].phase = "final") /\ c' = c /\ src' = src
    BY <1>5 DEF StepFaults
  <2>5. CASE lost
    <3>1. Backfires(x) BY <2>3, <2>4, <2>5 DEF Backfires
    <3> QED BY <1>0, <1>2, <2>3, <2>4, <2>5, <3>1 DEF StepOf
  <2>6. CASE ~lost
    <3>1. P = proc[x] BY <2>6
    <3>2. hurt' = (hurt \/ proc[x].phase = "final") BY <2>4, <2>6
    <3>3. Refused(x)
      <4>1. CASE proc[x].phase = "final" BY <2>3, <2>4, <2>6, <3>1, <3>2, <4>1 DEF Refused
      <4>2. CASE proc[x].phase # "final" BY <1>2, <2>3, <2>4, <2>6, <3>1, <3>2, <4>2 DEF Refused
      <4> QED BY <4>1, <4>2
    <3>4. hurt' \in BOOLEAN /\ (hurt => hurt') BY <1>2, <3>2
    <3> QED BY <1>0, <2>3, <2>4, <3>3, <3>4 DEF StepOf
  <2> QED BY <2>5, <2>6
<1>6. CASE StepIgnored(x) BY <1>6, IgnoredMoves
<1> QED BY <1>3, <1>4, <1>5, <1>6 DEF Acts

-----------------------------------------------------------------------------
(* The other ways in which a process moves.                                *)

\* It is started, a build also for a second time.
Begin(x) ==
  /\ Others(x) /\ proc'[x] = Started(x) /\ K[x].body # << >>
  /\ proc[x].phase = "idle" \/ (x = "build" /\ ~Running("build") /\ ~Pending)

\* The driver leaves its suite alone.
Deserts ==
  /\ Others("live") /\ Raise("live") /\ SameNotes(proc["live"], proc'["live"])
  /\ proc["live"].ignored => proc'["live"].ignored
  /\ proc["live"].phase = "body" /\ Current("live")[1] = "suite" /\ Running("live")

\* The driver is started once more.
Again ==
  /\ Others("live") /\ proc["live"].phase = "done" /\ proc["live"].receipt # None
  /\ \A x \in {"cleanup", "reset", "verify"} : proc[x].phase = "idle"
  /\ proc'["live"] = [proc["live"] EXCEPT !.phase = "prep", !.pos = 1]

\* The step that starts it.
Starts(x) ==
  CASE x = "create"  -> BeginCreate
    [] x = "build"   -> BeginBuild
    [] x = "live"    -> BeginLive
    [] x = "suite"   -> StartSuite
    [] x = "cleanup" -> BeginCleanup
    [] x = "reset"   -> BeginBlocked \/ BeginCleanup
    [] x = "verify"  -> BeginVerify

Moves ==
  /\ c' = c /\ (hurt => hurt') /\ proc' \in [Procs -> Process]
  /\ \/ \E x \in Procs : StepOf(x)
     \/ hurt' = hurt /\ (proc' = proc \/ Deserts \/ Again \/ \E x \in Procs : Begin(x) /\ Starts(x))

LEMMA StartedShape ==
  ASSUME Shaped(c), NEW x \in Procs
  PROVE  /\ Started(x) \in Process /\ Started(x).block = 0 /\ Started(x).pos = 1
         /\ ~Started(x).failed /\ ~Started(x).errors /\ Started(x).receipt = None
         /\ Started(x).loaded = {} /\ Started(x).armed = {} /\ Started(x).watching = {}
         /\ ~Started(x).started /\ Started(x).before = 0
         /\ Started(x).phase = IF c[x].prep = << >> THEN "body" ELSE "prep"
BY DEF Started, NewProc, Process, Receipts, None, K

LEMMA AtSuite ==
  ASSUME Types, Controlled, Running("live"), Current("live")[1] = "suite"
  PROVE  /\ proc["live"].phase = "body" /\ In(c.live.body, "suite")
         /\ c.suite.body # << >> /\ c.suite.prep # << >>
         /\ proc["live"].pos \in 1 .. Len(c.live.body) /\ Current("live") = c.live.body[proc["live"].pos]
<1>1. "live" \in Procs /\ "suite" \in Procs BY DEF Procs
<1>2. /\ proc["live"].pos \in 1 .. Len(Steps("live")) /\ <<"live", proc["live"].phase>> \in Home("suite")
      /\ proc["live"].phase = "body" => Steps("live") = c["live"].body
  BY <1>1, AtStep
<1>3. proc["live"].phase = "body" BY <1>2 DEF Home
<1>4. Current("live") = c.live.body[proc["live"].pos] /\ proc["live"].pos \in 1 .. Len(c.live.body)
  BY <1>2, <1>3 DEF Current
<1>5. In(c.live.body, "suite") BY <1>4 DEF In
<1>6. c.suite.body # << >> BY <1>5, Formed DEF UndoesAll
<1>7. c.suite.prep # << >> BY <1>1, <1>6, Formed DEF Shaped
<1> QED BY <1>3, <1>4, <1>5, <1>6, <1>7

LEMMA SuiteBegins ==
  ASSUME Types, Controlled, StartSuite
  PROVE  Begin("suite")
<1>0. "suite" \in Procs BY DEF Procs
<1>1. proc["suite"] = NewProc BY <1>0 DEF StartSuite, Controlled, Control1
<1>2. c.suite.body # << >> /\ c.suite.prep # << >> BY AtSuite DEF StartSuite
<1>3. Started("suite") = [NewProc EXCEPT !.phase = "prep"] BY <1>2 DEF Started, K
<1>4. proc' = [proc EXCEPT !["suite"] = Started("suite")] BY <1>1, <1>3 DEF StartSuite
<1>5. Started("suite") \in Process BY <1>0, StartedShape, Formed
<1>6. Others("suite") /\ proc'["suite"] = Started("suite") BY <1>0, <1>4, <1>5 DEF Others, Types
<1> QED BY <1>2, <1>6 DEF Begin, K, StartSuite

LEMMA BeginsIf ==
  ASSUME Types, NEW x \in Procs, proc' = [proc EXCEPT ![x] = Started(x)], c[x].body # << >>,
         proc[x].phase = "idle" \/ (x = "build" /\ ~Running("build") /\ ~Pending)
  PROVE  Begin(x)
<1>1. Started(x) \in Process BY StartedShape, Formed
<1>2. Others(x) /\ proc'[x] = Started(x) BY <1>1 DEF Others, Types
<1> QED BY <1>2 DEF Begin, K

LEMMA DesertsIf ==
  ASSUME Types, Controlled, Running("live"), Current("live")[1] = "suite",
         proc' = [proc EXCEPT !["live"] = Raised("live", proc["live"])]
  PROVE  Deserts
<1>0. "live" \in Procs BY DEF Procs
<1>1. /\ Others("live") /\ Raise("live") /\ SameNotes(proc["live"], proc'["live"])
      /\ proc'["live"].ignored = proc["live"].ignored
  BY <1>0, RaiseMoves
<1>2. proc["live"].phase = "body" BY AtSuite
<1> QED BY <1>1, <1>2 DEF Deserts

LEMMA AgainIf ==
  ASSUME Types, Rerun
  PROVE  Again
<1>0. "live" \in Procs BY DEF Procs
<1> DEFINE Q == [proc["live"] EXCEPT !.phase = "prep", !.pos = 1]
<1>1. proc' = [proc EXCEPT !["live"] = Q] BY DEF Rerun
<1>p. proc["live"] \in Process BY <1>0 DEF Types
<1>2. Q \in Process BY <1>p DEF Process
<1>3. Others("live") /\ proc'["live"] = Q
  <2> HIDE DEF Q
  <2> QED BY <1>0, <1>1, <1>2 DEF Others, Types
<1> QED BY <1>3 DEF Again, Rerun

\* Every step of the system, by what it does to the processes.
LEMMA NextMoves ==
  ASSUME Types, Controlled, [Next]_vars
  PROVE  Moves
<1>0. proc \in [Procs -> Process] /\ {"create", "build", "live", "suite", "cleanup", "reset", "verify"} = Procs
  BY DEF Types, Procs
<1>1. ASSUME NEW x \in Procs, Acts(x) PROVE Moves
  BY <1>1, ActsShape DEF Moves, StepOf, Others
<1>2. CASE StartSuite
  BY <1>0, <1>2, SuiteBegins DEF Moves, Begin, Others, Starts, StartSuite
<1>3. CASE Control \/ EndBuild \/ Collect \/ Restart \/ Background \/ Drop \/ Edit
  <2>1. c' = c /\ proc' = proc /\ hurt' = hurt
    BY <1>3 DEF Control, EndBuild, Collect, Restart, Background, Drop, Edit
  <2> QED BY <1>0, <2>1 DEF Moves
<1>4. CASE ControlRaises
  BY <1>4, DesertsIf DEF Moves, Deserts, Others, ControlRaises, Controls
<1>5. CASE SuiteTimeout
  BY <1>5, DesertsIf DEF Moves, Deserts, Others, SuiteTimeout
<1>6. CASE BeginCreate
  <2>1. Begin("create") BY <1>0, <1>6, BeginsIf DEF BeginCreate, Fresh, K
  <2> QED BY <1>0, <1>6, <2>1 DEF Moves, Begin, Others, Starts, BeginCreate
<1>7. CASE BeginBuild
  <2>0. c.build.body # << >> BY Formed DEF SignsLast
  <2>1. Begin("build") BY <1>0, <1>7, <2>0, BeginsIf DEF BeginBuild
  <2> QED BY <1>0, <1>7, <2>1 DEF Moves, Begin, Others, Starts, BeginBuild
<1>8. CASE BeginLive
  <2>1. Begin("live") BY <1>0, <1>8, BeginsIf DEF BeginLive, Fresh, K
  <2> QED BY <1>0, <1>8, <2>1 DEF Moves, Begin, Others, Starts, BeginLive
<1>9. CASE BeginBlocked
  <2>1. Begin("reset") BY <1>0, <1>9, BeginsIf DEF BeginBlocked, Fresh, K
  <2> QED BY <1>0, <1>9, <2>1 DEF Moves, Begin, Others, Starts, BeginBlocked
<1>10. CASE BeginCleanup
  <2>1. PICK x \in {"cleanup", "reset"} : Fresh(x) /\ proc' = [proc EXCEPT ![x] = Started(x)]
    BY <1>10 DEF BeginCleanup
  <2>2. Begin(x) BY <1>0, <2>1, BeginsIf DEF Fresh, K
  <2> QED BY <1>0, <1>10, <2>2 DEF Moves, Begin, Others, Starts, BeginCleanup
<1>11. CASE BeginVerify
  <2>1. Begin("verify") BY <1>0, <1>11, BeginsIf DEF BeginVerify, Fresh, K
  <2> QED BY <1>0, <1>11, <2>1 DEF Moves, Begin, Others, Starts, BeginVerify
<1>12. CASE Rerun
  BY <1>12, AgainIf DEF Moves, Again, Others, Rerun
<1>13. CASE UNCHANGED vars
  BY <1>0, <1>13 DEF Moves, vars
<1> QED BY <1>1, <1>2, <1>3, <1>4, <1>5, <1>6, <1>7, <1>8, <1>9, <1>10, <1>11, <1>12, <1>13
     DEF Next, Acts

-----------------------------------------------------------------------------
(* Where the processes are.                                                *)

LEMMA AdvanceControl ==
  ASSUME Types, Controlled, c' = c, NEW x \in Procs, Running(x), Advance(x), proc'[x] \in Process
  PROVE  Control1(x)'
<1> DEFINE P == proc[x]
           Q == proc'[x]
<1>0. Shaped(c) BY Formed
<1>1. Control1(x) BY DEF Controlled
<1>2. /\ Steps(x) \in Seq(STRING \X STRING) /\ P.pos \in 1 .. Len(Steps(x))
      /\ P.phase = "prep" => Steps(x) = c[x].prep
      /\ P.phase = "body" => Steps(x) = c[x].body
      /\ P.phase = "final" => Steps(x) = c[x].final[P.block]
  BY AtStep
<1>3. P.phase \in {"prep", "body", "final"} BY DEF Running
<1>b. c[x].body # << >> BY <1>1, <1>3 DEF Control1, K
<1>4. P.block \in Nat /\ P \in Process BY DEF Types, Process
<1>5. Held(x)' = Held(x) BY DEF Held, K
<1>6. Q.failed = P.failed /\ Q.errors = P.errors BY DEF Advance
<1>7. c[x].final \in Seq(Seq(STRING \X STRING)) /\ c[x].body \in Seq(STRING \X STRING) BY <1>0, Parts
<1>8. CASE /\ P.pos < Len(Steps(x)) /\ Q.pos = P.pos + 1
           /\ Q.phase = P.phase /\ Q.block = P.block /\ Q.receipt = P.receipt
  <2>1. Q.pos \in 1 .. Len(Steps(x)) BY <1>2, <1>8
  <2>2. CASE P.phase = "prep" BY <1>1, <1>2, <1>6, <1>8, <2>1, <2>2, <1>b DEF Control1, K
  <2>3. CASE P.phase = "body" BY <1>1, <1>2, <1>5, <1>6, <1>8, <2>1, <2>3, <1>b DEF Control1, K
  <2>4. CASE P.phase = "final" BY <1>1, <1>2, <1>5, <1>6, <1>8, <2>1, <2>4, <1>b DEF Control1, K
  <2> QED BY <1>3, <2>2, <2>3, <2>4
<1>9. CASE /\ P.pos = Len(Steps(x)) /\ P.phase = "prep" /\ P.receipt = None
           /\ Q.phase = "body" /\ Q.block = P.block /\ Q.pos = 1 /\ Q.receipt = "open"
  <2>1. c[x].prep # << >> BY <1>2, <1>9
  <2>2. c[x].body # << >> BY <1>0, <2>1 DEF Shaped
  <2>3. 1 \in 1 .. Len(c[x].body) BY <1>7, <2>2
  <2>4. Held(x) = "open" BY <2>1 DEF Held, K
  <2>5. ~P.failed /\ ~P.errors /\ P.block = 0 BY <1>1, <1>9 DEF Control1, None
  <2> QED BY <1>5, <1>6, <1>9, <2>3, <2>4, <2>5, <1>b DEF Control1, K
<1>10. CASE /\ P.phase # "prep" /\ P.block < Len(c[x].final)
            /\ Q.phase = "final" /\ Q.block = P.block + 1 /\ Q.pos = 1 /\ Q.receipt = P.receipt
  <2>1. Q.block \in 1 .. Len(c[x].final) BY <1>4, <1>7, <1>10
  <2>2. c[x].final[Q.block] # << >> BY <1>0, <2>1 DEF Shaped
  <2>3. c[x].final[Q.block] \in Seq(STRING \X STRING) BY <1>7, <2>1
  <2>4. 1 \in 1 .. Len(c[x].final[Q.block]) BY <2>2, <2>3
  <2>5. P.receipt = Held(x) BY <1>1, <1>3, <1>10 DEF Control1
  <2>6. Held(x) # "passed" BY DEF Held, None
  <2> QED BY <1>5, <1>10, <2>1, <2>4, <2>5, <2>6, <1>b DEF Control1, K
<1>11. CASE /\ Q.phase = "done" /\ Q.block = 0 /\ Q.pos = 1
            /\ Q.receipt = IF P.failed \/ P.errors THEN "failed" ELSE "passed"
  BY <1>6, <1>11, <1>b DEF Control1, None, K
<1> QED BY <1>8, <1>9, <1>10, <1>11 DEF Advance, K

LEMMA RaiseControl ==
  ASSUME Types, Controlled, c' = c, NEW x \in Procs, Running(x), Raise(x), proc'[x] \in Process
  PROVE  Control1(x)'
<1> DEFINE P == proc[x]
           Q == proc'[x]
<1>0. Shaped(c) BY Formed
<1>1. Control1(x) BY DEF Controlled
<1>3. P.phase \in {"prep", "body", "final"} BY DEF Running
<1>b. c[x].body # << >> BY <1>1, <1>3 DEF Control1, K
<1>4. P.block \in Nat /\ P \in Process BY DEF Types, Process
<1>5. Held(x)' = Held(x) BY DEF Held, K
<1>7. c[x].final \in Seq(Seq(STRING \X STRING)) BY <1>0, Parts
<1>8. CASE /\ P.phase = "prep" /\ Q.phase = "done" /\ Q.block = P.block
           /\ Q.failed = P.failed /\ Q.errors = P.errors /\ Q.receipt = P.receipt
  BY <1>1, <1>8, <1>b DEF Control1, None, K
<1>10. CASE /\ P.phase # "prep" /\ P.block < Len(c[x].final)
            /\ Q.phase = "final" /\ Q.block = P.block + 1 /\ Q.pos = 1 /\ Q.receipt = P.receipt
  <2>1. Q.block \in 1 .. Len(c[x].final) BY <1>4, <1>7, <1>10
  <2>2. c[x].final[Q.block] # << >> BY <1>0, <2>1 DEF Shaped
  <2>3. c[x].final[Q.block] \in Seq(STRING \X STRING) BY <1>7, <2>1
  <2>4. 1 \in 1 .. Len(c[x].final[Q.block]) BY <2>2, <2>3
  <2>5. P.receipt = Held(x) BY <1>1, <1>3, <1>10 DEF Control1
  <2>6. Held(x) # "passed" BY DEF Held, None
  <2> QED BY <1>5, <1>10, <2>1, <2>4, <2>5, <2>6, <1>b DEF Control1, K
<1>11. CASE /\ Q.phase = "done" /\ Q.block = 0 /\ Q.receipt = "failed"
  BY <1>11, <1>b DEF Control1, None, K
<1> QED BY <1>8, <1>10, <1>11 DEF Raise, K

LEMMA ControlledStep ==
  ASSUME Types, Controlled, Moves
  PROVE  Controlled'
<1>0. SUFFICES ASSUME NEW x \in Procs PROVE Control1(x)' BY DEF Controlled
<1>1. c' = c /\ proc'[x] \in Process BY DEF Moves
<1>2. Control1(x) /\ Shaped(c) BY Formed DEF Controlled
<1>3. CASE proc'[x] = proc[x]
  BY <1>1, <1>2, <1>3 DEF Control1, K, Held
<1>4. CASE StepOf(x)
  BY <1>1, <1>4, AdvanceControl, RaiseControl DEF StepOf, Passes, Skips, Backfires, Refused
<1>5. CASE x = "live" /\ Deserts
  BY <1>1, <1>5, RaiseControl DEF Deserts
<1>6. CASE x = "live" /\ Again
  <2>1. proc[x] \in Process BY DEF Types
  <2> DEFINE Q == proc'[x]
             P == proc[x]
  <2>2. /\ Q.phase = "prep" /\ Q.pos = 1 /\ Q.block = P.block /\ Q.receipt = P.receipt
        /\ Q.failed = P.failed /\ Q.errors = P.errors
    BY <1>6, <2>1 DEF Again, Process
  <2>3. P.block = 0 /\ P.receipt \in {"passed", "failed"} BY <1>2, <1>6, <2>1 DEF Again, Control1, Process, Receipts
  <2>4. c[x].prep # << >>
    <3>1. c[x].body # << >> BY <1>2, <1>6 DEF Again, Control1, K
    <3> QED BY <1>2, <1>6, <3>1 DEF Shaped
  <2>5. 1 \in 1 .. Len(c[x].prep) BY <1>2, <2>4, Parts
  <2> QED BY <1>1, <1>2, <1>6, <2>2, <2>3, <2>5 DEF Control1, K, Again
<1>7. CASE Begin(x)
  <2> DEFINE Q == proc'[x]
  <2>1. /\ Q.block = 0 /\ Q.pos = 1 /\ ~Q.failed /\ ~Q.errors /\ Q.receipt = None
        /\ Q.phase = IF c[x].prep = << >> THEN "body" ELSE "prep"
    BY <1>2, <1>7, StartedShape DEF Begin
  <2>2. c[x].body # << >> BY <1>7 DEF Begin, K
  <2>3. 1 \in 1 .. Len(c[x].body) /\ (c[x].prep # << >> => 1 \in 1 .. Len(c[x].prep))
    BY <1>2, <2>2, Parts
  <2>4. None # "passed" BY DEF None
  <2> HIDE DEF Q
  <2>5. CASE c[x].prep = << >> BY <1>1, <2>1, <2>2, <2>3, <2>4, <2>5 DEF Control1, K, Held, Q
  <2>6. CASE c[x].prep # << >> BY <1>1, <2>1, <2>2, <2>3, <2>4, <2>6 DEF Control1, K, Q
  <2> QED BY <2>5, <2>6
<1> QED BY <1>3, <1>4, <1>5, <1>6, <1>7 DEF Moves, StepOf, Others, Deserts, Again, Begin

-----------------------------------------------------------------------------
(* Types.                                                                  *)

\* The suite runs what its driver was given.
LEMMA Given ==
  ASSUME Types, Controlled, Excluded, proc["live"].phase # "idle" \/ proc["suite"].phase # "idle"
  PROVE  saved.build \in 1 .. Len(built) /\ U \in Directory
<1>1. "live" \in Procs BY DEF Procs
<1>2. proc["live"].phase # "idle" BY <1>1 DEF Excluded, Controlled, Control1, NewProc
<1>3. saved.build \in 1 .. Len(built) BY <1>2 DEF Excluded
<1> QED BY <1>3 DEF Types, U

\* Only a build works on a directory.
LEMMA OnlyBuild ==
  ASSUME Types, Controlled, Excluded, NEW x \in Procs, Running(x), Running("build")
  PROVE  x = "build" /\ built # << >>
<1>1. built # << >> BY DEF Excluded, Running
<1>2. /\ \A y \in {"live", "suite", "cleanup", "verify"} : proc[y].phase = "idle"
      /\ ~Running("reset")
  BY DEF Excluded, Busy
<1>3. Through("create") BY DEF Excluded, Running, Procs
<1>4. ~Running("create")
  <2>1. "create" \in Procs BY DEF Procs
  <2> QED BY <1>3, <2>1 DEF Through, Running, Controlled, Control1, K
<1> QED BY <1>1, <1>2, <1>4 DEF Running, Procs

LEMMA TakesShape ==
  ASSUME Types, Controlled, Excluded, NEW x \in Procs, Running(x), Takes(Current(x))
  PROVE  LET s == Current(x) IN
         /\ w' \in World /\ built' \in Seq(Directory) /\ saved' \in Evidence
         /\ s[1] \in WorldOps => LeavesAlone(s[1], w') /\ Effects(s[1], s[2], w')
         /\ s[1] \notin WorldOps => w' = w
         /\ built' # built => /\ s[1] \in BuildOps /\ x = "build" /\ built # << >>
                              /\ built' = [built EXCEPT ![Len(built)] = BuildDo(s[1], s[2])]
         /\ s[1] \in BuildOps /\ x = "build" => /\ built # << >>
              /\ built' = [built EXCEPT ![Len(built)] = BuildDo(s[1], s[2])]
         /\ saved'.build = saved.build /\ saved'.archived = saved.archived
         /\ s[1] = "files" => /\ saved'.result = proc["suite"].receipt
                              /\ saved'.got = w.got /\ saved'.sent = w.sent /\ saved'.target = w.target
         /\ s[1] # "files" => /\ saved'.result = saved.result /\ saved'.got = saved.got
                              /\ saved'.sent = saved.sent /\ saved'.target = saved.target
         /\ s[1] = "manifest" =>
              saved'.kept = IF proc["suite"].phase = "idle" THEN "blocked" ELSE proc["suite"].receipt
         /\ s[1] # "manifest" => saved'.kept = saved.kept
<1> DEFINE s == Current(x)
<1>1. s \in STRING \X STRING /\ <<x, proc[x].phase>> \in Home(s[1]) BY AtStep
<1>2. s[1] = "load" /\ s[2] \in Ps => U.obj[s[2]] \in Bytes
  <2>1. SUFFICES ASSUME s[1] = "load", s[2] \in Ps PROVE U.obj[s[2]] \in Bytes OBVIOUS
  <2>2. x = "suite" BY <1>1, <2>1 DEF Home
  <2>3. U \in Directory BY <2>2, Given DEF Running
  <2> QED BY <2>1, <2>3 DEF Directory, Objects
<1>3. /\ w' \in World
      /\ s[1] \in WorldOps => LeavesAlone(s[1], w') /\ Effects(s[1], s[2], w')
      /\ s[1] \notin WorldOps => w' = w
  <2>1. CASE s[1] \in WorldOps
    <3>1. PICK op \in WorldOps, p \in STRING : op = s[1] /\ p = s[2] BY <1>1, <2>1
    <3>2. w' = WorldDo(op, p) BY <2>1, <3>1 DEF Takes
    <3>3. WorldDo(op, p) \in World /\ LeavesAlone(op, WorldDo(op, p)) /\ Effects(op, p, WorldDo(op, p))
      BY <1>2, <3>1, WorldDoShape
    <3> QED BY <2>1, <3>1, <3>2, <3>3
  <2>2. CASE s[1] \notin WorldOps
    BY <2>2 DEF Takes, Types
  <2> QED BY <2>1, <2>2
<1>4. /\ built' \in Seq(Directory)
      /\ built' # built => /\ s[1] \in BuildOps /\ x = "build" /\ built # << >>
                              /\ built' = [built EXCEPT ![Len(built)] = BuildDo(s[1], s[2])]
      /\ s[1] \in BuildOps /\ x = "build" => /\ built # << >>
              /\ built' = [built EXCEPT ![Len(built)] = BuildDo(s[1], s[2])]
  <2>1. CASE s[1] \in BuildOps /\ Running("build")
    <3>1. x = "build" /\ built # << >> BY <2>1, OnlyBuild
    <3>2. built' = [built EXCEPT ![Len(built)] = BuildDo(s[1], s[2])] BY <2>1 DEF Takes
    <3>3. BuildDo(s[1], s[2]) \in Directory BY <1>1, <2>1, <3>1, BuildDoShape
    <3>4. built' \in Seq(Directory)
      <4>1. PICK D \in Directory : D = BuildDo(s[1], s[2]) BY <3>3
      <4> QED BY <3>1, <3>2, <4>1, BuiltStep
    <3> QED BY <2>1, <3>1, <3>2, <3>4
  <2>2. CASE ~(s[1] \in BuildOps /\ Running("build"))
    BY <2>2 DEF Takes, Types
  <2> QED BY <2>1, <2>2
<1>5. /\ saved' \in Evidence
      /\ saved'.build = saved.build /\ saved'.archived = saved.archived
      /\ s[1] = "files" => /\ saved'.result = proc["suite"].receipt
                           /\ saved'.got = w.got /\ saved'.sent = w.sent /\ saved'.target = w.target
      /\ s[1] # "files" => /\ saved'.result = saved.result /\ saved'.got = saved.got
                           /\ saved'.sent = saved.sent /\ saved'.target = saved.target
      /\ s[1] = "manifest" =>
           saved'.kept = IF proc["suite"].phase = "idle" THEN "blocked" ELSE proc["suite"].receipt
      /\ s[1] # "manifest" => saved'.kept = saved.kept
  <2>0. /\ saved \in Evidence /\ w \in World /\ src \in Nat /\ proc["suite"].receipt \in Receipts
        /\ proc["suite"].errors \in BOOLEAN
    BY DEF Types, Procs, Process
  <2>1. CASE s[1] = "files"
    <3> DEFINE v == [saved EXCEPT !.result = proc["suite"].receipt, !.errors = proc["suite"].errors,
                       !.got = w.got, !.sent = w.sent, !.target = w.target, !.patches = w.patches]
    <3>1. saved' = v BY <2>1 DEF Takes
    <3>2. w.got \in Counts /\ w.sent \in Counts /\ w.target \in Counts /\ w.patches \in Counts
      BY <2>0 DEF World
    <3>3. v \in Evidence BY <2>0, <3>2 DEF Evidence
    <3>4. /\ v.build = saved.build /\ v.archived = saved.archived /\ v.kept = saved.kept
          /\ v.result = proc["suite"].receipt /\ v.got = w.got /\ v.sent = w.sent /\ v.target = w.target
      BY <2>0 DEF Evidence
    <3> HIDE DEF v
    <3> QED BY <2>1, <3>1, <3>3, <3>4
  <2>2. CASE s[1] = "journal"
    <3>1. saved' = [saved EXCEPT !.journal = w.journal] BY <2>2 DEF Takes
    <3>2. w.journal \in Counts BY <2>0 DEF World
    <3> QED BY <2>0, <2>2, <3>1, <3>2 DEF Evidence
  <2>3. CASE s[1] = "manifest"
    <3>1. saved' = [saved EXCEPT !.kept =
                      IF proc["suite"].phase = "idle" THEN "blocked" ELSE proc["suite"].receipt]
      BY <2>3 DEF Takes
    <3> QED BY <2>0, <2>3, <3>1 DEF Evidence
  <2>4. CASE s[1] = "sources" /\ Running("live")
    <3>1. saved' = [saved EXCEPT !.rec = src] BY <2>4 DEF Takes
    <3> QED BY <2>0, <2>4, <3>1 DEF Evidence
  <2>5. CASE s[1] \notin {"files", "journal", "manifest"} /\ ~(s[1] = "sources" /\ Running("live"))
    <3>1. saved' = saved BY <2>5 DEF Takes
    <3> QED BY <2>0, <2>5, <3>1
  <2> QED BY <2>1, <2>2, <2>3, <2>4, <2>5
<1> QED BY <1>3, <1>4, <1>5

\* What the world keeps when it is not a process's step that changes it.
KeepsFiles == w'.fixture = w.fixture /\ w'.monitors = w.monitors /\ w'.keys = w.keys
KeepsCounts == w'.got = w.got /\ w'.sent = w.sent /\ w'.target = w.target /\ w'.base = w.base

\* The driver answers its suite.
Switches ==
  /\ Controls /\ w.request # None /\ (proc' = proc \/ Deserts) /\ UNCHANGED <<built, saved, src, hurt>>
  /\ KeepsFiles /\ KeepsCounts /\ w'.tmm = w.tmm
  /\ w'.collector \in {"up", "stopped", w.collector} /\ w'.request \in {None, w.request}

\* Records are made and move.
Flows ==
  /\ UNCHANGED <<proc, built, saved, src, hurt>>
  /\ KeepsFiles /\ KeepsCounts /\ w'.collector = w.collector /\ w'.request = w.request
  /\ w'.tmm.tmm = w.tmm.tmm /\ w'.tmm.slot = w.tmm.slot /\ w'.tmm.text = w.tmm.text
  /\ (\A p \in Ps : w.tmm.text[p] = "nop") => w'.tmm.fired = w.tmm.fired

\* There is a new TMM.
Restarts ==
  /\ UNCHANGED <<proc, built, saved, src, hurt>> /\ w.fixture = "up"
  /\ KeepsFiles /\ KeepsCounts /\ w'.collector = w.collector /\ w'.request = w.request
  /\ w'.tmm.tmm = w.tmm.tmm + 1
  /\ \A p \in Ps : w'.tmm.slot[p] = NoObject /\ w'.tmm.text[p] = "nop"

\* A process's step takes effect.
Affects(x) ==
  LET s == Current(x) IN
  /\ StepOf(x) /\ (Passes(x) \/ Backfires(x)) /\ s[1] \in WorldOps
  /\ s \in STRING \X STRING /\ <<x, proc[x].phase>> \in Home(s[1])
  /\ LeavesAlone(s[1], w') /\ Effects(s[1], s[2], w')

WorldMoves ==
  /\ w' \in World
  /\ w' = w \/ Switches \/ Flows \/ Restarts \/ \E x \in Procs : Affects(x)

LEMMA StepWorld ==
  ASSUME Types, Controlled, Excluded, NEW x \in Procs, StepOf(x)
  PROVE  w' \in World /\ (w' = w \/ Affects(x))
<1>1. Running(x) BY DEF StepOf
<1>2. Current(x) \in STRING \X STRING /\ <<x, proc[x].phase>> \in Home(Current(x)[1]) BY <1>1, AtStep
<1>3. CASE Skips(x) \/ Refused(x)
  <2>1. w' = w BY <1>3 DEF Skips, Refused, Leaves
  <2> QED BY <2>1 DEF Types
<1>4. CASE Passes(x) \/ Backfires(x)
  <2>1. Takes(Current(x)) BY <1>4 DEF Passes, Backfires
  <2>2. CASE Current(x)[1] \notin WorldOps BY <1>1, <2>1, <2>2, TakesShape
  <2>3. CASE Current(x)[1] \in WorldOps
    <3>1. w' \in World /\ LeavesAlone(Current(x)[1], w') /\ Effects(Current(x)[1], Current(x)[2], w')
      BY <1>1, <2>1, <2>3, TakesShape
    <3> QED BY <1>2, <1>4, <2>3, <3>1 DEF Affects
  <2> QED BY <2>2, <2>3
<1> QED BY <1>3, <1>4 DEF StepOf

LEMMA ControlWorld ==
  ASSUME Types, Controlled, Control \/ ControlRaises
  PROVE  w' \in World /\ Switches
<1>1. w \in World BY DEF Types
<1>2. Controls /\ w.request # None BY DEF Control, ControlRaises
<1>3. Switched \in {"up", "stopped"} BY DEF Switched
<1>4. proc' = proc \/ Deserts
  BY DesertsIf DEF Control, ControlRaises, Controls
<1>5. UNCHANGED <<built, saved, src, hurt>> BY DEF Control, ControlRaises
<1>6. \/ w' = w
      \/ w' = [w EXCEPT !.collector = Switched]
      \/ w' = [w EXCEPT !.request = None, !.handled = @ + 1, !.collector = Switched]
  BY DEF Control, ControlRaises
<1>7. CASE w' = w BY <1>1, <1>2, <1>4, <1>5, <1>7 DEF Switches, KeepsFiles, KeepsCounts
<1>8. CASE w' = [w EXCEPT !.collector = Switched]
  <2>1. w' \in World BY <1>1, <1>3, <1>8 DEF World
  <2> QED BY <1>1, <1>2, <1>3, <1>4, <1>5, <1>8, <2>1 DEF Switches, KeepsFiles, KeepsCounts, World
<1>9. CASE w' = [w EXCEPT !.request = None, !.handled = @ + 1, !.collector = Switched]
  <2>0a. w.handled + 1 \in Nat BY <1>1 DEF World
  <2>1. w' \in World BY <1>1, <1>3, <1>9, <2>0a DEF World
  <2>2. KeepsFiles /\ KeepsCounts /\ w'.tmm = w.tmm /\ w'.collector = Switched /\ w'.request = None
    BY <1>1, <1>9 DEF KeepsFiles, KeepsCounts, World
  <2> QED BY <1>2, <1>3, <1>4, <1>5, <2>1, <2>2 DEF Switches
<1> QED BY <1>6, <1>7, <1>8, <1>9

LEMMA FlowWorld ==
  ASSUME Types, Collect \/ Background \/ Drop
  PROVE  w' \in World /\ Flows
<1>1. w \in World /\ w.tmm \in Tmm BY DEF Types, World
<1>2. UNCHANGED <<proc, built, saved, src, hurt>> BY DEF Collect, Background, Drop
<1>3. CASE Collect
  <2> DEFINE j == [p \in Ps |-> w.journal[p] + w.tmm.ring[p]]
             t == [w.tmm EXCEPT !.ring = [p \in Ps |-> 0]]
  <2>1. w' = [w EXCEPT !.journal = j, !.tmm = t] BY <1>3 DEF Collect, T
  <2>2. j \in Counts BY <1>1 DEF World, Tmm, Counts
  <2>3. t \in Tmm /\ t.tmm = w.tmm.tmm /\ t.slot = w.tmm.slot /\ t.text = w.tmm.text /\ t.fired = w.tmm.fired
    BY <1>1 DEF Tmm, Counts
  <2> HIDE DEF j, t
  <2>4. w' \in World BY <1>1, <2>1, <2>2, <2>3 DEF World
  <2> QED BY <1>1, <1>2, <2>1, <2>3, <2>4 DEF Flows, KeepsFiles, KeepsCounts, World
<1>4. CASE Background
  <2>1. w' = [w EXCEPT !.tmm = Fire(T)] BY <1>4 DEF Background
  <2>2. Fire(T) \in Tmm /\ Fire(T).tmm = w.tmm.tmm /\ Fire(T).slot = w.tmm.slot /\ Fire(T).text = w.tmm.text
        /\ ((\A q \in Ps : w.tmm.text[q] = "nop") => Fire(T).fired = w.tmm.fired)
    BY <1>1, FireShape DEF T
  <2>3. w' \in World BY <1>1, <2>1, <2>2 DEF World
  <2> QED BY <1>1, <1>2, <2>1, <2>2, <2>3 DEF Flows, KeepsFiles, KeepsCounts, World
<1>5. CASE Drop
  <2>1. PICK p \in Ps : w' = [w EXCEPT !.tmm = [T EXCEPT !.ring[p] = @ - 1, !.dropped = TRUE]]
    BY <1>5 DEF Drop
  <2> DEFINE t == [T EXCEPT !.ring[p] = @ - 1, !.dropped = TRUE]
  <2>2. w' = [w EXCEPT !.tmm = t] BY <2>1
  <2>3. w.tmm.ring[p] - 1 \in Int BY <1>1 DEF Tmm, Counts
  <2>4. t \in Tmm /\ t.tmm = w.tmm.tmm /\ t.slot = w.tmm.slot /\ t.text = w.tmm.text /\ t.fired = w.tmm.fired
    BY <1>1, <2>3 DEF Tmm, Counts, T
  <2> HIDE DEF t
  <2>5. w' \in World BY <1>1, <2>2, <2>4 DEF World
  <2> QED BY <1>1, <1>2, <2>2, <2>4, <2>5 DEF Flows, KeepsFiles, KeepsCounts, World
<1> QED BY <1>3, <1>4, <1>5

LEMMA RestartWorld ==
  ASSUME Types, Restart
  PROVE  w' \in World /\ Restarts
<1>1. w \in World /\ w.tmm \in Tmm BY DEF Types, World
<1> DEFINE t == NewTmm(Ps, w.tmm.tmm + 1)
<1>2. w' = [w EXCEPT !.tmm = t] BY DEF Restart, T
<1>3. /\ t \in Tmm /\ t.tmm = w.tmm.tmm + 1
      /\ \A p \in Ps : t.slot[p] = NoObject /\ t.text[p] = "nop"
  BY <1>1 DEF NewTmm, Tmm, Objects, Counts, NoObject, Bytes
<1> HIDE DEF t
<1>4. w' \in World BY <1>1, <1>2, <1>3 DEF World
<1> QED BY <1>1, <1>2, <1>3, <1>4 DEF Restarts, KeepsFiles, KeepsCounts, World, Restart

LEMMA NextWorld ==
  ASSUME Types, Controlled, Excluded, [Next]_vars
  PROVE  WorldMoves
<1>1. ASSUME NEW x \in Procs, Acts(x) PROVE WorldMoves
  <2>1. StepOf(x) BY <1>1, ActsShape
  <2> QED BY <2>1, StepWorld DEF WorldMoves
<1>2. CASE Control \/ ControlRaises BY <1>2, ControlWorld DEF WorldMoves
<1>3. CASE Collect \/ Background \/ Drop BY <1>3, FlowWorld DEF WorldMoves
<1>4. CASE Restart BY <1>4, RestartWorld DEF WorldMoves
<1>5. CASE w' = w BY <1>5 DEF WorldMoves, Types
<1>6. CASE \/ StartSuite \/ SuiteTimeout \/ BeginCreate \/ BeginBuild \/ EndBuild \/ BeginLive
           \/ BeginBlocked \/ BeginCleanup \/ BeginVerify \/ Rerun \/ Edit
  <2>1. w' = w
    BY <1>6 DEF StartSuite, SuiteTimeout, BeginCreate, BeginBuild, EndBuild, BeginLive,
                BeginBlocked, BeginCleanup, BeginVerify, Rerun, Edit
  <2> QED BY <1>5, <2>1
<1>7. CASE UNCHANGED vars BY <1>5, <1>7 DEF vars
<1> QED BY <1>1, <1>2, <1>3, <1>4, <1>6, <1>7 DEF Next, Acts

-----------------------------------------------------------------------------
(* What a step does to the files.                                          *)

\* The newest build makes something.
Fabricates ==
  LET s == Current("build") IN
  /\ StepOf("build") /\ Passes("build") /\ s \in STRING \X STRING /\ s[1] \in BuildOps
  /\ built # << >> /\ proc["build"].phase = "body"
  /\ built' = [built EXCEPT ![Len(built)] = BuildDo(s[1], s[2])]

BuiltMoves == built' = built \/ Fabricates \/ BeginBuild \/ EndBuild

SameResult ==
  /\ saved'.result = saved.result /\ saved'.got = saved.got /\ saved'.sent = saved.sent
  /\ saved'.target = saved.target
SameBuilds == saved'.build = saved.build /\ saved'.archived = saved.archived

\* The driver copies the suite's result.
Copies ==
  /\ StepOf("live") /\ proc["live"].phase = "final" /\ Passes("live")
  /\ saved'.result = proc["suite"].receipt
  /\ saved'.got = w.got /\ saved'.sent = w.sent /\ saved'.target = w.target /\ w' = w
  /\ SameBuilds /\ saved'.kept = saved.kept

\* The evidence is listed.
Lists(x) ==
  /\ StepOf(x) /\ proc[x].phase = "body" /\ Passes(x) /\ Current(x)[1] = "manifest"
  /\ saved'.kept = IF proc["suite"].phase = "idle" THEN "blocked" ELSE proc["suite"].receipt
  /\ SameBuilds /\ SameResult

SavedMoves ==
  \/ SameResult /\ SameBuilds /\ saved'.kept = saved.kept
  \/ Copies \/ \E x \in {"cleanup", "reset"} : Lists(x)
  \/ SameResult /\ saved'.kept = saved.kept /\ (BeginLive \/ BeginVerify)

LEMMA StepFiles ==
  ASSUME Types, Controlled, Excluded, NEW x \in Procs, StepOf(x)
  PROVE  built' \in Seq(Directory) /\ saved' \in Evidence /\ BuiltMoves /\ SavedMoves
<1> DEFINE s == Current(x)
<1>1. Running(x) BY DEF StepOf
<1>2. s \in STRING \X STRING /\ <<x, proc[x].phase>> \in Home(s[1]) BY <1>1, AtStep
<1>3. CASE Skips(x) \/ Refused(x)
  <2>1. built' = built /\ saved' = saved BY <1>3 DEF Skips, Refused, Leaves
  <2> QED BY <2>1 DEF Types, BuiltMoves, SavedMoves, SameResult, SameBuilds
<1>4. CASE Passes(x) \/ Backfires(x)
  <2>1. Takes(s) BY <1>4 DEF Passes, Backfires
  <2>2. built' \in Seq(Directory) /\ saved' \in Evidence BY <1>1, <2>1, TakesShape
  <2>3. BuiltMoves
    <3>1. SUFFICES ASSUME built' # built PROVE Fabricates BY DEF BuiltMoves
    <3>2. /\ s[1] \in BuildOps /\ x = "build" /\ built # << >>
          /\ built' = [built EXCEPT ![Len(built)] = BuildDo(s[1], s[2])]
      BY <1>1, <2>1, <3>1, TakesShape
    <3>3. s[1] \notin WorldOps BY <3>2 DEF BuildOps, WorldOps
    <3>4. Passes(x) BY <1>4, <3>3 DEF Backfires
    <3>5. proc[x].phase = "body"
      BY <1>2, <3>2 DEF Home, BuildOps
    <3> QED BY <1>2, <3>2, <3>4, <3>5 DEF Fabricates
  <2>4. SavedMoves
    <3>1. SameBuilds BY <1>1, <2>1, TakesShape DEF SameBuilds
    <3>2. CASE s[1] = "files"
      <4>1. x = "live" /\ proc[x].phase = "final" BY <1>2, <3>2 DEF Home
      <4>2. Passes(x) BY <1>4, <3>2 DEF Backfires, WorldOps
      <4>3. /\ saved'.result = proc["suite"].receipt /\ saved'.kept = saved.kept /\ w' = w
            /\ saved'.got = w.got /\ saved'.sent = w.sent /\ saved'.target = w.target
        BY <1>1, <2>1, <3>2, TakesShape DEF WorldOps
      <4> QED BY <3>1, <4>1, <4>2, <4>3 DEF SavedMoves, Copies
    <3>3. CASE s[1] = "manifest"
      <4>1. x \in {"cleanup", "reset"} /\ proc[x].phase = "body" BY <1>2, <3>3 DEF Home
      <4>2. Passes(x) BY <1>4, <3>3 DEF Backfires, WorldOps
      <4>3. /\ saved'.kept = IF proc["suite"].phase = "idle" THEN "blocked" ELSE proc["suite"].receipt
            /\ SameResult
        BY <1>1, <2>1, <3>3, TakesShape DEF SameResult
      <4> QED BY <3>1, <3>3, <4>1, <4>2, <4>3 DEF SavedMoves, Lists
    <3>4. CASE s[1] \notin {"files", "manifest"}
      <4>1. SameResult /\ saved'.kept = saved.kept BY <1>1, <2>1, <3>4, TakesShape DEF SameResult
      <4> QED BY <3>1, <4>1 DEF SavedMoves
    <3> QED BY <3>2, <3>3, <3>4
  <2> QED BY <2>2, <2>3, <2>4
<1> QED BY <1>3, <1>4 DEF StepOf

LEMMA NewBuildShape ==
  ASSUME TRUE
  PROVE  /\ NewBuild(Ps) \in Directory /\ ~NewBuild(Ps).passed /\ NewBuild(Ps).rec = -1
         /\ \A p \in Ps : NewBuild(Ps).sig[p] = NoObject /\ NewBuild(Ps).obj[p] = NoObject
BY DEF NewBuild, Directory, Objects, Bytes, NoObject

LEMMA NextFiles ==
  ASSUME Types, Controlled, Excluded, [Next]_vars
  PROVE  /\ built' \in Seq(Directory) /\ saved' \in Evidence /\ BuiltMoves /\ SavedMoves
         /\ src' \in Nat /\ events' \in Int /\ hurt' \in BOOLEAN
<1>0. /\ built \in Seq(Directory) /\ saved \in Evidence /\ src \in Nat /\ events \in Int /\ hurt \in BOOLEAN
  BY DEF Types
<1>1. ASSUME NEW x \in Procs, Acts(x)
      PROVE  built' \in Seq(Directory) /\ saved' \in Evidence /\ BuiltMoves /\ SavedMoves
  BY <1>1, ActsShape, StepFiles
<1>2. SUFFICES /\ built' \in Seq(Directory) /\ saved' \in Evidence /\ BuiltMoves /\ SavedMoves
  <2>1. src' \in Nat
    <3>1. src' = src \/ src' = src + 1
      BY DEF Next, Acts, vars, StepOk, StepRaises, StepIgnored, StepFaults, StartSuite, Control, ControlRaises, SuiteTimeout, BeginCreate,
            BeginBuild, EndBuild, BeginLive, BeginBlocked, BeginCleanup, BeginVerify, Rerun, Collect,
            Restart, Background, Drop, Edit
    <3> QED BY <1>0, <3>1
  <2>2. events' \in Int
    <3>1. events' = events \/ events' = events + 1
      BY DEF Next, Acts, vars, StepOk, StepRaises, StepIgnored, StepFaults, StartSuite, Control, ControlRaises, SuiteTimeout, BeginCreate,
            BeginBuild, EndBuild, BeginLive, BeginBlocked, BeginCleanup, BeginVerify, Rerun, Collect,
            Restart, Background, Drop, Edit, Event
    <3> QED BY <1>0, <3>1
  <2>3. hurt' \in BOOLEAN
    BY <1>0, NextMoves DEF Moves, StepOf
  <2> QED BY <1>2, <2>1, <2>2, <2>3
<1>3. CASE built' = built /\ saved' = saved
  BY <1>0, <1>3 DEF BuiltMoves, SavedMoves, SameResult, SameBuilds
<1>4. CASE \/ StartSuite \/ Control \/ ControlRaises \/ SuiteTimeout \/ BeginCreate
           \/ BeginBlocked \/ BeginCleanup \/ Rerun \/ Collect \/ Restart \/ Background \/ Drop \/ Edit
  <2>1. built' = built /\ saved' = saved
    BY <1>4 DEF StartSuite, Control, ControlRaises, SuiteTimeout, BeginCreate,
            BeginBlocked, BeginCleanup, Rerun, Collect, Restart, Background, Drop, Edit
  <2> QED BY <1>3, <2>1
<1>5. CASE BeginBuild
  <2>1. built' = Append(built, NewBuild(Ps)) /\ saved' = saved BY <1>5 DEF BeginBuild
  <2>2. built' \in Seq(Directory) BY <1>0, <2>1, NewBuildShape
  <2> QED BY <1>0, <1>5, <2>1, <2>2 DEF BuiltMoves, SavedMoves, SameResult, SameBuilds
<1>6. CASE EndBuild
  <2>1. built' = [built EXCEPT ![Len(built)].passed = TRUE] /\ saved' = saved BY <1>6 DEF EndBuild
  <2>2. built # << >> BY <1>6 DEF EndBuild, Pending, Excluded
  <2>3. B \in Directory BY <2>2, Newest
  <2>4. [B EXCEPT !.passed = TRUE] \in Directory BY <2>3 DEF Directory
  <2>5. built' \in Seq(Directory)
    <3>1. PICK D \in Directory : D = [B EXCEPT !.passed = TRUE] BY <2>4
    <3>2. built' = [built EXCEPT ![Len(built)] = D] BY <2>1, <3>1 DEF B
    <3> QED BY <2>2, <3>2, BuiltStep
  <2> QED BY <1>0, <1>6, <2>1, <2>5 DEF BuiltMoves, SavedMoves, SameResult, SameBuilds
<1>7. CASE BeginLive
  <2>1. PICK n \in 1 .. Len(built) : saved' = [saved EXCEPT !.build = n] BY <1>7 DEF BeginLive
  <2>2. built' = built BY <1>7 DEF BeginLive
  <2>3. saved' \in Evidence /\ SameResult /\ saved'.kept = saved.kept
    BY <1>0, <2>1 DEF Evidence, SameResult
  <2> QED BY <1>0, <1>7, <2>2, <2>3 DEF BuiltMoves, SavedMoves
<1>8. CASE BeginVerify
  <2>1. PICK n \in 1 .. Len(built) :
          saved' = [saved EXCEPT !.archived = n, !.build = IF K.live.body = << >> THEN n ELSE @]
    BY <1>8 DEF BeginVerify
  <2>2. built' = built BY <1>8 DEF BeginVerify
  <2>3. PICK m \in Nat : m = IF K.live.body = << >> THEN n ELSE saved.build
    BY <1>0 DEF Evidence
  <2>4. saved' = [saved EXCEPT !.archived = n, !.build = m] BY <2>1, <2>3
  <2>5. saved' \in Evidence
    <3>1. n \in Nat OBVIOUS
    <3> QED BY <1>0, <2>4, <3>1 DEF Evidence
  <2>6. SameResult /\ saved'.kept = saved.kept BY <1>0, <2>4 DEF Evidence, SameResult
  <2> QED BY <1>0, <1>8, <2>2, <2>5, <2>6 DEF BuiltMoves, SavedMoves
<1>9. CASE UNCHANGED vars BY <1>3, <1>9 DEF vars
<1> QED BY <1>1, <1>4, <1>5, <1>6, <1>7, <1>8, <1>9 DEF Next, Acts

LEMMA TypesStep ==
  ASSUME Types, Controlled, Excluded, [Next]_vars
  PROVE  Types'
<1>1. c' = c /\ proc' \in [Procs -> Process] BY NextMoves DEF Moves
<1>2. w' \in World BY NextWorld DEF WorldMoves
<1>3. World' = World /\ Evidence' = Evidence /\ Directory' = Directory
  BY <1>1 DEF World, Evidence, Directory, Tmm, Objects, Counts, Ps, K
<1> QED BY <1>1, <1>2, <1>3, NextFiles DEF Types

-----------------------------------------------------------------------------
(* Which processes run together.                                           *)

\* What becomes of one process.
LEMMA OneMoves ==
  ASSUME Moves, NEW x \in Procs
  PROVE  \/ proc'[x] = proc[x] \/ StepOf(x) \/ (x = "live" /\ (Deserts \/ Again))
         \/ (Begin(x) /\ Starts(x))
BY DEF Moves, StepOf, Others, Deserts, Again, Begin

LEMMA PhaseMoves ==
  ASSUME Types, Controlled, Moves, NEW x \in Procs
  PROVE  /\ proc[x].phase = "idle" /\ proc'[x].phase # "idle" => Starts(x) /\ proc'[x] = Started(x)
         /\ proc[x].phase = "idle" /\ proc'[x].phase = "idle" => proc'[x] = proc[x]
         /\ proc[x].phase = "done" /\ proc'[x] # proc[x] => (x = "build" /\ Starts(x)) \/ (x = "live" /\ Again)
         /\ proc'[x].phase = "idle" => proc[x].phase = "idle"
         /\ Running(x)' => Running(x) \/ Starts(x) \/ (x = "live" /\ Again)
         /\ proc'[x].receipt = None => proc[x].receipt = None \/ x = "build"
         /\ x # "build" /\ proc[x].receipt \in {"passed", "failed"} => proc'[x].receipt = proc[x].receipt
<1>1. Control1(x) /\ proc[x] \in Process /\ proc'[x] \in Process /\ Shaped(c)
  BY Formed DEF Controlled, Types, Moves
<1>2. CASE proc'[x] = proc[x]
  BY <1>2 DEF Running
<1>3. CASE Running(x) /\ (Advance(x) \/ Raise(x))
  <2>1. proc[x].phase \in {"prep", "body", "final"} BY <1>3 DEF Running
  <2>2. proc[x].phase \in {"body", "final"} => proc[x].receipt \in {None, "open"}
    BY <1>1 DEF Control1, Held
  <2>3. proc'[x].phase # "idle" BY <1>3, <2>1 DEF Advance, Raise
  <2>4. proc'[x].receipt = None => proc[x].receipt = None
    BY <1>3, <2>1 DEF Advance, Raise, None
  <2>5. proc[x].receipt \in {"passed", "failed"} => proc'[x].receipt = proc[x].receipt
    <3>1. SUFFICES ASSUME proc[x].receipt \in {"passed", "failed"} PROVE proc'[x].receipt = proc[x].receipt
      OBVIOUS
    <3>2. proc[x].phase = "prep" BY <2>1, <2>2, <3>1 DEF None
    <3> QED BY <1>3, <3>1, <3>2 DEF Advance, Raise, None
  <2> QED BY <1>3, <2>1, <2>3, <2>4, <2>5
<1>4. CASE StepOf(x)
  BY <1>3, <1>4 DEF StepOf, Passes, Skips, Backfires, Refused
<1>5. CASE x = "live" /\ Deserts
  BY <1>3, <1>5 DEF Deserts
<1>6. CASE x = "live" /\ Again
  <2>1. proc'[x].phase = "prep" /\ proc'[x].receipt = proc[x].receipt /\ proc[x].phase = "done"
    BY <1>1, <1>6 DEF Again, Process
  <2> QED BY <1>6, <2>1 DEF Running
<1>7. CASE Begin(x) /\ Starts(x)
  <2>1. /\ proc'[x] = Started(x) /\ proc'[x].receipt = None /\ proc'[x].phase \in {"prep", "body"}
        /\ proc[x].phase = "idle" \/ x = "build"
    BY <1>1, <1>7, StartedShape DEF Begin
  <2>2. proc[x].phase = "idle" => proc[x].receipt = None BY <1>1 DEF Control1, NewProc
  <2> QED BY <1>7, <2>1, <2>2 DEF None
<1> QED BY <1>2, <1>4, <1>5, <1>6, <1>7, OneMoves

LEMMA NextAt ==
  ASSUME Types, Controlled, Excluded, [Next]_vars
  PROVE  /\ Types' /\ Controlled' /\ Moves /\ WorldMoves /\ BuiltMoves /\ SavedMoves
         /\ Shaped(c) /\ c' = c /\ Ps' = Ps
BY NextMoves, NextWorld, NextFiles, TypesStep, ControlledStep, Formed DEF Moves, Ps, K

LEMMA BuiltGrows ==
  ASSUME Types, BuiltMoves, Excluded
  PROVE  /\ Len(built) \in Nat /\ Len(built') \in Nat /\ Len(built) <= Len(built')
         /\ ~BeginBuild => Len(built') = Len(built)
         /\ \A n \in 1 .. Len(built) : n # Len(built) \/ BeginBuild => built'[n] = built[n]
         /\ BeginBuild => /\ built'[Len(built) + 1] = NewBuild(Ps) /\ Len(built') = Len(built) + 1
                          /\ built' # << >>
         /\ EndBuild => /\ built # << >> /\ built'[Len(built)] = [B EXCEPT !.passed = TRUE]
         /\ Fabricates =>
              /\ Fills(Current("build")[1], Current("build")[2], built'[Len(built)])
<1>0. built \in Seq(Directory) BY DEF Types
<1>1. CASE built' = built /\ ~EndBuild /\ ~Fabricates
  <2>1. ~BeginBuild
    <3>1. SUFFICES ASSUME BeginBuild PROVE FALSE OBVIOUS
    <3>2. built' = Append(built, NewBuild(Ps)) BY <3>1 DEF BeginBuild
    <3>3. Len(built') = Len(built) + 1 BY <1>0, <3>2, NewBuildShape
    <3> QED BY <1>0, <1>1, <3>3
  <2> QED BY <1>0, <1>1, <2>1
<1>2. CASE Fabricates
  <2>1. PICK op \in BuildOps, p \in STRING : op = Current("build")[1] /\ p = Current("build")[2]
    BY <1>2 DEF Fabricates
  <2>2. built # << >> BY <1>2 DEF Fabricates
  <2>3. BuildDo(op, p) \in Directory /\ Fills(op, p, BuildDo(op, p)) BY <2>2, BuildDoShape
  <2>4. PICK D \in Directory : D = BuildDo(op, p) BY <2>3
  <2>5. built' = [built EXCEPT ![Len(built)] = D] BY <1>2, <2>1, <2>4 DEF Fabricates
  <2>6. /\ Len(built') = Len(built) /\ built'[Len(built)] = D
        /\ \A n \in 1 .. Len(built) : n # Len(built) => built'[n] = built[n]
    BY <2>2, <2>5, BuiltStep
  <2>7. ~BeginBuild
    <3>1. "build" \in Procs /\ Running("build") BY <1>2 DEF Procs, Fabricates, StepOf
    <3> QED BY <3>1 DEF BeginBuild
  <2>8. ~EndBuild BY <1>2 DEF Fabricates, EndBuild, Pending
  <2> QED BY <1>0, <2>1, <2>3, <2>4, <2>6, <2>7, <2>8
<1>3. CASE BeginBuild
  <2>1. built' = Append(built, NewBuild(Ps)) BY <1>3 DEF BeginBuild
  <2>2. /\ Len(built') = Len(built) + 1 /\ built'[Len(built) + 1] = NewBuild(Ps)
        /\ \A n \in 1 .. Len(built) : built'[n] = built[n]
    BY <1>0, <2>1, NewBuildShape
  <2>3. ~EndBuild BY <1>3 DEF BeginBuild, EndBuild
  <2>4. ~Fabricates BY <1>3 DEF BeginBuild, Fabricates, StepOf
  <2>5. built' # << >> BY <1>0, <2>2
  <2> QED BY <1>0, <1>3, <2>2, <2>3, <2>4, <2>5
<1>4. CASE EndBuild
  <2>1. built # << >> BY <1>4 DEF EndBuild, Pending, Excluded
  <2>2. B \in Directory BY <2>1, Newest
  <2>3. [B EXCEPT !.passed = TRUE] \in Directory BY <2>2 DEF Directory
  <2>4. PICK D \in Directory : D = [B EXCEPT !.passed = TRUE] BY <2>3
  <2>5. built' = [built EXCEPT ![Len(built)] = D] BY <1>4, <2>4 DEF B, EndBuild
  <2>6. /\ Len(built') = Len(built) /\ built'[Len(built)] = D
        /\ \A n \in 1 .. Len(built) : n # Len(built) => built'[n] = built[n]
    BY <2>1, <2>5, BuiltStep
  <2>7. ~BeginBuild BY <1>4 DEF BeginBuild, EndBuild
  <2>8. ~Fabricates BY <1>4 DEF Fabricates, EndBuild, Pending
  <2> QED BY <1>0, <2>1, <2>4, <2>6, <2>7, <2>8
<1> QED BY <1>1, <1>2, <1>3, <1>4 DEF BuiltMoves

LEMMA BusyStep ==
  ASSUME Types, Controlled, Excluded, Moves, BuiltMoves, Busy'
  PROVE  Busy \/ BeginBuild
<1>0. "build" \in Procs BY DEF Procs
<1>1. CASE Running("build")' BY <1>0, <1>1, PhaseMoves DEF Busy, Starts
<1>2. CASE Pending'
  <2>1. SUFFICES ASSUME ~Running("build"), ~BeginBuild PROVE Pending BY DEF Busy
  <2>2. proc'["build"].phase = "done" /\ proc'["build"].receipt = "passed" BY <1>2 DEF Pending
  <2>3. proc'["build"] = proc["build"]
    <3>1. proc["build"].phase # "idle" BY <1>0, <2>1, <2>2, PhaseMoves DEF Starts
    <3>2. proc["build"].phase = "done" BY <1>0, <2>1, <3>1 DEF Running, Types, Process
    <3> QED BY <1>0, <2>1, <3>2, PhaseMoves DEF Starts
  <2>4. CASE built' = built BY <1>2, <2>2, <2>3, <2>4 DEF Pending, B
  <2>5. CASE EndBuild BY <2>5 DEF EndBuild
  <2>6. ~Fabricates BY <2>1 DEF Fabricates, StepOf
  <2> QED BY <2>1, <2>4, <2>5, <2>6 DEF BuiltMoves
<1> QED BY <1>1, <1>2 DEF Busy

\* A process that is not started yet has no receipt, and a build that is away
\* from its receipt keeps the others from starting.
LEMMA ExcludedStep ==
  ASSUME Types, Controlled, Excluded, [Next]_vars
  PROVE  Excluded'
<1>0. /\ Types' /\ Controlled' /\ Moves /\ BuiltMoves /\ SavedMoves /\ Shaped(c) /\ c' = c
  BY NextAt
<1>p. /\ "create" \in Procs /\ "build" \in Procs /\ "live" \in Procs /\ "suite" \in Procs
      /\ "cleanup" \in Procs /\ "reset" \in Procs /\ "verify" \in Procs
  BY DEF Procs
<1>n. \A x \in Procs : proc[x].phase = "idle" => proc[x].receipt = None
  BY DEF Controlled, Control1, NewProc
<1>1. (~Through("create") => \A x \in Procs \ {"create"} : proc[x].phase = "idle")'
  <2>1. SUFFICES ASSUME ~Through("create")', NEW x \in Procs \ {"create"} PROVE proc'[x].phase = "idle"
    OBVIOUS
  <2>2. ~Through("create")
    <3>1. SUFFICES ASSUME proc["create"].phase = "done" PROVE FALSE BY <1>0, <2>1 DEF Through, K
    <3>2. proc'["create"] = proc["create"] BY <1>0, <1>p, <3>1, PhaseMoves
    <3> QED BY <2>1, <3>1, <3>2 DEF Through
  <2>3. \A y \in Procs \ {"create"} : proc[y].phase = "idle" BY <2>2 DEF Excluded
  <2>4. SUFFICES ASSUME proc'[x].phase # "idle" PROVE FALSE OBVIOUS
  <2>5. Starts(x) BY <1>0, <2>3, <2>4, PhaseMoves
  <2>6. x \in {"build", "live", "suite", "cleanup", "reset", "verify"} BY <2>1 DEF Procs
  <2>7. proc["build"].phase = "idle" /\ proc["live"].phase = "idle" BY <1>p, <2>3
  <2>8. CASE x = "build" BY <2>2, <2>5, <2>8 DEF Starts, BeginBuild
  <2>9. CASE x = "live" BY <2>5, <2>7, <2>9 DEF Starts, BeginLive
  <2>10. CASE x = "suite" BY <2>5, <2>7, <2>10 DEF Starts, StartSuite, Running
  <2>11. CASE x = "cleanup" BY <2>5, <2>7, <2>11 DEF Starts, BeginCleanup
  <2>12. CASE x = "reset" BY <2>5, <2>7, <2>12 DEF Starts, BeginCleanup, BeginBlocked
  <2>13. CASE x = "verify" BY <2>5, <2>7, <2>13 DEF Starts, BeginVerify
  <2> QED BY <2>6, <2>8, <2>9, <2>10, <2>11, <2>12, <2>13
<1>2. (built = << >> <=> proc["build"].phase = "idle")'
  <2>1. CASE BeginBuild
    <3>1. built' # << >> BY <2>1, <1>0, BuiltGrows
    <3>2. proc' = [proc EXCEPT !["build"] = Started("build")] BY <2>1 DEF BeginBuild
    <3>3. proc'["build"] = Started("build") BY <1>p, <3>2 DEF Types
    <3>4. Started("build").phase # "idle" BY <1>0, <1>p, StartedShape
    <3> QED BY <3>1, <3>3, <3>4
  <2>2. CASE ~BeginBuild
    <3>1. Len(built') = Len(built) BY <1>0, <2>2, BuiltGrows
    <3>2. built' = << >> <=> built = << >>
      <4>1. built \in Seq(Directory) /\ built' \in Seq(Directory') BY <1>0 DEF Types
      <4> QED BY <3>1, <4>1
    <3>3. proc'["build"].phase = "idle" <=> proc["build"].phase = "idle"
      BY <1>0, <1>p, <2>2, PhaseMoves DEF Starts
    <3> QED BY <3>2, <3>3 DEF Excluded
  <2> QED BY <2>1, <2>2
<1>3. (Busy => /\ \A x \in {"live", "suite", "cleanup", "verify"} : proc[x].phase = "idle"
               /\ ~Running("reset"))'
  <2>1. SUFFICES ASSUME Busy' PROVE (\A x \in {"live", "suite", "cleanup", "verify"} : proc[x].phase = "idle")'
                                    /\ ~Running("reset")'
    OBVIOUS
  <2>2. Busy \/ BeginBuild BY <1>0, <2>1, BusyStep
  <2>3. /\ \A x \in {"live", "suite", "cleanup", "verify"} : proc[x].phase = "idle"
        /\ ~Running("reset")
    <3>1. CASE Busy BY <3>1 DEF Excluded
    <3>2. CASE BeginBuild
      <4>1. proc["live"].phase = "idle" /\ proc["verify"].phase = "idle" /\ ~Running("reset")
        BY <3>2 DEF BeginBuild
      <4>2. proc["suite"].phase = "idle" /\ proc["cleanup"].phase = "idle"
        BY <1>n, <1>p, <4>1 DEF Excluded
      <4> QED BY <4>1, <4>2
    <3> QED BY <2>2, <3>1, <3>2
  <2>4. ~BeginLive /\ ~StartSuite /\ ~BeginCleanup /\ ~BeginVerify /\ ~BeginBlocked
    <3>1. CASE Busy
      <4>1. ~BeginBlocked BY <3>1 DEF BeginBlocked, Busy, Pending, Running
      <4>2. ~BeginLive BY <3>1 DEF BeginLive, Busy, Running
      <4>3. ~BeginVerify /\ ~BeginCleanup /\ ~StartSuite
        BY <2>3, <3>1 DEF BeginVerify, BeginCleanup, StartSuite, Busy, Running
      <4> QED BY <4>1, <4>2, <4>3
    <3>2. CASE BeginBuild
      <4>1. built' # built /\ built' # << >>
        <5>1. Len(built') = Len(built) + 1 /\ Len(built) \in Nat BY <1>0, <3>2, BuiltGrows
        <5> QED BY <5>1, <1>0, <3>2, BuiltGrows
      <4> QED BY <4>1 DEF BeginLive, StartSuite, BeginCleanup, BeginVerify, BeginBlocked
    <3> QED BY <2>2, <3>1, <3>2
  <2>5. \A x \in {"live", "suite", "cleanup", "verify"} : proc'[x].phase = "idle"
    BY <1>0, <1>p, <2>3, <2>4, PhaseMoves DEF Starts
  <2>6. ~Running("reset")' BY <1>0, <1>p, <2>3, <2>4, PhaseMoves DEF Starts
  <2> QED BY <2>5, <2>6
<1>4. (proc["live"].phase # "idle" => saved.build \in 1 .. Len(built))'
  <2>0. Len(built) \in Nat /\ Len(built') \in Nat /\ Len(built) <= Len(built')
    BY <1>0, BuiltGrows
  <2>1. SUFFICES ASSUME proc'["live"].phase # "idle" PROVE saved'.build \in 1 .. Len(built')
    OBVIOUS
  <2>2. CASE BeginLive
    <3>1. PICK n \in 1 .. Len(built) : saved' = [saved EXCEPT !.build = n] BY <2>2 DEF BeginLive
    <3>2. saved'.build = n BY <3>1 DEF Types, Evidence
    <3> QED BY <2>0, <3>2
  <2>3. CASE ~BeginLive
    <3>1. proc["live"].phase # "idle" BY <1>0, <1>p, <2>1, <2>3, PhaseMoves DEF Starts
    <3>2. saved.build \in 1 .. Len(built) BY <3>1 DEF Excluded
    <3>3. saved'.build = saved.build
      <4>1. CASE BeginVerify
        <5>1. c.live.body # << >> BY <1>p, <3>1 DEF Controlled, Control1, K
        <5>2. PICK n : saved' = [saved EXCEPT !.archived = n, !.build = IF K.live.body = << >> THEN n ELSE @]
          BY <4>1 DEF BeginVerify
        <5> QED BY <5>1, <5>2 DEF Types, Evidence, K
      <4>2. CASE ~BeginVerify BY <1>0, <2>3, <4>2 DEF SavedMoves, SameBuilds, Copies, Lists
      <4> QED BY <4>1, <4>2
    <3> QED BY <2>0, <3>2, <3>3
  <2> QED BY <2>2, <2>3
<1>5. (proc["live"].receipt = None => proc["suite"].phase = "idle")'
  <2>1. SUFFICES ASSUME proc'["live"].receipt = None PROVE proc'["suite"].phase = "idle" OBVIOUS
  <2>2. proc["live"].receipt = None BY <1>0, <1>p, <2>1, PhaseMoves
  <2>3. proc["suite"].phase = "idle" BY <2>2 DEF Excluded
  <2>4. ~StartSuite
    <3>1. SUFFICES ASSUME StartSuite PROVE FALSE OBVIOUS
    <3>2. Running("live") /\ Current("live")[1] = "suite" BY <3>1 DEF StartSuite
    <3>3. proc["live"].phase = "body" /\ c.live.body # << >> BY <1>p, <3>2, AtSuite DEF Controlled, Control1, K
    <3>4. c.live.prep # << >> BY <1>0, <1>p, <3>3 DEF Shaped
    <3>5. proc["live"].receipt = "open" BY <1>p, <3>3, <3>4 DEF Controlled, Control1, Held, K
    <3> QED BY <2>2, <3>5 DEF None
  <2> QED BY <1>0, <1>p, <2>3, <2>4, PhaseMoves DEF Starts
<1>6. (proc["cleanup"].phase # "idle" => proc["live"].phase = "done")'
  <2>1. SUFFICES ASSUME proc'["cleanup"].phase # "idle" PROVE proc'["live"].phase = "done" OBVIOUS
  <2>2. proc["live"].phase = "done"
    BY <1>0, <1>p, <2>1, PhaseMoves DEF Excluded, Starts, BeginCleanup
  <2>3. ~Again
    <3>1. SUFFICES ASSUME Again PROVE FALSE OBVIOUS
    <3>2. proc["cleanup"].phase = "idle" /\ proc'["cleanup"] = proc["cleanup"]
      BY <1>p, <3>1 DEF Again, Others
    <3> QED BY <2>1, <3>2
  <2> QED BY <1>0, <1>p, <2>2, <2>3, PhaseMoves
<1>7. (Running("reset") => proc["live"].phase \in {"idle", "done"} /\ ~Running("cleanup"))'
  <2>1. SUFFICES ASSUME Running("reset")' PROVE proc'["live"].phase \in {"idle", "done"} /\ ~Running("cleanup")'
    OBVIOUS
  <2>2. Running("reset") \/ Starts("reset") BY <1>0, <1>p, <2>1, PhaseMoves
  <2>3. ~Again
    <3>1. SUFFICES ASSUME Again PROVE FALSE OBVIOUS
    <3>2. proc["reset"].phase = "idle" /\ proc'["reset"] = proc["reset"]
      BY <1>p, <3>1 DEF Again, Others
    <3> QED BY <2>1, <3>2 DEF Running
  <2>4. CASE Running("reset")
    <3>1. proc["live"].phase \in {"idle", "done"} /\ ~Running("cleanup") BY <2>4 DEF Excluded
    <3>2. ~BeginLive /\ ~BeginCleanup BY <2>4 DEF BeginLive, BeginCleanup
    <3> QED BY <1>0, <1>p, <2>3, <3>1, <3>2, PhaseMoves DEF Starts
  <2>5. CASE Starts("reset") /\ ~Running("reset")
    <3>1. proc["live"].phase \in {"idle", "done"} /\ ~Running("cleanup")
      BY <2>5 DEF Starts, BeginBlocked, BeginCleanup, Excluded, Running
    <3>2. proc["reset"].phase = "idle" \/ proc["reset"].phase = "done"
      BY <1>p, <2>5 DEF Types, Process, Running
    <3>3. proc'["reset"] # proc["reset"] BY <2>1, <2>5 DEF Running
    <3>4. Others("reset")
      <4>1. StepOf("reset") \/ Begin("reset") BY <1>0, <1>p, <3>3, OneMoves
      <4> QED BY <4>1, <2>5 DEF StepOf, Begin
    <3> QED BY <1>p, <3>1, <3>4 DEF Others, Running
  <2> QED BY <2>2, <2>4, <2>5
<1>8. (proc["verify"].phase # "idle" =>
         /\ proc["live"].phase = "done" \/ (K.live.body = << >> /\ saved.build = saved.archived)
         /\ ~Running("suite") /\ saved.archived \in 1 .. Len(built))'
  <2>0. Len(built) \in Nat /\ Len(built') \in Nat /\ Len(built) <= Len(built')
    BY <1>0, BuiltGrows
  <2>1. SUFFICES ASSUME proc'["verify"].phase # "idle"
                 PROVE  /\ proc'["live"].phase = "done"
                           \/ (c.live.body = << >> /\ saved'.build = saved'.archived)
                        /\ ~Running("suite")' /\ saved'.archived \in 1 .. Len(built')
    BY <1>0 DEF K
  <2>2. CASE BeginVerify /\ proc["verify"].phase = "idle"
    <3>1. PICK n \in 1 .. Len(built) :
            saved' = [saved EXCEPT !.archived = n, !.build = IF c.live.body = << >> THEN n ELSE @]
      BY <2>2 DEF BeginVerify, K
    <3>2. saved'.archived = n /\ (c.live.body = << >> => saved'.build = n)
      BY <3>1 DEF Types, Evidence
    <3>3. proc' = [proc EXCEPT !["verify"] = Started("verify")] BY <2>2 DEF BeginVerify
    <3>4. proc'["live"] = proc["live"] /\ proc'["suite"] = proc["suite"] BY <1>p, <3>3 DEF Types
    <3>5. CASE c.live.body = << >>
      <4>1. proc["live"].phase = "idle" BY <1>p, <3>5 DEF Controlled, Control1, K
      <4>2. proc["suite"].phase = "idle" BY <1>n, <1>p, <4>1 DEF Excluded
      <4> QED BY <2>0, <3>2, <3>4, <3>5, <4>2 DEF Running
    <3>6. CASE c.live.body # << >>
      <4>1. proc["live"].phase = "done" /\ ~Running("suite") BY <2>2, <3>6 DEF BeginVerify, K
      <4> QED BY <2>0, <3>2, <3>4, <4>1 DEF Running
    <3> QED BY <3>5, <3>6
  <2>3. CASE ~(BeginVerify /\ proc["verify"].phase = "idle")
    <3>1. proc["verify"].phase # "idle" BY <1>0, <1>p, <2>1, <2>3, PhaseMoves DEF Starts
    <3>2. /\ proc["live"].phase = "done" \/ (c.live.body = << >> /\ saved.build = saved.archived)
          /\ ~Running("suite") /\ saved.archived \in 1 .. Len(built)
      BY <3>1 DEF Excluded, K
    <3>3. ~BeginVerify /\ ~BeginLive
      BY <3>1, <3>2 DEF BeginVerify, BeginLive, Fresh, K
    <3>4. saved'.build = saved.build /\ saved'.archived = saved.archived
      BY <1>0, <3>3 DEF SavedMoves, SameBuilds, Copies, Lists
    <3>5. ~Running("live")
      BY <1>p, <3>2 DEF Running, Controlled, Control1, K
    <3>6. ~Running("suite")' BY <1>0, <1>p, <3>2, <3>5, PhaseMoves DEF Starts, StartSuite
    <3>7. proc["live"].phase = "done" => proc'["live"].phase = "done"
      BY <1>0, <1>p, <3>1, PhaseMoves DEF Again
    <3> QED BY <2>0, <3>2, <3>4, <3>6, <3>7
  <2> QED BY <2>2, <2>3
<1> QED BY <1>1, <1>2, <1>3, <1>4, <1>5, <1>6, <1>7, <1>8 DEF Excluded

-----------------------------------------------------------------------------
(* The processes, and the receipts that guard what they do.                *)

Sound == Types /\ Controlled /\ Excluded

LEMMA SoundInit ==
  ASSUME Init
  PROVE  Sound
<1>1. proc = [x \in Procs |-> NewProc] /\ built = << >> BY DEF Init
<1>2. NewProc \in Process BY DEF NewProc, Process, Receipts, None
<1>3. Types
  <2>1. \E n \in DOMAIN Campaigns : c = Campaigns[n] BY DEF Init
  <2>2. proc \in [Procs -> Process] BY <1>1, <1>2
  <2>3. built \in Seq(Directory) BY <1>1
  <2>4. Zero(Ps) \in Counts BY DEF Zero, Counts
  <2>5. NewTmm(Ps, 1) \in Tmm BY DEF NewTmm, Tmm, Objects, Counts, NoObject, Bytes
  <2>6. w \in World BY <2>4, <2>5 DEF Init, World
  <2>7. saved \in Evidence BY <2>4 DEF Init, Evidence, Receipts, None
  <2>8. src = 0 /\ events = 0 /\ hurt = FALSE BY DEF Init
  <2>9. src \in Nat /\ events \in Int BY <2>8
  <2>10. hurt \in BOOLEAN BY <2>8
  <2> QED BY <2>1, <2>2, <2>3, <2>6, <2>7, <2>9, <2>10 DEF Types
<1>4. \A x \in Procs : proc[x] = NewProc BY <1>1
<1>5. Controlled BY <1>4 DEF Controlled, Control1, NewProc, None
<1>6. Excluded
  <2>1. \A x \in Procs : proc[x].phase = "idle" /\ ~Running(x) BY <1>4 DEF NewProc, Running
  <2>2. /\ "build" \in Procs /\ "live" \in Procs /\ "suite" \in Procs
        /\ "cleanup" \in Procs /\ "reset" \in Procs /\ "verify" \in Procs
    BY DEF Procs
  <2>3. ~Pending BY <2>1, <2>2 DEF Pending
  <2> QED BY <1>1, <2>1, <2>2, <2>3 DEF Excluded, Busy
<1> QED BY <1>3, <1>5, <1>6 DEF Sound

LEMMA SoundStep ==
  ASSUME Sound, [Next]_vars
  PROVE  Sound'
BY NextAt, ExcludedStep DEF Sound

\* Past its reservation a process holds an open receipt.
LEMMA HeldOpen ==
  ASSUME Types, Controlled, NEW x \in Procs \ {"verify"}, proc[x].phase \in {"body", "final"}
  PROVE  proc[x].receipt = "open"
<1>1. Control1(x) /\ Shaped(c) BY Formed DEF Controlled
<1>2. c[x].body # << >> BY <1>1 DEF Control1, K
<1>3. c[x].prep # << >> BY <1>1, <1>2 DEF Shaped
<1> QED BY <1>1, <1>3 DEF Control1, Held, K

\* Where an operation on TMM, the collector or the monitors is used.
Touches == {"watch", "unwatch", "up", "down", "remove", "load", "revoke", "arm", "disarm"}
LEMMA HomeOfTouches ==
  ASSUME NEW op \in Touches, NEW x \in Procs, NEW ph, <<x, ph>> \in Home(op)
  PROVE  x \in {"live", "suite", "cleanup", "reset"} /\ ph \in {"body", "final"}
BY DEF Home, Touches

LEMMA GuardedStep ==
  ASSUME Sound, [Next]_vars
  PROVE  /\ \A x \in Procs \ {"build"} : proc[x].receipt \in {"passed", "failed"} =>
              proc'[x].receipt = proc[x].receipt
         /\ Touched => \E x \in {"live", "suite", "cleanup", "reset"} : proc[x].receipt = "open"
<1>0. Types /\ Controlled /\ Excluded /\ Moves /\ WorldMoves BY NextAt DEF Sound
<1>1. \A x \in Procs \ {"build"} : proc[x].receipt \in {"passed", "failed"} =>
        proc'[x].receipt = proc[x].receipt
  BY <1>0, PhaseMoves
<1>2. SUFFICES ASSUME Touched PROVE \E x \in {"live", "suite", "cleanup", "reset"} : proc[x].receipt = "open"
  BY <1>1
<1>3. CASE w' = w BY <1>2, <1>3 DEF Touched, T
<1>4. CASE Switches
  <2>1. proc["live"].phase = "body" BY <1>0, <1>4, AtSuite DEF Switches, Controls
  <2>2. "live" \in Procs \ {"verify"} BY DEF Procs
  <2>3. proc["live"].receipt = "open" BY <1>0, <2>1, <2>2, HeldOpen
  <2> QED BY <2>3
<1>5. CASE Flows
  BY <1>2, <1>5 DEF Flows, KeepsFiles, Touched, T
<1>6. CASE Restarts
  <2>1. w.tmm.tmm \in Nat BY <1>0 DEF Types, World, Tmm
  <2>2. w'.tmm.tmm # w.tmm.tmm BY <1>6, <2>1 DEF Restarts
  <2> QED BY <1>2, <2>2 DEF Touched, T
<1>7. ASSUME NEW x \in Procs, Affects(x) PROVE \E y \in {"live", "suite", "cleanup", "reset"} : proc[y].receipt = "open"
  <2>1. LeavesAlone(Current(x)[1], w') /\ <<x, proc[x].phase>> \in Home(Current(x)[1])
    BY <1>7 DEF Affects
  <2>2. Current(x)[1] \in Touches BY <1>2, <2>1 DEF LeavesAlone, Touched, Touches, T
  <2>3. x \in {"live", "suite", "cleanup", "reset"} /\ proc[x].phase \in {"body", "final"}
    BY <2>1, <2>2, HomeOfTouches
  <2>4. proc[x].receipt = "open" BY <1>0, <2>3, HeldOpen
  <2> QED BY <2>3, <2>4
<1> QED BY <1>0, <1>3, <1>4, <1>5, <1>6, <1>7 DEF WorldMoves

\* Every process of an experiment is where its script says, no two run that
\* would disturb each other, and the receipt of each tells how far it is.
THEOREM ProcessesSound == Spec => []Sound
<1>1. Init => Sound BY SoundInit
<1>2. Sound /\ [Next]_vars => Sound' BY SoundStep
<1> QED BY <1>1, <1>2, PTL DEF Spec

\* A receipt once written never changes, and the drivers, suites and cleanups
\* touch TMM, the collector and the monitors only under a reserved receipt.
THEOREM ReceiptsGuarded == Spec => ReceiptsGuard
<1>1. Sound /\ [Next]_vars =>
        [/\ \A x \in Procs \ {"build"} : proc[x].receipt \in {"passed", "failed"} =>
              proc'[x].receipt = proc[x].receipt
         /\ Touched => \E x \in {"live", "suite", "cleanup", "reset"} : proc[x].receipt = "open"]_vars
  BY GuardedStep
<1> QED BY <1>1, ProcessesSound, PTL DEF Spec, ReceiptsGuard
=============================================================================
