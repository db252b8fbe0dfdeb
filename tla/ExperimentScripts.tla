------------------------- MODULE ExperimentScripts -------------------------
(***************************************************************************)
(* The programs of env/ai-traffic as scripts of module Experiment: for     *)
(* each file the steps it takes, in its order.  A step is an operation and *)
(* the program (or the request) it is about.  A loop over cases of one     *)
(* kind is one round of it; what a step compares in detail (bytes, names,  *)
(* layouts) is in Experiment only as far as it decides between states the  *)
(* properties tell apart.                                                  *)
(***************************************************************************)
EXTENDS Integers, Sequences

-----------------------------------------------------------------------------
(* Building scripts.                                                       *)

Do(ops) == [i \in 1 .. Len(ops) |-> <<ops[i], "">>]

Each(op, ps) == [i \in 1 .. Len(ps) |-> <<op, ps[i]>>]

\* For each program all operations, in order.
EachOf(ps, ops) ==
  [i \in 1 .. Len(ps) * Len(ops) |->
     <<ops[((i - 1) % Len(ops)) + 1], ps[((i - 1) \div Len(ops)) + 1]>>]

\* One cleanup block for each program.
Blocks(ps, ops) == [i \in 1 .. Len(ps) |-> EachOf(<<ps[i]>>, ops)]

NoScript == [prep |-> << >>, body |-> << >>, final |-> << >>]

\* A receipt opened exclusively, a guarded body, cleanup blocks.
Script(body, final) == [prep |-> Do(<<"reserve">>), body |-> body, final |-> final]

\* What a name in a set of programs is patched how often.
Times(ps, n) == [p \in ps |-> n]

Campaign(programs, patches, build, live, suite) ==
  [programs |-> programs, patches |-> patches, requests |-> 0, create |-> NoScript,
   build |-> build, live |-> live, suite |-> suite, cleanup |-> NoScript, reset |-> NoScript,
   verify |-> NoScript]

-----------------------------------------------------------------------------
(* The fixture.                                                            *)

FixtureCreate ==
  Script(Do(<<"sources", "not there", "make", "image", "ready", "inventory">>), << >>)

ArchiveCleanup(ps) ==
  Script(Do(<<"sources", "owned", "passed run">>) \o Each("witness", ps)
           \o Do(<<"disarmed", "manifest", "archive", "remove", "inventory">>), << >>)

\* The fixture with the snapshot runtime, whose package must have passed.
InitializationPrep == Do(<<"package", "reserve">>)
InitializationCreate ==
  [prep |-> InitializationPrep,
   body |-> Do(<<"sources", "not there", "make", "image", "ready", "inventory">>), final |-> << >>]

InitializationCleanup(ps) == [ArchiveCleanup(ps) EXCEPT !.prep = InitializationPrep]

\* The fixture of a build that was not admitted: nothing was ever loaded into it.
InitializationBlocked(ps) ==
  [prep |-> InitializationPrep,
   body |-> Do(<<"sources", "failed build", "created">>) \o Each("witness", ps)
              \o Each("untouched", ps)
              \o Do(<<"summary", "manifest", "archive", "remove", "inventory">>),
   final |-> << >>]

\* A failed run is archived before its fixture is removed.
JsonLifecycleReset(ps) ==
  Script(Do(<<"failed run", "result", "sources", "owned">>) \o Each("witness", ps)
           \o Do(<<"disarmed", "manifest", "archive", "remove", "inventory">>), << >>)

-----------------------------------------------------------------------------
(* Builds.                                                                 *)

\* What makes one signed object.
Object(p, ops) == Each("compile", <<p>>) \o Each("transform", <<p>>) \o EachOf(<<p>>, ops)

SessionRoutingBuild ==
  Script(Do(<<"discovery", "layout", "sources", "tools", "harness">>)
           \o Object("session", <<"transform", "prevail", "native", "sign", "digest">>)
           \o Object("route", <<"transform", "prevail", "native", "sign", "digest">>)
           \o Do(<<"pair harness">>), << >>)

TokenMethodBuild ==
  Script(Do(<<"discovery", "sources", "tools", "harness">>)
           \o Object("token", <<"transform", "prevail", "native", "sign", "digest">>), << >>)

ResponseMetadataBuild ==
  Script(Do(<<"discovery", "sources", "tools", "harness">>)
           \o Object("response", <<"transform", "prevail", "native", "sign", "digest">>), << >>)

OperationTargetBuild ==
  Script(Do(<<"sources", "discovery", "tools", "harness">>)
           \o Object("target", <<"transform", "prevail", "native", "sign", "digest">>), << >>)

MessageIdBuild ==
  Script(Do(<<"sources", "discovery", "tools", "harness">>)
           \o Object("id", <<"transform", "prevail", "native", "sign", "digest">>), << >>)

ReplyMetadataBuild ==
  Script(Do(<<"sources", "discovery", "tools", "harness">>)
           \o Object("reply", <<"transform", "prevail", "native", "sign", "digest">>), << >>)

IdFlowBuild ==
  Script(Do(<<"sources", "discovery", "scope", "tree", "tools", "harness">>)
           \o Object("id", <<"transform", "prevail", "native", "sign", "digest">>), << >>)

MetadataBuild ==
  Script(Do(<<"discovery", "sources", "tools", "runtime">>)
           \o Object("a2a", <<"transform", "prevail", "sign", "digest">>)
           \o Object("aimcp", <<"transform", "prevail", "sign", "digest">>)
           \o Do(<<"harness">>) \o Each("native", <<"a2a", "aimcp">>), << >>)

MethodBuild ==
  Script(Do(<<"discovery", "sources", "tools", "runtime">>)
           \o Object("method", <<"transform", "prevail", "sign", "digest">>)
           \o Do(<<"harness">>) \o Each("native", <<"method">>), << >>)

RequestScopeBuild ==
  Script(Do(<<"sources", "tools", "runtime">>)
           \o Object("scope", <<"transform", "prevail", "native", "sign", "digest">>), << >>)

LifetimeBuild ==
  Script(Do(<<"discovery", "sources", "tools", "runtime">>)
           \o Object("init", <<"transform", "prevail", "sign", "digest">>)
           \o Object("parse", <<"transform", "prevail", "sign", "digest">>)
           \o Object("fini", <<"transform", "prevail", "sign", "digest">>)
           \o Do(<<"harness">>) \o Each("native", <<"init", "parse", "fini">>), << >>)

\* The three programs of the lifetime build and one new one.
CorrelationBuild ==
  Script(Do(<<"previous", "sources">>) \o EachOf(<<"init", "parse", "fini">>, <<"import", "digest">>)
           \o Do(<<"tools">>) \o Object("candidate", <<"transform", "prevail", "sign", "digest">>)
           \o Do(<<"harness">>) \o Each("native", <<"init", "parse", "fini", "candidate">>), << >>)

\* The four programs of the correlation build, verified again.
GapBuild ==
  Script(Do(<<"previous", "sources", "pins", "runtime">>)
           \o EachOf(<<"init", "parse", "fini", "candidate">>, <<"import", "digest", "prevail">>)
           \o Do(<<"harness">>) \o Each("native", <<"init", "parse", "fini", "candidate">>)
           \o Do(<<"trace", "consumer">>), << >>)

\* The probe of the configuration suite, and the objects of the template's own
\* build, which are signed here.
ConfigBuildProbe ==
  [prep  |-> Do(<<"no object", "reserve">>),
   body  |-> Do(<<"sources", "runtime", "tools">>)
               \o Object("observe", <<"transform", "prevail", "sign", "digest">>),
   final |-> << >>]
TemplatePrepare ==
  Script(Do(<<"bench", "runtime", "sources">>)
           \o EachOf(<<"template">>, <<"import", "sign", "digest">>) \o Do(<<"bindings">>), << >>)

JsonLifecycleBuild ==
  Script(Do(<<"discovery", "sources", "tools">>)
           \o Object("handler", <<"transform", "prevail", "sign", "digest">>)
           \o Object("complete", <<"transform", "prevail", "sign", "digest">>)
           \o Object("reset", <<"transform", "prevail", "sign", "digest">>)
           \o Do(<<"harness">>) \o Each("native", <<"handler", "complete", "reset">>)
           \o Do(<<"windows">>), << >>)

InitializationObject == Do(<<"sources", "tools">>) \o Each("compile", <<"initialization">>)
InitializationTarget ==
  Do(<<"package", "runtime", "qualified sources", "symbols", "instructions", "layout">>)
    \o Each("transform", <<"initialization">>)
InitializationTests ==
  EachOf(<<"initialization">>, <<"prevail", "native", "sign", "digest">>)
JsonInitializationProgram ==
  Script(InitializationObject \o InitializationTarget \o InitializationTests, << >>)

ActivityLayouts == Do(<<"sources", "tools", "runtime", "layout", "client TLS layout">>)
\* One object for both hooks: compiled, stripped, bound, each section verified.
ActivityObjects ==
  Each("compile", <<"json", "http">>) \o Each("transform", <<"json", "http">>)
    \o Each("transform", <<"json", "http">>) \o Each("prevail", <<"json", "http">>)
ActivityTargets == Do(<<"mutated targets">>) \o Each("native", <<"json", "http">>)
ActivitySigned == Do(<<"old parser", "package">>) \o EachOf(<<"json", "http">>, <<"sign", "digest">>)
ActivityProgramBuild ==
  Script(ActivityLayouts \o ActivityObjects \o ActivityTargets \o ActivitySigned, << >>)

\* Native harnesses only; nothing is signed.
VoidCompletionBuild ==
  Script(Do(<<"discovery", "tools", "sources">>) \o EachOf(<<"void">>, <<"compile", "native">>)
           \o Do(<<"regressions">>), << >>)

\* The native tests run on the objects before they are bound to a target.
EntrySnapshotBuild ==
  Script(Do(<<"sources", "tools">>) \o EachOf(<<"snapshot">>, <<"compile", "prevail", "native">>)
           \o Do(<<"regressions">>) \o EachOf(<<"snapshot">>, <<"transform", "prevail">>)
           \o Do(<<"admission", "parsers", "mutated targets">>), << >>)

-----------------------------------------------------------------------------
(* Live drivers.                                                           *)

\* The collector is stopped and its journal copied, each monitor ends and is
\* checked, TMM is compared, the evidence read, the slots looked at.
DriverFinal(ps) ==
  <<Do(<<"logs", "down", "journal">>)>> \o Blocks(ps, <<"unwatch", "witnessed">>)
    \o <<Do(<<"after", "files">>) \o Each("idle", ps)>>

\* What is looked at first, then the monitors, the collector and the suite.
CollectorDriver(first, ps) ==
  [prep  |-> Do(<<"image build", "reserve">>),
   body  |-> Do(first) \o EachOf(ps, <<"objects", "watch">>)
               \o Do(<<"source", "up", "image", "ready", "suite">>),
   final |-> DriverFinal(ps)]

SessionRoutingLive ==
  CollectorDriver(<<"sources", "builder", "program", "before", "lint">>, <<"session", "route">>)
ResponseMetadataLive ==
  CollectorDriver(<<"sources", "program", "before", "lint">>, <<"response">>)
TokenMethodLive == CollectorDriver(<<"sources", "program", "before", "lint">>, <<"token">>)
OperationTargetLive == CollectorDriver(<<"sources", "program", "before", "lint">>, <<"target">>)

\* These make the evidence directory and look at the fixture's mounts first.
IdFlowLive ==
  CollectorDriver(<<"sources", "program", "before", "mkdir", "mounts", "lint">>, <<"id">>)
MessageIdLive ==
  CollectorDriver(<<"sources", "program", "before", "mkdir", "mounts", "lint">>, <<"id">>)
ReplyMetadataLive ==
  CollectorDriver(<<"sources", "program", "before", "mkdir", "mounts", "lint">>, <<"reply">>)
JsonLifecycleLive ==
  CollectorDriver(<<"sources", "program", "before", "mkdir", "mounts", "lint">>,
                  <<"handler", "complete", "reset">>)

\* The driver of the snapshot runtime, for one or two programs.  Builds that
\* did not pass are refused before any live command.
JsonInitializationLive(ps) ==
  Script(Do(<<"program", "sources", "before", "image", "mkdir", "mounts", "lint">>)
           \o EachOf(ps, <<"objects", "watch">>)
           \o Do(<<"source", "up", "image", "ready", "suite">>), DriverFinal(ps))

\* The driver of the suites without a collector container; for the collector
\* suite it runs the collector in TMM's container.
LifetimeLive(ps, collector) ==
  Script(Do(<<"sources", "program">>) \o Each("objects", ps) \o Do(<<"before", "lint">>)
           \o Each("watch", ps) \o (IF collector THEN Do(<<"up">>) ELSE << >>) \o Do(<<"suite">>),
         <<Do(<<"down", "journal">>)>> \o Blocks(ps, <<"unwatch", "witnessed">>)
           \o <<Do(<<"after", "files">>) \o Each("idle", ps)>>)

\* All that follows the suite is one block.
ConfigLive(ps) ==
  Script(Do(<<"sources", "program", "before">>) \o Each("watch", ps) \o Do(<<"suite">>),
         <<Each("unwatch", ps) \o Do(<<"after", "files">>) \o Each("witnessed", ps)>>)

ContainerPrepared ==
  Do(<<"sources", "program">>) \o Each("objects", <<"method">>) \o Do(<<"before", "lint">>)
    \o Each("watch", <<"method">>) \o Do(<<"source", "negative checks">>)
ContainerRun == Do(<<"up", "consumers", "suite", "compare consumers">>)
\* The driver waits for a suite it is about to leave.  It does not look at the exit
\* codes of the logs and the stop, and fetches journal and files after a run
\* without an error only.
ContainerFinal ==
  << Do(<<"await">>), Each("logs", <<"unchecked">>) \o Each("down", <<"unchecked">>)
                        \o Each("journal", <<"passed">>) \o Each("files", <<"passed">>),
     Do(<<"consumers removed">>), EachOf(<<"method">>, <<"unwatch", "witnessed">>), Do(<<"after">>) >>
CollectorContainerLive ==
  [prep |-> Do(<<"image build", "reserve">>), body |-> ContainerPrepared \o ContainerRun,
   final |-> ContainerFinal]

-----------------------------------------------------------------------------
(* Suites: the parts that many share.                                      *)

\* Records already in the ring are thrown away, every program is loaded and
\* given its row, the counters are read, every hook is armed.
MetadataStart(ps) ==
  Do(<<"discard">>) \o EachOf(ps, <<"load", "publish">>) \o Do(<<"counts">>)
    \o Each("arm", ps)

\* Every disarm and every revoke is attempted.
MetadataCleanup(ps) == Blocks(ps, <<"disarm">>) \o Blocks(ps, <<"revoke">>)

MetadataDrain == Do(<<"drain">>)
MetadataRequest == Do(<<"traffic">>)

\* With a collector the journal's end is looked up instead.
SessionRoutingStart(ps) ==
  Do(<<"cursor">>) \o EachOf(ps, <<"load", "publish">>) \o Do(<<"counts">>) \o Each("arm", ps)

\* The counters are read, then the journal is paged until it has as much.
SessionRoutingPage == Do(<<"pages">>)
SessionRoutingDrain == Do(<<"target">>) \o SessionRoutingPage

(* Metadata, method and collector suites.                                  *)

MetadataConfigure == Do(<<"configure">>)
MetadataOrigin == Do(<<"origin">>)
MetadataFinish(ps) ==
  MetadataDrain \o Each("disarm", ps) \o MetadataDrain \o Do(<<"target", "exact", "moved">>)
MetadataSuite ==
  LET ps == <<"a2a", "aimcp">> IN
  Script(MetadataConfigure \o MetadataStart(ps) \o MetadataRequest \o MetadataDrain
           \o MetadataRequest \o MetadataDrain \o MetadataFinish(ps) \o MetadataOrigin,
         MetadataCleanup(ps))

MethodDrain == Do(<<"drain">>)
MethodFinish(drain) ==
  drain \o Each("disarm", <<"method">>) \o drain \o Do(<<"target", "exact", "moved">>)
MethodCompare(drain) == Do(<<"traffic">>) \o drain \o Do(<<"compare">>)
\* The last kind of request does not reach the getter.
MethodTest(start, first, second, drain, finish, cleanup) ==
  Script(MetadataConfigure \o start \o first \o second \o Do(<<"unobserved">>) \o drain
           \o Do(<<"compare">>) \o finish \o MetadataOrigin, cleanup)
MethodSuite ==
  MethodTest(MetadataStart(<<"method">>), MethodCompare(MethodDrain), MethodCompare(MethodDrain),
             MethodDrain, MethodFinish(MethodDrain), MetadataCleanup(<<"method">>))

\* A replay server beside the suite; it is terminated after the cleanup.
CollectorStart == Do(<<"server", "cursor">>) \o EachOf(<<"method">>, <<"load", "publish">>)
                    \o Do(<<"counts">>) \o Each("arm", <<"method">>)
CollectorDrain == Do(<<"target", "pages">>)
CollectorFinish == MethodFinish(CollectorDrain) \o Do(<<"replay", "compare">>)
CollectorCleanup == MetadataCleanup(<<"method">>) \o <<Do(<<"terminate">>)>>
CollectorSuite ==
  MethodTest(CollectorStart, MethodCompare(CollectorDrain), MethodCompare(CollectorDrain),
             CollectorDrain, CollectorFinish, CollectorCleanup)

\* Two requests are sent while the collector is stopped or killed.
ContainerControl(action) == <<<<"ask", action>>, <<"answered", "">>>>
ContainerRequest(action) ==
  ContainerControl(action) \o Do(<<"traffic">>) \o ContainerControl("resume")
    \o CollectorDrain \o Do(<<"compare">>)
CollectorContainerSuite ==
  MethodTest(CollectorStart, ContainerRequest("stop"), ContainerRequest("kill"),
             CollectorDrain, CollectorFinish, MetadataCleanup(<<"method">>))

(* Suites that read the collector's journal.                               *)

SessionRoutingConfigure == Do(<<"configure">>)
SessionRoutingCompare == Do(<<"traffic">>) \o SessionRoutingDrain \o Do(<<"compare">>)
SessionRoutingFinish(ps) ==
  SessionRoutingDrain \o Each("disarm", ps) \o SessionRoutingDrain \o Do(<<"moved", "replay">>)
SessionRoutingSuite ==
  LET ps == <<"session", "route">> IN
  Script(SessionRoutingConfigure \o SessionRoutingStart(ps) \o SessionRoutingCompare
           \o SessionRoutingCompare \o SessionRoutingFinish(ps) \o Do(<<"origin">>),
         MetadataCleanup(ps))

\* A paced response is looked at before its end is sent.
ResponseDrain == Do(<<"target", "pages">>)
ResponseOrigin == Do(<<"origin">>)
ResponseCompare(paced) ==
  Do(<<"traffic">>) \o ResponseDrain
    \o (IF paced THEN Do(<<"traffic">>) \o ResponseDrain ELSE << >>) \o Do(<<"compare">>)
ResponseFinish ==
  Each("disarm", <<"response">>) \o ResponseDrain \o Do(<<"target", "exact", "replay">>)
ResponseMetadataSuite ==
  Script(SessionRoutingConfigure \o SessionRoutingStart(<<"response">>) \o ResponseCompare(FALSE)
           \o ResponseCompare(TRUE) \o ResponseFinish \o ResponseOrigin,
         MetadataCleanup(<<"response">>))

TokenDrain == Do(<<"target", "pages">>)
TokenCompare == Do(<<"traffic">>) \o TokenDrain \o Do(<<"compare">>)
TokenFinish ==
  TokenDrain \o Each("disarm", <<"token">>) \o TokenDrain
    \o Do(<<"target", "exact", "moved", "replay">>)
TokenMethodSuite ==
  Script(MetadataConfigure \o SessionRoutingStart(<<"token">>) \o TokenCompare \o TokenCompare
           \o TokenFinish \o MetadataOrigin, MetadataCleanup(<<"token">>))

OperationDrain == Do(<<"target", "pages">>)
OperationCompare == Do(<<"traffic">>) \o OperationDrain \o Do(<<"compare">>)
OperationFinish ==
  Each("disarm", <<"target">>) \o OperationDrain \o Do(<<"target", "exact", "replay">>)
OperationTargetSuite ==
  Script(SessionRoutingConfigure \o SessionRoutingStart(<<"target">>) \o OperationCompare
           \o OperationCompare \o OperationFinish \o MetadataOrigin, MetadataCleanup(<<"target">>))

MessageIdDrain == Do(<<"target", "pages">>)
MessageIdOrigin == Do(<<"origin">>)
MessageIdCompare == Do(<<"traffic">>) \o MessageIdDrain \o Do(<<"compare">>)
MessageIdFinish ==
  Each("disarm", <<"id">>) \o MessageIdDrain \o Do(<<"target", "exact", "replay">>)
MessageIdSuite ==
  Script(SessionRoutingConfigure \o SessionRoutingStart(<<"id">>) \o MessageIdCompare
           \o MessageIdCompare \o MessageIdFinish \o MessageIdOrigin, MetadataCleanup(<<"id">>))

ReplyDrain == Do(<<"target", "pages">>)
ReplyOrigin == Do(<<"origin">>)
ReplyCompare == Do(<<"traffic">>) \o ReplyDrain \o Do(<<"compare">>)
ReplyFinish ==
  Each("disarm", <<"reply">>) \o ReplyDrain \o Do(<<"target", "exact", "replay">>)
ReplyMetadataSuite ==
  Script(SessionRoutingConfigure \o SessionRoutingStart(<<"reply">>) \o ReplyCompare \o ReplyCompare
           \o ReplyFinish \o ReplyOrigin, MetadataCleanup(<<"reply">>))

\* Single requests, a connection that is kept, concurrent connections.
IdFlowDrain == Do(<<"target", "pages">>)
IdFlowOrigin == Do(<<"origin">>)
IdFlowExchange == Do(<<"traffic">>)
IdFlowCompareGroup == IdFlowDrain \o Do(<<"compare">>)
IdFlowKeepAlive == IdFlowExchange \o IdFlowExchange \o IdFlowCompareGroup
IdFlowConcurrent == IdFlowExchange \o IdFlowExchange \o IdFlowCompareGroup
IdFlowSuite ==
  Script(SessionRoutingConfigure \o SessionRoutingStart(<<"id">>) \o IdFlowExchange
           \o IdFlowCompareGroup \o IdFlowKeepAlive \o IdFlowConcurrent \o MessageIdFinish
           \o IdFlowOrigin, MetadataCleanup(<<"id">>))

\* A request that was begun before the hooks are armed comes first.
LifecycleDrain == Do(<<"target", "pages">>)
LifecycleOne == Do(<<"traffic">>)
LifecycleCompareGroup == LifecycleDrain \o Do(<<"compare">>)
LifecycleFinish(ps) ==
  LifecycleDrain \o Each("disarm", ps) \o LifecycleDrain \o Do(<<"moved", "replay", "windows">>)
JsonLifecycleSuite ==
  LET ps == <<"handler", "complete", "reset">> IN
  Script(SessionRoutingConfigure \o Do(<<"open">>) \o SessionRoutingStart(ps) \o LifecycleOne
           \o LifecycleDrain \o LifecycleOne \o LifecycleCompareGroup \o LifecycleFinish(ps),
         MetadataCleanup(ps))

InitializationDrain == Do(<<"target", "pages">>)
InitializationOne == Do(<<"traffic">>)
InitializationCompareGroup == InitializationDrain \o Do(<<"compare">>)
InitializationFinish ==
  InitializationDrain \o Each("disarm", <<"initialization">>) \o InitializationDrain
    \o Do(<<"target", "exact", "moved", "replay">>)
JsonInitializationSuite ==
  Script(SessionRoutingConfigure \o Do(<<"open">>) \o SessionRoutingStart(<<"initialization">>)
           \o InitializationOne \o InitializationDrain \o InitializationOne
           \o InitializationCompareGroup \o InitializationFinish,
         MetadataCleanup(<<"initialization">>))

\* An arm of a slot at another program's hook is refused.
ActivityDrain == Do(<<"target", "pages">>)
ActivityOrigin == Do(<<"origin">>)
ActivityCompareCase == Do(<<"traffic">>) \o ActivityDrain \o Do(<<"compare">>)
ActivityFinish(ps) == Each("disarm", ps) \o ActivityDrain \o Do(<<"moved", "replay">>)
ActivityProgramSuite ==
  LET ps == <<"json", "http">> IN
  Script(SessionRoutingConfigure \o SessionRoutingStart(ps) \o Do(<<"refused">>)
           \o ActivityCompareCase \o ActivityCompareCase \o ActivityFinish(ps) \o ActivityOrigin,
         MetadataCleanup(ps))

\* The records of the concurrent requests are only drained after the disarm.
CombinedDrain == ActivityDrain
CombinedClient == Do(<<"traffic">>)
CombinedFinish(ps) == ActivityFinish(ps) \o Do(<<"compare">>)
ActivityCombinedSuite ==
  LET ps == <<"json", "http">> IN
  Script(SessionRoutingConfigure \o SessionRoutingStart(ps) \o CombinedClient \o CombinedDrain
           \o CombinedClient \o CombinedDrain \o CombinedClient \o CombinedClient
           \o CombinedFinish(ps), MetadataCleanup(ps))

\* Keys are made before the result is reserved, and erased after the cleanup.
TlsPki == Do(<<"keys">>)
TlsConfigure == Do(<<"configure">>)
TlsClient == Do(<<"traffic">>)
TlsFinish(ps) == ActivityFinish(ps) \o Do(<<"compare">>)
TlsModeSuite ==
  LET ps == <<"json", "http">> IN
  [prep  |-> TlsPki \o Do(<<"reserve">>),
   body  |-> TlsConfigure \o SessionRoutingStart(ps) \o TlsClient \o CombinedDrain
               \o TlsClient \o CombinedDrain \o TlsClient \o TlsClient \o CombinedDrain
               \o TlsFinish(ps),
   final |-> MetadataCleanup(ps) \o <<Do(<<"erase">>)>>]

(* Suites without a collector: they read the ring themselves.              *)

\* Hooks are disarmed and slots revoked as far as each was noted.
LifetimeStop(ps) == Each("disarm", ps) \o Each("revoke", ps)
LifetimeStart(ps) ==
  Do(<<"discard">>) \o EachOf(ps, <<"load", "publish">>) \o Do(<<"counts">>)
LifetimeAttach(p) == Each("arm", <<p>>)
LifetimeDetach(p) == Each("disarm", <<p>>)
LifetimeDrain == Do(<<"drain">>)
\* The calls of one window, and its records.
LifetimeCollect == Do(<<"traffic">>) \o LifetimeDrain
\* Drains until the parsers that were seen to begin have ended.
LifetimeSettle == LifetimeDrain
\* A connection from before the hooks, one without its beginning, then
\* complete ones; the counters are read while the hooks are armed.
LifetimeExercise(ps, start) ==
  Do(<<"unobserved">>) \o start \o LifetimeCollect \o LifetimeSettle \o LifetimeDetach("init")
    \o Do(<<"traffic">>) \o LifetimeAttach("init") \o Do(<<"traffic">>) \o LifetimeSettle
    \o LifetimeCollect \o LifetimeSettle \o Do(<<"target">>) \o LifetimeStop(ps)
    \o Do(<<"mark", "traffic", "unmoved">>)
LifetimeReconcile == Do(<<"exact", "compare">>)
\* A client that fails to close keeps the cleanup from being tried.
LifetimeSuite ==
  LET ps == <<"init", "parse", "fini">> IN
  Script(Do(<<"configure">>)
           \o LifetimeExercise(ps, LifetimeStart(ps) \o Each("arm", <<"init", "fini", "parse">>))
           \o LifetimeReconcile,
         <<Do(<<"close">>)>> \o MetadataCleanup(ps))

CorrelationStart(ps) ==
  LifetimeStart(ps) \o Each("arm", <<"init", "fini", "parse">>) \o LifetimeAttach("candidate")
CorrelationDrain == Do(<<"drain">>)
CorrelationReconcile == Do(<<"exact", "compare", "joined">>)
\* Here the clients' failures are kept until the cleanup is through.
CorrelationSuite ==
  LET ps == <<"init", "parse", "fini", "candidate">> IN
  Script(Do(<<"configure">>) \o LifetimeExercise(ps, CorrelationStart(ps)) \o CorrelationReconcile,
         MetadataCleanup(ps) \o <<Do(<<"shut">>)>>)

GapStart(ps) == CorrelationStart(ps) \o Do(<<"identities">>)
GapDrain == Do(<<"drain">>)
GapQuiet == GapDrain
GapFinish(ps) == GapQuiet \o Do(<<"target", "exact", "identities", "joined">>) \o LifetimeStop(ps)
\* The hooks of an interval's ends are away for a while; all hooks are; or the
\* table of intervals is full.
GapExercise(name, ps) ==
  Do(<<"traffic">>) \o GapDrain
    \o (CASE name = "boundary" -> LifetimeDetach("init") \o LifetimeDetach("fini") \o GapQuiet
                                    \o Do(<<"traffic">>) \o GapDrain \o LifetimeAttach("init")
                                    \o LifetimeAttach("fini")
          [] name = "pause"    -> Each("disarm", ps) \o Do(<<"mark", "traffic", "unmoved">>)
                                    \o Each("arm", ps) \o Do(<<"traffic">>)
          [] OTHER             -> GapQuiet \o Do(<<"traffic">>))
GapWindow(name, ps) == GapStart(ps) \o GapExercise(name, ps) \o GapFinish(ps)
GapSuite ==
  LET ps == <<"init", "parse", "fini", "candidate">> IN
  Script(Do(<<"configure">>) \o GapWindow("baseline", ps) \o GapWindow("boundary", ps)
           \o GapWindow("pause", ps) \o GapWindow("capacity", ps) \o GapWindow("recovery", ps),
         MetadataCleanup(ps) \o <<Do(<<"shut">>)>>)

\* One program at slot 5; all cleanup is one block.
ConfigLoad == Each("load", <<"observe">>)
ConfigArm == Each("arm", <<"observe">>)
ConfigDisarm == Each("disarm", <<"observe">>)
ConfigPublish == Do(<<"publish">>)
ConfigTraffic == Do(<<"traffic">>)
ConfigPhase ==
  Do(<<"counts">>) \o ConfigTraffic \o Do(<<"target", "drain", "exact", "compare">>)
\* No row, a row, four documents that are refused, a second row, a withdrawn
\* one, and a reload, after which the old row is gone and its name refused.
ConfigExercise ==
  ConfigLoad \o ConfigArm \o ConfigPhase \o ConfigPublish \o ConfigPhase \o Do(<<"refused">>)
    \o ConfigPublish \o ConfigPhase \o Do(<<"withdraw">>) \o ConfigPhase
    \o ConfigDisarm \o ConfigLoad \o Do(<<"refused">>) \o ConfigArm \o ConfigPhase
    \o ConfigPublish \o ConfigPhase \o ConfigDisarm \o Do(<<"mark">>) \o ConfigTraffic
    \o Do(<<"unmoved">>) \o Each("revoke", <<"observe">>)
ConfigSuite ==
  Script(Do(<<"configure">>) \o ConfigTraffic \o ConfigExercise,
         <<EachOf(<<"observe">>, <<"disarm", "revoke">>)>>)

TemplateLoad == Each("load", <<"template">>)
TemplatePolicy == Do(<<"publish">>)
TemplateObserve == Do(<<"counts", "traffic", "target", "drain", "exact", "compare">>)
TemplatePrimeMaps ==
  Do(<<"discard">>) \o EachOf(<<"template">>, <<"load", "arm">>) \o TemplateObserve
    \o EachOf(<<"template">>, <<"disarm", "revoke">>)
\* Another slot is loaded and revoked while this one observes.
TemplateVariant ==
  TemplateLoad \o Each("arm", <<"template">>) \o TemplateObserve \o TemplatePolicy
    \o TemplateObserve \o Do(<<"second slot">>) \o TemplatePolicy \o TemplateObserve
    \o Each("disarm", <<"template">>) \o Do(<<"mark", "traffic", "unmoved">>)
    \o Each("revoke", <<"template">>)
TemplateSuite ==
  Script(Do(<<"configure", "traffic">>) \o TemplatePrimeMaps \o TemplateVariant \o TemplateVariant,
         <<EachOf(<<"template">>, <<"disarm", "revoke">>)>>)

ScopeClient == Do(<<"counts", "traffic">>)
\* A paced request waits for the exact count of calls between its fragments.
ScopeWaitFired == Do(<<"target">>)
ScopeCollect == Do(<<"target", "drain", "exact", "compare">>)
ScopeExercise ==
  Do(<<"discard">>) \o Each("load", <<"scope">>) \o Do(<<"publish">>) \o Each("arm", <<"scope">>)
    \o ScopeClient \o ScopeCollect \o ScopeClient \o ScopeWaitFired \o Do(<<"traffic">>)
    \o ScopeCollect \o EachOf(<<"scope">>, <<"disarm", "revoke">>)
ScopeReconcile == Do(<<"ledgers">>)
RequestScopeSuite ==
  Script(Do(<<"configure", "unobserved">>) \o ScopeExercise \o Do(<<"mark", "traffic", "unmoved">>)
           \o ScopeReconcile,
         <<EachOf(<<"scope">>, <<"disarm", "revoke">>) \o Do(<<"shut">>)>>)

-----------------------------------------------------------------------------
(* Verifiers.  They have no receipt to reserve and nothing to clean up.    *)

Verifier(checks) == [prep |-> << >>, body |-> Do(checks), final |-> << >>]

SessionRoutingVerify ==
  Verifier(<<"digests", "receipts", "cleanup", "failed runs", "same build", "state", "sources",
             "driver", "native", "prevail", "archive", "result", "events", "witness", "values",
             "journal", "removal">>)

TokenMethodVerify ==
  Verifier(<<"digests", "receipts", "cleanup", "failed runs", "same build", "state", "sources",
             "driver", "native", "prevail", "archive", "result", "events", "values", "witness",
             "journal">>)

OperationTargetVerify ==
  Verifier(<<"digests", "discovery", "receipts", "cleanup", "same build", "state", "sources",
             "driver", "native", "prevail", "archive", "result", "events", "values", "witness",
             "journal", "removal">>)

MessageIdVerify ==
  Verifier(<<"digests", "discovery", "receipts", "cleanup", "same build", "state", "sources",
             "driver", "native", "prevail", "archive", "result", "events", "values", "witness",
             "journal", "removal">>)

ResponseMetadataVerifyBuild ==
  <<"digests", "receipts", "cleanup", "failed runs", "same build", "state", "sources", "driver",
    "native", "prevail">>
ResponseMetadataVerifyRun ==
  <<"archive", "result", "events", "values", "witness", "journal", "removal">>
ResponseMetadataVerify == Verifier(ResponseMetadataVerifyBuild \o ResponseMetadataVerifyRun)

\* Archives of failed runs and of the repaired fixture are checked as well.
ReplyMetadataVerifyBuild ==
  <<"digests", "discovery", "receipts", "cleanup", "same build", "state", "sources", "driver",
    "native", "prevail", "failed runs", "repair", "reset">>
ReplyMetadataArchiveFiles == <<"archive">>
ReplyMetadataVerifyRun ==
  <<"result", "events", "values", "witness", "journal", "removal">>
ReplyMetadataVerify ==
  Verifier(ReplyMetadataVerifyBuild \o ReplyMetadataArchiveFiles \o ReplyMetadataVerifyRun)

\* The sources are compared while the receipts are read.
IdFlowVerifyBuild ==
  <<"digests", "sources", "driver", "receipts", "cleanup", "same build", "state", "native",
    "rejections", "prevail">>
IdFlowVerifyRun ==
  <<"archive", "result", "events", "values", "witness", "journal", "removal">>
IdFlowVerify == Verifier(IdFlowVerifyBuild \o IdFlowVerifyRun)

JsonLifecycleVerifyBuild ==
  <<"digests", "sources", "driver", "discovery", "same build", "receipts", "cleanup", "failed runs">>
JsonLifecycleRemoval == <<"removal">>
JsonLifecycleVerifyNative == <<"prevail", "native", "windows", "rejections">>
JsonLifecycleArchiveFiles == <<"archive">>
JsonLifecycleVerifyRun ==
  <<"witness", "result", "events", "values", "journal">>
JsonLifecycleVerify ==
  Verifier(JsonLifecycleVerifyBuild \o JsonLifecycleRemoval \o JsonLifecycleVerifyNative
             \o JsonLifecycleArchiveFiles \o JsonLifecycleVerifyRun)

\* The sources that are there now are compared with those of a later build.
CollectorVerify ==
  Verifier(<<"digests", "receipts", "cleanup", "same build", "later build", "driver", "result",
             "events", "archive", "journal">>)

\* Builds without a live run.
VoidCompletionVerify ==
  Verifier(<<"pins", "discovery", "failed runs", "build", "commands", "native", "sources">>)
EntrySnapshotVerify ==
  Verifier(<<"pins", "build", "sources", "native", "rejections", "audit", "blocked archive">>)
=============================================================================
