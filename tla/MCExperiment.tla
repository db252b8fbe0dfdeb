---------------------------- MODULE MCExperiment ----------------------------
(***************************************************************************)
(* The experiments of env/ai-traffic that the runs check: for each its     *)
(* programs, how often its hooks are patched, and its scripts.             *)
(***************************************************************************)
EXTENDS Experiment, ExperimentScripts

\* Programs that are each armed once.
Once(ps, build, live, suite) == Campaign(ps, Times(ps, 1), build, live, suite)

\* A fixture made for the experiment, removed after it, and a verifier.
Whole(k, ps, verify) ==
  [k EXCEPT !.create = FixtureCreate, !.cleanup = ArchiveCleanup(ps), !.verify = verify]

Campaigned(n) ==
  CASE n = "session_routing" ->
      Whole(Once({"session", "route"}, SessionRoutingBuild, SessionRoutingLive,
                 SessionRoutingSuite), <<"session", "route">>, SessionRoutingVerify)
    [] n = "token_method" ->
      Whole(Once({"token"}, TokenMethodBuild, TokenMethodLive, TokenMethodSuite),
            <<"token">>, TokenMethodVerify)
    [] n = "response_metadata" ->
      Whole(Once({"response"}, ResponseMetadataBuild, ResponseMetadataLive,
                 ResponseMetadataSuite), <<"response">>, ResponseMetadataVerify)
    [] n = "operation_target" ->
      Whole(Once({"target"}, OperationTargetBuild, OperationTargetLive, OperationTargetSuite),
            <<"target">>, OperationTargetVerify)
    [] n = "message_id" ->
      Whole(Once({"id"}, MessageIdBuild, MessageIdLive, MessageIdSuite), <<"id">>,
            MessageIdVerify)
    [] n = "reply_metadata" ->
      Whole(Once({"reply"}, ReplyMetadataBuild, ReplyMetadataLive, ReplyMetadataSuite),
            <<"reply">>, ReplyMetadataVerify)
    [] n = "id_flow" ->
      Whole(Once({"id"}, IdFlowBuild, IdFlowLive, IdFlowSuite), <<"id">>, IdFlowVerify)
    [] n = "metadata" ->
      Once({"a2a", "aimcp"}, MetadataBuild, LifetimeLive(<<"a2a", "aimcp">>, FALSE),
           MetadataSuite)
    [] n = "method" ->
      Once({"method"}, MethodBuild, LifetimeLive(<<"method">>, FALSE), MethodSuite)
    [] n = "collector" ->
      Whole(Once({"method"}, MethodBuild, LifetimeLive(<<"method">>, TRUE), CollectorSuite),
            <<"method">>, CollectorVerify)
    [] n = "container" ->
      [Once({"method"}, MethodBuild, CollectorContainerLive, CollectorContainerSuite)
         EXCEPT !.requests = 4]
    [] n = "json_lifecycle" ->
      [Whole(Once({"handler", "complete", "reset"}, JsonLifecycleBuild, JsonLifecycleLive,
                  JsonLifecycleSuite), <<"handler", "complete", "reset">>, JsonLifecycleVerify)
         EXCEPT !.reset = JsonLifecycleReset(<<"handler", "complete", "reset">>)]
    [] n = "json_initialization" ->
      [Once({"initialization"}, JsonInitializationProgram,
            JsonInitializationLive(<<"initialization">>), JsonInitializationSuite)
         EXCEPT !.create = InitializationCreate,
                !.cleanup = InitializationCleanup(<<"initialization">>),
                !.reset = InitializationBlocked(<<"initialization">>)]
    [] n = "activity" ->
      Once({"json", "http"}, ActivityProgramBuild, JsonInitializationLive(<<"json", "http">>),
           ActivityProgramSuite)
    [] n = "combined" ->
      Once({"json", "http"}, ActivityProgramBuild, JsonInitializationLive(<<"json", "http">>),
           ActivityCombinedSuite)
    [] n = "tls" ->
      Once({"json", "http"}, ActivityProgramBuild, JsonInitializationLive(<<"json", "http">>),
           TlsModeSuite)
    [] n = "lifetime" ->
      Campaign({"init", "parse", "fini"}, [init |-> 2, parse |-> 1, fini |-> 1], LifetimeBuild,
               LifetimeLive(<<"init", "parse", "fini">>, FALSE), LifetimeSuite)
    [] n = "correlation" ->
      Campaign({"init", "parse", "fini", "candidate"},
               [init |-> 2, parse |-> 1, fini |-> 1, candidate |-> 1], CorrelationBuild,
               LifetimeLive(<<"init", "parse", "fini", "candidate">>, FALSE), CorrelationSuite)
    [] n = "gap" ->
      Campaign({"init", "parse", "fini", "candidate"},
               [init |-> 7, parse |-> 6, fini |-> 7, candidate |-> 6], GapBuild,
               LifetimeLive(<<"init", "parse", "fini", "candidate">>, FALSE), GapSuite)
    [] n = "config" ->
      Campaign({"observe"}, Times({"observe"}, 0), ConfigBuildProbe,
               ConfigLive(<<"observe">>), ConfigSuite)
    [] n = "template" ->
      Campaign({"template"}, Times({"template"}, 3), TemplatePrepare,
               ConfigLive(<<"template">>), TemplateSuite)
    [] n = "request_scope" ->
      Campaign({"scope"}, Times({"scope"}, 0), RequestScopeBuild, ConfigLive(<<"scope">>),
               RequestScopeSuite)
    [] n = "void_completion" ->
      [Once({"void"}, VoidCompletionBuild, NoScript, NoScript)
         EXCEPT !.verify = VoidCompletionVerify]
    [] n = "entry_snapshot" ->
      [Once({"snapshot"}, EntrySnapshotBuild, NoScript, NoScript)
         EXCEPT !.verify = EntrySnapshotVerify]

Names ==
  {"session_routing", "token_method", "response_metadata", "operation_target", "message_id",
   "reply_metadata", "id_flow", "metadata", "method", "collector",
   "container", "json_lifecycle", "json_initialization", "activity", "combined",
   "tls", "lifetime", "correlation", "gap", "config",
   "template", "request_scope", "void_completion", "entry_snapshot"}

MCCampaigns == [n \in Names |-> Campaigned(n)]

\* Experiments of every kind of driver, small enough for two faults.
SomeExperiments ==
  [n \in {"token_method", "json_initialization", "container", "tls", "config", "method",
          "lifetime"} |-> Campaigned(n)]

MCSome == SomeExperiments
=============================================================================
