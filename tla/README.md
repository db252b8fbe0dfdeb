# Verification of the live-surfaces substrate and its experiments

TLA+ models of the engine that loads signed eBPF programs into a running TMM process,
hooks them into functions by patching `.text`, runs them on the data path, configures
and revokes them (`substrate/`); of the path their records take to a journal and to
the activity exporter; and of the experiments that build, run and verify such programs
against a live TMM (`env/ai-traffic/`). The models are written from the source;
`PROJECT.json` maps every definition to its lines.

## 1. Inventory

| part | state | operations | who runs them |
|---|---|---|---|
| program manager (`ls_program_impl.h`) | programs (instance, entries, mode, ceiling), 12 trampoline sites, a writer flag and a reader count | load, mode, attach, detach, revoke, status; dispatch | operations: prepare thread; dispatch: every TMM thread |
| configuration store (`ls_config.h`) | per slot a sequence-locked image, the identity of the program bound to it; session and instance counter | bind, publish, revoke, status; begin, lookup | bind and program revoke: prepare thread; publish, legacy revoke: loader thread; lookup: every TMM thread |
| loader and prepare handoff (`ls_vm_load.c`, `ls_prep.c`) | one request slot `g_prep` with its state, the signed record of every legacy slot, the connection's mapping | load, set mode, revoke, arm, disarm, bench, status, configuration and program requests; submit, wait, time out; the prepare timer | loader pthread; timer of TMM thread 0 |
| legacy VM slots (`ls_vm.c`) | VM, JIT entry, mode, safe value, snapshot identity per slot | prepare, reload, set mode; run | prepare thread, loader thread; every TMM thread |
| trampoline (`ls_tramp.c`, `trampoline_x86_64.S`) | none | dispatch to the manager or the legacy slot | every TMM thread |
| text patching (`ls_arm.c`, `ls_swap.c`) | the pads of functions, the pad being patched | arm, disarm, INT3 swap, trap handler | loader or prepare thread; any thread that traps |
| map registry (`ls_map_glue.h`, `ls_map.h`) | shapes, names, generation, reader count; per-thread maps | relocate, enter, leave, reset, helper calls | prepare and loader threads; every TMM thread |
| fexit and snapshots (`ls_fexit.c`, `ls_snapshot.h`) | shadow stack of return addresses | enter, leave | TMM thread |
| egress ring (`ls_ring.h`, `ls_tp_*`) | producer and consumer positions, drops, data | emit; consume | producing thread; drain or stream reader process |
| stream reader and journal (`drain/ls_stream.c`, `stream_collector.py`, `collector_container.py`) | ring cursor; events, checkpoints, source epoch in SQLite | offer, acknowledge, advance; accept, replay | two processes joined by pipes, in a container |
| activity programs (`agent_activity.bpf.c`, `activity_group.bpf.h`) | a map from client connections to exchanges, an admission count, output counters | one invocation per JSON message or HTTP event | the TMM worker |
| activity exporter (`activity_combine.py`, `activity_export.py`) | groups in progress, last sequence number of each producer | feed a page, flush | a process that pages through the journal |
| experiments (`env/ai-traffic/*_build.py`, `*_live*.py`, `*_suite.py`, `*_verify.py`, `lifetime_fixture.py`) | receipts, build directories, evidence, archives; the fixture's TMM and collector | create, build, live run with its suite, archive and remove, reset, verify | processes an operator starts; the suite runs in a container |
| gates (`ls_build_gate.h`, `ls_target.h`, `ls_sig.c`) | none | admit or refuse a load | loader and prepare threads |
| audit, CO-RE relocation, tools, suites | none that the data path reads | | |

Interactions. A client connects to the loader, which serves one connection at a
time. Whatever allocates is submitted to `g_prep` and done by the prepare timer,
while the loader polls for a bounded time; a prepare that is late goes on beside
the loader's next requests. Owned-program requests end in the program manager,
legacy loads in `ls_vm_reload`; both bind a configuration slot. Attach and ARM
patch a function so that it calls a trampoline site; a call enters
`ls_tramp_dispatch_at`, which asks the manager first and otherwise runs the legacy
slot with the site's number. A running VM may look up configuration, use maps and
emit records into a ring that another process reads. The reader offers one frame at a
time to the collector, which commits it with its checkpoint and acknowledges; only then
the ring's cursor moves. Clients page through the journal with cursors of their own; the
activity exporter is one of them. A live driver watches the text of the hooked
functions, starts a suite inside the fixture's container, and archives what it left.

What is hard here: the gate between operations and in-flight calls, which neither
side may wait at; calls that are late by arbitrarily much (a thread paused inside
the trampoline); the sequence lock; the timeout of the prepare wait, after which
two control threads are active; operations that fail half way; restarts, after
which instance numbers are issued again while clients still hold old ones; crashes
between a commit, its acknowledgement and the cursor; records of several exchanges that
interleave, get lost or are counted from the beginning again; and commands whose answer
is lost, drivers that give up on suites that go on, cleanups that fail.
`PROJECT.json` lists each hazard at its line.

Properties that make each part correct:

- manager: a call sees all or nothing of an operation, only programs signed for
  its own function run, no VM is reclaimed under a call, a suppressed body is
  justified by an ENFORCE program with its own safe value, failed operations leave
  nothing behind, nobody waits;
- store: snapshots whole, current and one per invocation; rows reach only the
  program they were made for; committed revisions are never lost to a race;
- loader: answers belong to their request, payloads live as long as they are read,
  one writer of the store, ceilings and targets hold, every connection returns;
- ring and collector: every record is journalled once and in order or counted as
  dropped, nothing is consumed before it is journalled, a client is told of a gap;
- activity: an observed exchange is about one request, an undisturbed request is
  reported, the exporter accepts what the programs emit;
- experiments: what is signed is what was verified, a result that says passed is
  complete and leaves TMM as it was, receipts and evidence survive, every run ends.

## 2. Modules

| module | what it is |
|---|---|
| `ProgramManager` | the manager, its gate, the data-path dispatch, legacy ARM and DISARM |
| `OwnedPrograms` | the abstract specification: what `PROGRAMS.md` promises, with atomic operations and calls |
| `ConfigStore` | the store, its control path, clients, invocations, restarts |
| `Loader` | the loader thread and the prepare thread |
| `EgressRing` | a stream ring as a TMM thread fills it, cut at its shared loads and stores |
| `Collector` | extends `EgressRing`: reader, journal, replay service, container, a client |
| `ActivityGroup` | traffic on a few connections, the two activity programs, the journal rows they cause |
| `ActivityCombine` | extends `ActivityGroup`: the exporter fed with those rows |
| `Experiment` | what the steps of an experiment's scripts do to TMM, collector, files and notes, and what can go wrong |
| `ExperimentScripts` | the scripts themselves: for each program of `env/ai-traffic` its steps, in order |
| `MCProgramManager`, `MCConfigStore`, `MCLoader`, `MCCollector`, `MCActivity` | symmetry sets and constants of the instances TLC checks |
| `MCExperiment` | the 24 experiments, each put together from its scripts |
| `ProgramManager_proofs`, `ConfigStore_proofs`, `Loader_proofs`, `Collector_proofs`, `ActivityGroup_proofs`, `ActivityCombine_proofs`, `Experiment_proofs`, `ExperimentOutcomes_proofs` | theorems and their proofs |

`ProgramManager`. Three kinds of actors: the control thread (`cpc`; the prepare thread
running one operation), the loader thread arming legacy hooks (`lpc`) and the data-path
threads (`tpc`). Every access to the gate is a step of its own: `LockExchange` and
`LockReaders` are the two atomics of `ls_program_lock`, `DispatchCount`, `DispatchGate`
and `DispatchBusy` or `DispatchLeave` those of `ls_program_dispatch`. A thread may rest
for ever between `Hit` (it is in the trampoline) and `DispatchCount`. Load prepares one
entry per step, and each can fail; attach looks at legacy owners in one step and patches
in the next, and so does ARM with the program owners. An ARM or a DISARM may begin at
any time beside an operation, as for a loader whose bounded wait
(`ls_vm_load.c:446-473`) has run out; a loader that is still waiting does less. `raced`
remembers that one of the two passed its check for a site or a function at which the
other was already between its check and its store. A `return_ip` is a function of the
address and stands for it; a VM is named by the instance that made it. Not in the state:
the re-entrancy guard of dispatch (a program called from within a program does not
dispatch) and the namespace of the program's maps.

`OwnedPrograms` has no gate, sites or VMs: programs are published, attached,
detached and retired atomically, and a call is answered in one step, by all entries
due at its function or by none. `ProgramManager!AtomicCalls` is this specification
under the mapping written above it.

`ConfigStore`. `WriteBegin`, `WriteWord`, `WriteEnd` are `ls_config_write`;
`LookupStart`, `LookupCopy`, `LookupCheck` are `ls_config_lookup`; both go one word
at a time. An image is revision, instance, entry count and rows in the order of the
struct; the content of a row is the session and program its publisher made it for,
which is what the properties tell apart. Clients publish against the status they
last saw. `Restart` zeroes everything but the clients' knowledge. A fork of the
process, which keeps the store and draws a new session, is not modelled.

`Loader`. Requests are numbered; the number names the mappings they own. `Submit`,
`TakeAnswer` and `GiveUp` are `ls_prep_submit`; the `Prep...` actions are
`ls_prep_run_pending` and, for a legacy load, `ls_vm_reload`, one store that others
can see per step. `late` records that some wait timed out. What a program operation
does is `ProgramManager`'s subject; here it succeeds or fails and may write the
configuration store. Signature, target, build and expiry checks may refuse anything.
Snapshot programs are those whose ceiling is MONITOR, as the load insists, so the
clamp of `ls_vm_set_mode` never acts beyond `ModeAllowed`.

`EgressRing` and `Collector`. Positions are counted in units of the ring's alignment, a
record is identified by its emit call. `Emit...` is `ls_ring_emit`, `Poll` to
`StoreCons` the loop of the reader, `Commit`, `Refuse` and `SendAck` `Journal.accept`
and its caller, `ClientPage` and `ClientRefused` `replay`. `Insert` expires rows in the
same transaction, as the code does. `Crash` ends the container between any two steps,
`ReplaceJournal` is a new volume, `TmmRestart` a new process with an empty ring. One
ring of the sixteen is modelled: rings share nothing but the journal's row numbers. When
the restart falls between the reader's identity check and what it protects (`Window`),
the reader works once on the ring of the new process; `crossed` remembers it, and the
properties about positions exclude it, as they exclude a ring whose padding passed the
consumer (`overrun`, see the finding). After an overrun the reader fails with "invalid
ring positions" until TMM restarts; the same happens for ever once a seventeenth thread
has claimed a ring, because `claimed` goes on counting. `RingReset` blanks the cells,
where `ls_ring.h:101` zeroes the control block only; a consumer reads no cell between
`cons` and `prod` that was not written again.

`ActivityGroup` and `ActivityCombine`. A request is a client JSON message, a
request-header event, the server's JSON message, a response-header and a response-done
event; `ScopeStart`, `ScopeHeaders` and `Scope` are the parts of `activity_scope`. An
invocation of a program is one step, since one worker runs them. The programs do not see
which request an event is about; the model tags records with it for the properties only.
An update of the map (`activity_group.bpf.h:83`, `92`) that fails is not modelled. All
message ids are equal, so that they tell nothing apart. `Feed(n)` is a page of `n` rows,
`FeedRow` the body of the loop, `Issues` and `Finish` what `finish` says of a group. The
exporter's cursor checks are left out: replay hands out consecutive rows. Behaviour of
the code that the properties take as given: a request pipelined behind one whose
beginning the programs did not see (loaded in between, admission refused) can be grouped
with it when the ids are equal, outside of the scope `single_worker_nonpipelined_http1`
the records declare; after one refused output the records of that program form no group
until it is loaded again; a poisoned connection stays so until initialization, abort or
teardown.

`Experiment` and `ExperimentScripts`. A process is a script: steps before its receipt is
opened exclusively, a guarded body, cleanup blocks (`prep`, `body`, `final`). `StepOk`,
`StepRaises` and `StepFaults` run the current step: it succeeds, a check of it does not
hold, or it fails although nothing was wrong, with or without its effect. `StepIgnored`
is the stop of the collector in the cleanup of the container driver, which runs with
`check=False`: a refused one raises nothing, the collector runs on, and the receipt may
say passed; the process keeps this as `ignored`. The journal is copied after it only if
the body passed. `BuildDo` and `WorldDo` say what a step changes, `SuiteOk`, `LiveOk`,
`FixtureOk` and `VerifyOk` when it succeeds, `Noted` what the process keeps for its
cleanup. A loop over cases of one kind is one round of it. `SuiteTimeout` ends the
driver's wait, not the suite. Each experiment has one live run on its fixture; a second
one is `Rerun`, with the receipt that exists. An edit makes new sources and is never
undone. A build that was not admitted ends in the archive of an untouched fixture
(`BeginBlocked`). What a suite compares of a message's content is not in the state. Keys
that the TLS suite made stay when it fails before its result is opened.

## 3. Runs

| run | shows |
|---|---|
| `programs_threads` | 1 program, 2 entries, 2 sites, 2 functions, 2 threads: `GateExclusion`, `ReadersExact`, `NoUseAfterReclaim` |
| `programs_shared` | 2 programs, the only site shared and reused, 2 safe values: `RunsOwnFunction`, `VerdictJustified`, `VMsBelongToInstance`, `TextMatchesLinks`, and the refinement `AtomicCalls` |
| `programs_legacy` | 1 program, 1 legacy slot, 2 sites, 2 functions, 1 thread, ARM and DISARM beside any operation: `OneOwner`; `NobodyWaits` under fairness |
| `programs_late` | violation of `PatchRefusesOwned`: ARM and a late attach both pass their checks, and a site or function has both kinds of owner |
| `config_store` | 1 slot, 2 programs, 1 client, 1 thread, 1 row, a restart: `WholeAndCurrent`, `OneSnapshotPerCall`, `RowsMeantForProgram`, `RevisionsGrow`; `LookupEnds`, with a writer that may stop anywhere |
| `loader` | 3 connections, 2 slots, 2 programs: `OwnAnswer`, `OneConfigWriter`, `PayloadSound`, `SlotsAuthorised`; `LoaderReturns` under fairness |
| `loader_wedge` | violation: a legacy prepare that completed late makes every later submit fail |
| `collector` | a ring of 4 units, records of 1 and 3, 2 emits, 2 faults, a client: `JournalExact`, `ConsumedIsJournalled`, `ReplayHonest`; `EverythingJournalled` under fairness |
| `ring_overwrite` | violation: padding published before the room check overwrites an unread record that nobody counts |
| `experiments` | all 24 experiments, 1 fault, interference or edit each: `SignedIsVerified`, `PassedIsComplete`, `VerifiedIsComplete`, `ReceiptsGuard`; `EveryRunEnds` under fairness |
| `experiment_faults` | 7 experiments, 2 faults: `PassedIsClean`, `NothingLeftBehind`, `RemovedIsKept`, `VerifiedIsCurrent` |
| `activity` | 2 connections, 2 requests, 2 anomalies or faults: `OneExchange`, `Reported`, `FramesAccepted` |

Bounds. `MaxInstances` (loads attempted): 2 lets a site, a slot and a configuration slot
be reused by a second program, which is what the late-call and stale-identity properties
need; `programs_threads` does with 1 because its second thread, not a second program, is
the point. `programs_shared` checks `TextMatchesLinks` where users share and reuse a
site; programs of several entries and legacy hooks are left to its theorem.
`SequenceLimit` 7 is reached, so the refusal at the end of the sequence space happens.
`InstanceLimit`, `RevisionLimit` and `SessionLimit` 2 give two instances in one slot,
two publishes that race, and one restart; a publish does not change what its client
knows, so the second publish of the one client is that of another with the same status.
`RequestMax` 3 is a request that is late, one that meets it and one that follows. Two
slots in `Loader` allow both forms of reload: into the staging slot itself and over a
live one. Permutations of threads, functions and connections are used as symmetry in the
runs without liveness; no definition of these modules tells them apart. `collector`: 2
emits into 4 units fill the ring exactly, wrap it with padding, and drop; `Retain` 2
expires rows as soon as a third one comes; 2 faults are a crash of a process that
recovers from a crash, or a crash and a restart of TMM. `ring_overwrite` needs more
emits and no faults. `activity`: 2 requests are in progress on one connection or on two,
with `AdmitMax` 2 and `others` the admission is refused or just granted, `Capacity` 2 is
exceeded by a third producer, a page ends anywhere in a message; `MaxRecords` 11 is the
length of an exchange, so that one with a further event meets the limit. `experiments`:
`EventMax` 1 puts every fault at every step of every script; `experiment_faults`: 2 lets
the cleanup fail after the body did, in one experiment of every kind of driver, fixture
and collector and in the lifetime experiment, whose suite closes its clients in the
cleanup. `CHECK_DEADLOCK FALSE`: with all instances, connections, emits, requests or
scripts used up, the bounded system stops.

Fairness. `ProgramManager!FairSpec`: a started operation and a started call run on (the
timer callback runs an operation to its return; a thread is not abandoned in the
trampoline). Nothing makes clients ask or traffic arrive, and no strong fairness is
used: `NobodyWaits` holds because a busy gate refuses. `ConfigStore!FairSpec`: only the
looking thread runs; the writer may stop in the middle of a write. `Loader!FairSpec`:
the loader thread runs; nothing is assumed of the prepare timer, so `LoaderReturns`
rests on the bounded poll. Socket reads have a timeout (line 556). `Collector!FairSpec`:
reader and collector run while they are up, an emit ends (it is a straight line of
code), and the operator starts a stopped container again; crashes are bounded by
`FaultMax`, the client may never come back. `Experiment!FairSpec`: a started process
goes on to its next step (commands have timeouts, and a failing one raises), the
driver's loop polls for requests, the collector moves records; no fault is forced and no
operator has to start anything.

What the violations mean: each contradicts a sentence in the source that the finding
quotes. `loader_wedge` needs a prepare that exceeds the wait, `ring_overwrite` a ring
whose free space is less than the padding before its end, `programs_late` an attach that
exceeds the wait of the loader and an ARM that comes next.

Three more disagreements are visible in the code and have no run of their own. While
the writer flag is up, `ls_program_dispatch` answers 1 for every site number
(`ls_program_impl.h:269`), so a legacy shield is skipped for the time of one program
operation, whereas `ls_program.h:56` speaks of program-owned sites; `ProgramManager`
models it (`DispatchBusy`). The refusals at
`ls_vm_load.c:801`, `855` and `897` return without releasing the connection's mapping,
which lines 531-532 say happens on every exit path; `Loader` models it in its refusals.
The container driver "archives the stopped journal" (`collector_container_live.py:246`)
also when the stop at line 244, run with `check=False`, was refused: the journal is then
copied from a collector that runs on, and the receipt may say passed (`StepIgnored`).

Provisos. `OneOwner` and, for the text, `TextMatchesLinks` are stated for behaviours
without `raced`: an ARM and an attach that were at one site or function together are the
only way to two owners, and every other overlap of a loader that gave up with the
operation it gave up keeps them apart. `PassedIsClean` and `NothingLeftBehind` except the
collector (and nothing else) after a refused stop of the container driver.
`SlotsAuthorised` and, for legacy payloads, `PayloadSound` are stated for
behaviours in which no prepare was ever late. They do not hold beyond: a late load
may replace a program under a mode or a hook that the loader set meanwhile, and the
connection's mapping is gone when a late legacy load reads it.

## 4. Proofs

All for arbitrary constants satisfying the named assumptions.

`ProgramManager_proofs`, on the gate: `[]TypeOK`, `[]ReadersExact`, `[]GateExclusion`,
`[]NoUseAfterReclaim`. The inductive invariant `IInv` adds `WriterFlag` (the flag is
up exactly between the exchange that raised it and the store that clears it),
`LoadPrivate` (an unpublished load owns its storage), `PublishedVMs` and
`RunningSlots`. Exclusion follows from the count: when the writer reads zero no
thread is counted, and a thread that counts itself later reads the flag. That needs
the count to be exact, which is a cardinality argument over the set of counted
threads (finite by assumption). Reclamation is then safe because destroy happens in
the exclusive part or in private storage.

On the tables: `[]RunsOwnFunction`, `[]VerdictJustified`,
`[]VMsBelongToInstance`, `[]TextMatchesLinks`, `[]OneOwner`. `LInv` adds to `IInv` what
the tables say of each other: `Requests` (what an operation checked before it took the
gate still holds when it acts), `Storage` (what every slot holds, also half way through
a load or a revoke), `SiteLinks` (a site's user count is the number of entries linked to
it, both were made for the same function and value, one site for one function) and
`Calls` (a call past the gate has run the attached entries up to its last one). A site
can change hands only with the gate held, when no call is between its entry and its
exit; that is what makes `RunsOwnFunction` more than a check at the trampoline. `TInv`
adds `Text`, for the pads and the legacy hooks. Nothing is
assumed of the loader's wait: `Text` says that while ARM or attach is past its check the
site and the function are still free of the other kind of owner, unless `raced`. It is
kept because whichever of the two comes second to its check either finds the other's
store or sets `raced`. What happens after `raced` is the run `programs_late`.

On the refinement: `ManagerKeepsContract`, that is `Spec => AtomicCalls`:
`ProgramManager` implements `OwnedPrograms`. A call is answered at the step at which it
gives up its count, or at which it finds the flag up or no site; there
`Calls` gives that the entries it ran are all those attached now. The hooks change at
the single store that links or unlinks an entry, and everything else is a stutter.

`ConfigStore_proofs`: `[]TypeOK`, `WholeAndCurrent`, `[]OneSnapshotPerCall`,
`[]RowsMeantForProgram`, `RevisionsGrow`. `IInv` adds `OddWhileWriting` (odd exactly
while being written, with room for the second increment), `CopiedSoFar` (if the number
has not moved, what was copied is what the slot holds), `AttemptState` and
`AnswersAgree`. The numbers never decrease except at a restart, which ends all copies,
so an unchanged number means no write since. `MInv` adds whose rows they are:
`StoreMeant` (a bound slot carries the hash of its instance's owner), `WriterMeant`,
`WordsMeant` (a slot holds rows for its instance or a prefix of the write under way)
and `ViewMeant`. Instances are never drawn twice, so a row outlives its program without
being found by the next one.

`Loader_proofs`: `[]TypeOK`, `[]OwnAnswer`, `[]OneConfigWriter`, `[]PayloadSound`,
`[]SlotsAuthorised`. `IInv` adds `PrepareState` and
`LoaderState` (who works on what), `Awaited` (an outstanding request is waited for
while none was late) and `Settled` (a slot's record is that of its program except
while it is being moved, and a load that passed the checks still satisfies them).

`Collector_proofs`: `[]TypeOK`, `[]ReplayHonest`, `[]JournalExact`,
`[]ConsumedIsJournalled`. The invariant `CInv` has three layers.
- The ring, `RingInv`: the records that landed lie one behind the other, with a pad
  where one did not fit before the end (`Layout`); the consumer's cursor is at the
  beginning of a record or a pad or at `prod`, at most `Size` behind (`Cursor`); the
  headers it has not passed are intact (`Intact`); the emit in progress has its room
  (`Emitting`). Two positions less than `Size` apart have different offsets, so a header
  written at `prod` hits none of them. The argument fails exactly where padding passes
  the consumer, hence the proviso `~overrun` (the run `ring_overwrite` shows that case).
- The lock step: one frame is offered, or committed and not acknowledged, or
  acknowledged, or there is none (`LockStep`); a reader between an identity check and
  its last use works on the ring it was started for (`ReaderInv`); what it has offered
  lies at the cursor, and once taken it is in the log (`Offered`).
- The log: the checkpoint of the current journal was journalled (`LogInv`); the records
  of the running TMM are in order, none beyond the cursor, and none that the cursor has
  passed is missing (`RecordsInv`). A record that is committed lies at the cursor, so
  the row before it is the record before it: a later one would lie beyond the cursor, an
  earlier one would leave out a committed one, and the same one is a repeated frame,
  which accept recognises unless the journal was replaced.

`EgressRing` assumes `Word > 2 * Size`: `data_size` is a `uint32_t` and the positions are
`uint64_t`, so the room computed modulo `2^64` is exact (`RoomExact`) as long as the
cursors are at most `Size` apart and a record is at most `Size` long.

`ActivityCombine_proofs`, on the lemmas of `ActivityGroup_proofs`: `[]FramesAccepted` and
`[]OneExchange`. The invariant `Combined` speaks of everything between a program and the
exporter at once, because an exchange is spread over it: the entry in the map, the
requests on the connection, the rows in the stream, the last sequence numbers, the
pending groups.
- `Log`: every row in the stream is accepted by itself; the sequence numbers of an
  instance grow along the stream, from those the exporter has noted to the output counter
  of the program; a later field of a message comes right behind the field before it, in
  the stream or, for the first row, as the last row of its pending group.
- `Traced`, over the records of the stream and of the pending groups together: keys are
  never ahead of the counters and never used by two connections (`Numbered`, `Apart1`); if
  a group has an answer, all its rows of the load that began it are about one request
  (`About`), and its confirmation is of that load (`Confirmed`). To keep that, `Tracked`
  ties the entry of a connection to the requests the connection carries: as long as the
  programs can still add to the exchange, nothing else was asked there, and once the
  headers have confirmed it the oldest request is the one it is about.
- `GroupOk`, for a pending group: it begins with a method, its rows follow each other as
  in `Log`, and without the issue `reply_before_http_confirmation` every row of the answer
  has a confirmation before it. With `Issues` empty each field is there once on each side
  and so is the confirmation, which makes the order of `Whole` follow.
- `Feed` folds a page into one step. `FeedInv` holds between two of its rows; `PageFed` is
  the induction, by the least row at which it would not (`Least`), since the induction
  theorems of the library cannot be used. What is known of all records holds of the fewer
  that are left when the exporter has closed groups, flushed or started again.

`Experiment_proofs`: `[]Sound` (theorem `ProcessesSound`) and `ReceiptsGuard`;
`ExperimentOutcomes_proofs`: `[]SignedIsVerified`, `[]VerifiedIsCurrent`,
`[]RemovedIsKept`, `[]PassedIsClean`, `[]NothingLeftBehind`, `[]PassedIsComplete`,
`[]VerifiedIsComplete`. They hold for any number of experiments, programs, steps, faults
and interferences. A script is a constant, so what the theorems need of it is an
assumption, `CampaignsAssumption` of `Experiment`: the steps are known ones (`Shaped`), a
build signs after its last change and digests before it compiles (`SignsLast`,
`DigestsFirst`), a cleanup looks at the suite, the hooks and the evidence before it
removes the fixture (`KeepsFirst`), each thing a suite or driver does is undone by a
cleanup block that nothing before it can cut short (`UndoesAll`), and a suite compares
after its last reading of the counters (`ReceivesAll`). TLC evaluates the assumption on
the experiments of each run, in `experiments` all 24 of `MCExperiment`; nothing else is
assumed of them.
- `Sound`: types; where each process is in its script and what its receipt says of that
  (`Controlled`); which processes exclude each other (`Excluded`). Every other invariant
  rests on it, since a step of one process is harmless to another only if the two cannot
  run side by side.
- A statement about a point in a script is written with `Did` (a step of the body lies
  behind the process and nothing was refused) and `Undone` (a step of the cleanup lies
  behind it, refused or not). `Making` says of every product of a build that it is of the
  object's bytes as long as no step behind it changed them; with the script's order that
  gives `Building` for the signed build, and `Aging` the sources it was compiled from.
- `Verifying`, `Reporting`, `Archiving`: what a verifier, a driver and a cleanup have
  looked at is still so when they use it. That is the stale-check hazard of these scripts:
  the check and the use are steps apart, and a suite its driver gave up may run on.
  `Removed` follows from `Archiving` when the fixture goes.
- `Tidy` adds what is noted: everything armed, loaded, watched or started is in the notes
  of the process that did it (`SuiteNotes`, `LiveNotes`), unless an answer was lost; a
  cleanup block behind the process has undone its part (`SuiteUndoing`, `LiveUndoing`), or
  its stop of the collector was refused and `ignored` says so.
  A disarm is refused where the hook is not armed, and skips the revoke behind it in its
  block; `Arming` and `Refusing` say that this happens only where the slot is empty too.
- `Complete` adds `Receiving`: what was compared is still so until it is read anew, and
  after the last disarm nothing runs.

The proof of `RemovedIsKept` corrected the model: a cleanup that removes a fixture whose
run never began also checks that only the two containers it was created with are there
(`json_initialization_fixture.py`, `len(owned) == 2`), which `FixtureOk` left out; without
it the property fails with three faults, one more than the run takes.

Only model-checked: liveness (`NobodyWaits`, `LookupEnds`, `LoaderReturns`,
`EverythingJournalled`, `EveryRunEnds`: outside the prover's reach) and `Reported` of
`ActivityCombine`, which says that a record is printed and not that a printed one is
right: it would need, on top of `Combined`, that every row of an undisturbed request is
in the stream or in its group.

## 5. Plan

Done: the control plane (manager, store, loader), the record path (ring, reader,
journal, replay), the activity programs with their exporter, the experiments.

Proof to add: `Reported`.

Further models, if the project grows: legacy `ls_vm_run` beside single stores of
`ls_vm_reload`; the map registry's generations; the INT3 protocol of `ls_swap.c`.

## 6. Not modelled

- Below the level of the models: the register handling of the assembly, the bytes and
  traps of `ls_swap.c` (its one `g_pad` would be shared by two swaps after a wait that
  timed out), the stack addresses of `ls_fexit.c`, a legacy slot sampled beside
  single stores of a reload. These need a memory and instruction model of their own.
- The map registry: helper calls of a program are atomic in `ActivityGroup`.
- Without state: signatures (a refusal is a nondeterministic choice), CO-RE relocation,
  ELF and JSON parsing, build, target and expiry gates, decoders, joins and exports of
  single records.
- Output only: audit lines, reply texts, reports.
- The eBPF programs other than the activity pair: an arbitrary verdict, or one record
  per run.
- Tools, discoveries, unit checks, the gateway suites (`env/aigw`), delivery and
  packaging scripts, the drain and the watchpoint prototype: command lines that run once,
  alone, on files.
- Suites that need two owners of one hook (`programs_live_suite.py`) or a recovery of a
  failed receipt by hand (`collector_container_recover.py`): their steps are not those of
  `Experiment`; what the first one exercises is `ProgramManager`'s subject.
- Memory orders weaker than sequential consistency: the gate, the store, the handoff and
  the ring use sequentially consistent or acquire/release atomics, and the models
  interleave.
