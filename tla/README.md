# moreAgent in TLA+

moreAgent is an operating system for coding agents: it carries a piece of
software work through a fixed sequence of phases, splits it into tasks with
dependencies and locks, hands the tasks to agents that run as child processes in
workspaces of their own, keeps a journal and a set of registries from which its
state can be rebuilt, integrates what the agents wrote, and releases it. Next to it
lives the engine it grew out of, a command line over state files
(`scripts/agent-loop`). Nothing in either is multi-threaded, and nearly everything
is asynchronous or made of several writes: an operation runs without interruption
from one `await` to the next, and between two of them other executions, heartbeats,
timeouts and exits happen; a command writes one file after the other, and may be
killed between two of them. That is what the modules in this directory
are about. Paths below are relative to the repository.

Contents: [the system](#the-system) · [modules](#modules-and-how-they-correspond-to-the-code)
· [runs](#runs) · [fairness](#fairness) · [proofs](#proofs) ·
[where code and documents disagree](#where-the-code-and-its-documents-disagree) ·
[known limits](#known-limits-of-the-code) ·
[not modelled](#what-is-not-modelled) · [plan](#plan)

## The system

| part | state it keeps | operations | what makes it correct |
|---|---|---|---|
| workflow engine, `src/control-plane/workflow-engine.mjs` | none: a workflow record (phase, status, version) goes in and comes out | `transitionWorkflow` | no way round the verification phases, closed workflows stay closed |
| lock manager, `src/control-plane/locks.mjs` | map resource → owner, lease id, `leaseUntil` | `acquire`, `heartbeat`, `release`, `reapExpired`, `ownerOf`, `snapshot` | what an owner was told about its lease is so until the lease ends |
| task graph validator, `src/control-plane/dag.mjs` | none | `validateTaskDag` | accepted plans can be run, inputs come first, what parallel tasks may both write is known |
| scheduler, `src/control-plane/scheduler.mjs` | none; reads statuses, active runs, held locks | `scheduleTasks` | dependencies, conflicts, locks and capacity are respected, nothing is stranded |
| policy engine, `src/control-plane/policy-engine.mjs` | none | `evaluateTaskPolicy`, `pathMatches` | an agent stays in the paths its task or its contract declares |
| gate engine, `src/control-plane/gate-engine.mjs` | none | `evaluateGate`, `assertGateAllowsTransition` | a gate lets a workflow on only when it is approved |
| recovery, `src/control-plane/recovery.mjs` | none | `rebuildStateFromEvents`, `planRecovery`, `evaluateConvergence` | the rebuilt state is the one that was lost |
| task executor, `src/execution/task-executor.mjs` | one heartbeat timer per call | `execute` | agents exclude one another on resources; nothing is left behind |
| session manager, workspace manager, `src/execution/` | records with a status | create, resume, heartbeat, close; create, use, stale, release | status follows what the external tool did |
| local process runner, `src/execution/local-process-runner.mjs` | map of active executions; per call reason, timers, settled | `execute`, `cancel`, `activeExecutions` | one result, after the child has ended, that says why |
| event store, `src/evidence/event-store.mjs` | events, indexes by id and by idempotency key | `append`, queries | an event is stored once and never confused with another |
| artifact registry, `src/evidence/artifact-registry.mjs` | artifacts by id, the active one per logical key | register, activate, reject, archive | one active artifact per key, a superseded one names its successor |
| trace registry, `src/evidence/trace-registry.mjs` | project maps, context manifests, requirement traces | register a map, create and check contexts, upsert | a context is valid only for the newest map |
| JSON file store, `src/evidence/json-file-store.mjs` | files | `write` | a record is absent or whole |
| OS runtime, `src/system/os-runtime.mjs` | workflows, tasks, gates, and the stores above | `createWorkflow`, `addTasks`, `transition`, `schedule`, `executeAssignments`, `evaluateGate`, `applyApprovedGate`, `integrate`, `recordAcceptance`, `release` | state and journal tell the same story |
| integration service, `src/integration/git-integration-service.mjs` | none; branches and worktrees of a git repository | `integrate` | what was verified is what was merged; what a call leaves behind is not touched by others |
| release service, `src/release/release-service.mjs` | none; runs deployment commands | `release` | nothing runs past a failure but the rollback, and the evidence says so |
| maintenance router, `src/maintenance` | none | route | a table of phases to restart from |
| state sources, `src/core/reconcile.mjs`, `src/runtime/*.mjs` | three workflow files, three run pointers, worktrees | inspect, reconcile; orchestrate, start, update, finish a run | sources that disagree are noticed, and nothing is cleared that was not kept |
| compatibility engine, `scripts/agent-loop/` | `workflow-state.md` and `.json`, `round-context.json`, run directories and the pointer to one, confirmed decisions, worktrees, an integration branch | `next`, `verify --current`, `decide`, `accept`, `start`, `sync`, `reconcile` | the files hold a state the next command can go on from; a demand is archived when its user accepted it; code reaches the main tree by way of the integration branch |

How they meet. The runtime calls the validator when tasks are added, the scheduler
for a pass, and the task executor for each assignment; it awaits the executor and
then writes the task's status. The executor asks policy, takes locks, awaits the
workspace provider, opens a session, arms the heartbeat, awaits the runner, validates
the result, settles session and workspace and releases the locks. The runner turns
events of a child process and of timers into one result. Every operation of the
runtime appends an event; recovery reads them. Integration and release are awaited by
the runtime and report by their events. The compatibility engine shares no state with
any of this: its commands meet one another in the files they read and write.

What is hard in it: leases that run out while an `await` is pending; a heartbeat that does two
things of which one may throw; cleanup that has to happen on every path; a scheduling pass that is
computed from one state and carried out in another; timeout, cancellation and exit racing for one
result; two numberings of events in one id space; two integrations in one repository, and a clean-up
nobody looks at; a rollback that fails; temporary files that two writers name alike; commands killed
between two files that have to agree; a gate decided on the tasks of one phase and applied to
another; code that is committed, merged and copied in steps and repeated after a failure; agents
that answer after they were given up; and long legal sequences of calls. `PROJECT.json` lists these
hazards line by line, with the properties that watch them.

## Modules, and how they correspond to the code

Three habits are common to all modules. An action is the whole code from one `await`
(or timer, or event, or file operation where a process may be killed) to the next,
because nothing can interrupt it. A call that throws before it changes anything is no
step at all, unless throwing has consequences for others. Mutated definitions
("Mutant: ...") stand just before the definition they mutate; nothing uses them: each
is a plausible bug that the run of its property would catch.

**WorkflowRules, WorkflowEngine.** The two transition tables of
`workflow-engine.mjs:3-30` as functions, `TransitionAllowed` as every check of
`transitionWorkflow` in order, and one workflow driven by any sequence of accepted
calls. `passed` is history: the phases entered since the last entry to
IMPLEMENTATION. Actor and reason need only be present and are left out.

**LockTable, LockManager.** `LockTable` is the map of `locks.mjs` with its operations
as operators on tables, over a time: each reaps expired leases first, as the code
does (`release` does not). `LockManager` puts them under clients, adds lease ids, and
keeps in `told` what each client was last told about the end of its lease, which is
all a client can go by. Lease ids are drawn from the counter in any order, since the
code numbers them in the order resources are listed.

**Dag, TaskPlan.** `Dag` is `validateTaskDag`: topological order by least id,
ancestors, levels, and each group of errors as a named condition of `Valid`. Task ids
are numbers in the order of the id strings, paths are sequences of segments.
`TaskPlan` grows a plan by batches as `addTasks` does and compares what the validator
accepts with a reference: `Schedules`, all assignments of rounds that respect the
dependencies. What a task may write (`Writable`) is what the policy engine allows it, the
paths of its agent's `Contract` and its own, where `/**` opens a directory; neither
contract nor `/**` is read by the validator, which compares the declared texts.

**ExclusiveExecution, TaskExecutor.** `TaskExecutor` has one `pc` per call of
`execute`, whose values are the awaits of the code: `creating` (provider, line 90),
`running` (runner, line 116), `validating` (line 159), `releasing` (line 174). Locks
are `LockTable`'s; workspaces and sessions are statuses per call, with `using` for the
session a call runs in, which may be one it reuses. `TimerFires` is the interval
callback of lines 105-114, with its `try` around both heartbeats. `MaxCreate` and
`TimerSlack` say how slow a provider and how late a timer may be; the code bounds
neither, so configurations differ in them. `ExclusiveExecution` is the abstract
promise: an agent begins only when no agent is at work on a task with a common
resource, and each execution has its agent at work at most once. TaskExecutor
implements it under the mapping `active` = calls that are `running`, `ended` = calls
past it.

**LocalProcessRunner.** One member of `Call` per call of `execute`, under execution
ids that may be reused. `child` is the operating system's view of the child process
and external: `exitCode` stays null when a signal ended it, "close" follows the end of
the child and of its output, a child that cannot be spawned has "error" and then
"close". `Ask` is what timeout, cancel, abort and output limit have in common: the
last names the reason, and `Terminate` signals once and arms the force kill. `asked`
and `told` are history. TaskExecutor sees the runner as an await that ends with any
outcome; that its agent is dead by then is `SettledIsDead` here.

**Scheduler, Dispatch.** `Scheduler` is one pass of `scheduleTasks` as an operator with
all its guards; context, budget and permission callbacks are one set of admissible
tasks. A pass is the set of the tasks it assigns: in the order of the plan, every
eligible one that finds room beside the active ones and the eligible ones before it.
`Dispatch` is the loop around it: a pass is computed (`Schedule`), later carried out
(`Execute`, the synchronous prefix of `executeAssignments`, task by task in the order of
the pass), and executions end in their own time. A task whose policy denies it makes
`execute` throw and is left RUNNING, as in the code, so that later passes hand it out
again; the loop passes the runs in flight and the held locks to every pass.

**EventStore, Recovery, OsRuntime.** `EventStore` is `append` with its two indexes.
`Recovery` is `rebuildStateFromEvents` with its sort, including the comparison of
event ids as text (`TextRank`, for ids of one and two digits); it replays all events of a
workflow, and an event that does not fit what was replayed before it ends the rebuild with
an error (`Broken`). `OsRuntime` composes them with `WorkflowRules`: the
records of the runtime, the events every operation appends, and executions that start
and finish or throw at any time. Its event numbers are those of line 203 (size of the
store), transitions number theirs by the version of the workflow
(`workflow-engine.mjs:85`), and both may meet. An `append` that throws after the state
was changed leaves the changed state, as in the code. Of the services behind
`integrate` and `release` it has the events; their steps are modules of their own.

**ArtifactRegistry, TraceRegistry.** The registries as they are: a sequence of
artifacts (or maps, or contexts) in the order of registration, with the index from
logical key (or project) to the active one. Every operation is one action, since none
awaits; `activate` is where an artifact supersedes the active one of its key and where
a chain may lose its head. A context is made from the active map and is checked against
the map the registry has now, which may have changed in between.

**GitIntegration.** Several calls of `integrate` over one repository, each a sequence
of git commands: worktree, branch, merges commit by commit, head, checks, clean-up.
`Place` and `Branch` are worktree directories and branch names; calls may share them,
as callers choose both. Git is external, modelled from how it is called: a branch that
exists or is checked out elsewhere, or a directory that is taken, makes a command fail.
The clean-up may fail too, which the code does not look at (`CleanedUp` gives both
outcomes). A check is run in the worktree; that one may name another directory
(`specification.cwd`, line 70) is left out.
The result is drawn from what was collected until then, as in the code.

**ReleaseService.** One call of `release`, command by command: refusal, migration,
deployment, health checks, side effects, rollback; every command may succeed, fail or
throw. The checks on acceptance and risk documents are one refusal. `ran` and `failed`
are what really happened, `evidence` what the code says of it.

**JsonFileStore.** Calls of `write` for one record, one action per file operation.
Temporary files are named by process and millisecond, so `moment` gives each call the
name it uses and two calls may have one name. Stopping the process at any point needs
no action: what is then on disk is what any reachable state shows.

**StateSources.** The reconciliation of the portable core with the run lifecycle that
writes the pointers it reads: three workflow files (`view`), three pointers (`run`,
`listed`, `events`), archives, and worktrees with their deleted directories and missing
outputs. `command` is the write a command does next, and `After` the order of the
writes. `Crash` stops between two writes or within one, which leaves a file that cannot
be read (`Torn`). The adapter is that of the repository's test: `blockedWorkflow` and
`readyWorkflow` are in one phase. `gone` and `lost` are the inputs of the inspection
that are neither files nor pointers.

**LoopRules, AgentLoop.** `LoopRules` is the pure part of the compatibility engine: the
state its three files hold, and `DecideNextState`, which makes the next one from the
result of a gate and the issues it left open (`state.mjs`, `issue-router.mjs` as far as
types and owners of issues decide the outcome). `AgentLoop` is its command line:
`cmd` holds the state to be written and the writes still to be made, one action per
write; `next` starts agents and waits, and may be given another phase than that of the
state (`ForcedPhases`; names that are no phase are left out): its tasks are then of that
phase, while the state moves on from its own. `verify --current` evaluates the gate of the
last finished run for the state of now. The commands advise it only for a loop in
BLOCKED_BY_SYSTEM (`orchestrator.mjs:90`, `cli.mjs:320` and `:377`); nothing enforces that,
and the model allows it always. `mixed` is history: whether, since the last reset, a phase
was approved by the tasks of another. `decided` and `accepted` are the confirmed
decisions. `Crash` kills the command between two writes; that a write is cut short, after
which the file cannot be read, is left out (`StateSources` has it for its files). The Brain
agent may edit the markdown while it talks with the user (`cli.mjs:356`,
`brain-chat.mjs:135`); `SyncFromMarkdown` takes over only what commands wrote. One command
runs at a time.

**CodeDelivery.** How code gets from agents to the main work tree in that engine, over
the phases from IMPLEMENTATION to USER_ACCEPTANCE: worktrees made from HEAD and loaded
with the main tree's code, edits, the scope guard, commit and merge task by task, and
the copy file by file; a round may be killed or time out anywhere and is repeated in
the worktrees it left. A file is the set of rounds in which it was edited, so that a
merge is a three-way merge of sets and a lost edit is a missing number. Rounds are of the
phase that is due; a forced phase, and a `git status` that fails and reads as nothing to
load, are left out.

**GateIssues, IssueRounds.** What the engine makes of the outputs of a round. `GateIssues` is pure:
a `Result` is how an agent's task ended, its document, its Self Check and its `GateReport` (readable
or not, its verdict, whether its form passes, its items); from them come the verdict of the gate
(`RowPassed`), the problems of a row that does not pass (`gate.mjs`, `gate-result-validator.mjs`,
`self-check-*.mjs`), and the issues they are merged into by `Signature`, with type, origin and owner
(`issue-router.mjs`). `IssueRounds` is the loop around it: a round gives each agent of the plan any
result, its issues go to `LoopRules`' `DecideNextState`, and the planner turns the next state into
the agents of the next round (`PlanTasks`); in between the user answers what was asked
(`DecideIssue`). `confirmed` is `confirmed-decisions.json`; `last`, `answered` and `flawed` are
history. A subject in `Topic` is one the router knows by its words and signs by them alone; any
other is signed with the kind of its item, which differs between an open question and an open issue
(`KindOf`). That an agent may name a kind itself (`issue_type`) is left out, and rounds are those of
`next` without `--phase`. AgentLoop has the writes that go with it.

**Attempts.** What happens around the wait in `next`: agents that end, report, answer
late, or are killed while their script writes the status file; a command that polls,
finds a file half written, runs out of time, fails, is interrupted or killed; and the
next attempt at the same round. `pending` is what is still to be launched, then the
`pending` of `waitForStatusFiles`; `taskRecord` is `current-tasks.json`. An attempt has
a run directory of its own, as runs that start in different seconds do.

**MC_Parts** puts the parts that share no state and never call one another into one
run: `part` is chosen at the start, and the part chosen is explored with the others
left where they start. (The runtime and its journal are one part; EventStore, Recovery
and WorkflowRules are in it.)

The `*_proofs` modules hold theorems and proofs, and `Iteration` the lemmas about
recursive functions and concatenated sequences that they share; the `MC_*` modules hold
small values of constants and the composition of independent parts, and state nothing.

## Runs

| run | shows | bounds |
|---|---|---|
| parts | thirteen parts, each from its start. Workflow: phases cannot be skipped on the way to delivery (`ReleasedOnlyVerified`). Locks: trust in a lease is justified (`ToldIsHeld`). Plans: order, levels and the flow of artifacts agree with `Schedules`, and a file two parallel tasks may write is one of a contract or below a glob (`OrderIsRunnable`, `InputsComeFirst`, `SharedWritesExplained`). Runtime: every task change is journaled, and replaying all events of a workflow finds its phase, status, version and tasks, if its transitions are stored and ids of one time are in the order of text (`TaskChangesAreJournaled`, `RecoveryIsExact`). Registries: a superseded artifact names its successor, contexts follow maps (`SupersessionIsTraced`, `ContextsFollowMaps`). Integrations verify their own tree, and a tree left behind is not touched by later ones (`VerifiedInPlace`, `LeftTreesStay`). A release stops at its failure and tells the truth about its rollback (`RollbackIsTrue`). Records are whole (`RecordsAreWhole`). Reconciliation keeps what it clears and is not taken for done early (`PointersPreserved`, `ReadyIsSettled`). Code comes by the integration branch and is kept from the tests on (`RootIsIntegrated`, `CodeIsKept`). Issues: a failure of the engine stops the loop, a question reaches the user, a repair has somebody to do it, an answered question is not asked again in the form it was answered in (`SystemFailuresBlock`, `QuestionsStopTheLoop`, `SomeoneWorks`, `AskedOnce`). Attempts: what the gate judges is finished, whatever earlier attempts left running (`JudgedWhenEnded`) | 1,404,962 states. Every phase a maintenance route starts in, 20 transitions, more than a full delivery (13) and a rework loop. 2 owners, 2 resources, leases of 1 and 2, time to 3, 3 lease ids: expiry, renewal, shortening, partial renewal and taking over all fit in. All plans of up to 3 tasks over 72 declarations (every graph, one artifact and an external one, nested and disjoint paths and a glob, one conflict, one lock), the agent of one with a contract of its own: chains, joins, cycles and pairs need no more than 3. 2 workflows, one of which has seven events in the store from the start, 2 tasks, 1 gate id, 4 more events, 1 transition of a workflow, 2 executions of a task in flight, 2 times: enough for both numberings to meet, for stale executions and for event numbers that go from one digit to two within the history of a task. 2 keys and 3 artifacts; 2 projects, 4 maps, 3 contexts. 2 integrations over 2 directories and 2 branches with up to 2 commits and checks each; up to 2 commands per stage of a release. 3 writers in 2 milliseconds, 2 of them in one. 2 run ids and a task, the markdown of the state sources in agreement with the other two files at the start or not. A code and a test file over 3 rounds, one of which may be killed. 3 rounds of issues from TESTING, up to 2 outputs of a round other than a pass: agents that fail, documents that cannot be read, reports that are missing or out of form, flaws with and without an owner or a topic, questions with and without a topic, alone and beside a flaw or against one of their topic, so that a question can be asked, answered and asked again, and a flaw found, repaired and checked. 2 attempts at a round of 2 tasks |
| task_executor | with timers on time and a provider faster than the lease: exclusion, and refinement of ExclusiveExecution | 3 calls, one needing both resources and the others one each; leases of 3 ticks, renewed every tick, time to 4, so that a lease can run out and be taken over |
| task_executor_rough | with late timers, slow providers, reused and closed sessions and unreadable results: what still holds (`AllOrNothing`, `EndedHoldsNothing`, `ResultMatchesWorkspace`), and that only a call at its runner has its locks renewed, so that a call which breaks off or hangs elsewhere keeps others away for one lease at most (`OnlyRunsRenew`) | 2 calls with one of three resources in common; leases of 2, provider up to 3, timers up to 1 late |
| process_runner | one result, after the end of the child, that says what happened; cancellation never turns into success; what was asked to end ends | 2 calls under one id, the second with a timeout: reuse of an id while late events of its first call are pending |
| dispatch | dependencies approved for the whole of a run, locks apart, approved tasks untouched, no task stranded by what has nothing to do with it, but for denied tasks that are handed out again in every pass and take all the room (`AllSettle`) | 7 tasks with a branch, two chains, a shared lock and a free task, 2 at a time; two tasks are denied, as many as there are places, so that they can crowd out the last one; each may also be superseded from the start, so that none or one of them does |
| agent_loop | every state on file is sound, a demand is archived only with its acceptance unless a phase was judged by the tasks of another, splits heal, reconciliation finishes | 424,602 states: 2 runs, of the phase of the state or of TESTING, or verifications, 1 killed command, any number of decisions, acceptances, resets and reconciliations; starting fresh, in a rework of TESTING at its second failure, and before the user's acceptance, so that a third failure, a recheck and an archive are all within two runs |
| execute_twice, dispatch_conflict, os_runtime_audit, agent_loop_reverify, issue_rounds_recheck, late_agents | the disagreements below | the smallest instance that has the case |

CHECK_DEADLOCK is FALSE where the system may stop: workflows close, calls end, plans are
done, clocks and logs reach their bounds. agent_loop checks for deadlock: an operator
can always start again. Symmetry is used for the run ids of the state sources: that run
checks invariants and action properties only and no constant tells the ids apart.
MaxTime, MaxLeases, MaxTransitions, MaxVersion, MaxEvents, MaxExecutions, MaxClock,
MaxRuns, MaxCrashes, MaxArtifacts, MaxMaps, MaxContexts, MaxCommits, MaxChecks,
MaxCommands, PerMoment, MaxDeliveries, MaxCutShort, MaxRounds, MaxFaulty and MaxAttempts
are bounds on exploration, declared as such and never part of the code's guards (the
MaxFailures of LoopRules, 3, is the code's own).

## Fairness

Weak fairness on what the event loop must deliver, and on nothing that is a decision
of someone outside. `TaskExecutor` has none: nothing in the code makes its awaits end.

* *process_runner*: timers fire, events are delivered, SIGKILL ends a child, and
  descendants that hold its output let go in the end. Without the last, "close" never
  comes and the code waits for ever; nothing in it bounds that wait. No fairness makes
  a child exit by itself or anyone cancel.
* *dispatch*: the loop schedules while there is something to schedule
  and executes what it was given, and a refused lock is recorded. Nothing makes an
  execution end, since the code gives runner, provider and validator no time of their own:
  `AllSettle` counts what waits for one that never ends as held up.
* *agent_loop*: a command that was not killed goes on (weak fairness of its writes, of
  the answer of its agents and of its clean-up). Here, and only here, something is
  asked of the operator: one who is told that the files are split runs `reconcile`
  again until it succeeds, and removes what keeps the clean-up from succeeding
  (strong fairness of `Reconcile` and of `CleanUpSucceeds`); nothing in the engine
  heals a split by itself. Kills are not fair and are bounded.

## Proofs

TLAPS checks all of these for every value of the constants; `PROJECT.json` names the property each
one states, where a run checks it too. Every safety invariant and action property of the passing
runs is proved. Of five of the six properties that fail of the code it is proved how far they hold.
Type correctness of every module with a proof is proved and no longer run. Also proved only are:
`ArchivedPhaseIsClosed` and `ClosedIsForever` (workflow), `NoOverlappingTrust` and
`LeaseIdNamesOneHolding` (locks), `LeaseCoversRun` (executor), `CancelledNeverSucceeds` and
`ResultIsFinal` (runner), `NextEventIsFresh` and `EventsAreDistinct` (runtime), `ActiveIsIndexed`,
`RetiredStays` and `LatestMapIsActive` (registries), `PassedIsWhole` (integration) and
`NothingPastFailure` (release). They held in runs of their own before they were proved, and so did
the invariants named below.

* **ControlPlane_proofs, workflows.** `ReleasedOnlyVerified` is not inductive: it says
  nothing about a workflow in SYSTEM_TEST. `ChainInv` is: in each phase of the chain the
  phases before it, back to IMPLEMENTATION, are in `passed`. Every transition keeps it
  because the phase table leads into each phase only from the one before, or back to
  IMPLEMENTATION or earlier. It assumes workflows start no later than IMPLEMENTATION
  (`InitialPhasesAssumption`), which is so for `createWorkflow`'s callers and the
  maintenance routes.
* **ControlPlane_proofs, locks.** `ToldIsHeld` is inductive with the types: a lease that
  has not run out is not reaped, not granted to another, and each operation tells its own
  caller what it did. Exclusion of trust follows. `LeaseIdNamesOneHolding` needs that
  issued ids are below the counter (`IssuedBelowCounter`). Resources are assumed to be
  finite, since a request counts its new leases.
* **ControlPlane_proofs, state sources.** For any runs and tasks, and with commands killed
  anywhere: what a reconciliation is still to clear has been archived
  (`KeptBeforeCleared`), which is `PointersPreserved`; and the workflow is blocked before a
  pointer is cleared and until the tasks are (`ClearedIsBlocked`), from which
  `ReadyIsSettled` follows. `RunUnderway` types what `orchestrate` goes on from.
* **Iteration, Planning_proofs.** `Dag` is built of recursive functions, and an induction
  rule over predicates cannot be instantiated here. `Iteration` states induction over
  sets: a set of numbers has a least one (`LeastNatural`), so a set with 0 that is closed
  under successor up to N contains 0..N (`Induction`), and a recursion whose steps stay in
  a set has its values there (`Recursion`, by the set of all `Runs` and the least length
  for which there is none). With them, for every finite plan: the order grows by one
  runnable task at a time and names all of an acyclic plan, ancestors come first in every
  schedule, and a task's level is the earliest round of any (`LevelIsEarliest`, by the
  place of a task in the order). `OrderIsRunnable`, `InputsComeFirst` and
  `SharedWritesExplained` follow from what `Valid` checks, the last with the lemma that
  of two declared paths that match one file the texts overlap, unless one is a glob and
  hides the other.
* **Planning_proofs, dispatch.** For every plan, capacity and set of denied tasks, with
  the pass as the scheduler computes it: a task whose execution has begun is not approved
  and all it depends on is (`Begun`), and who works holds what it needs (`Holding`). A pass
  may be carried out long after it was computed; `Begun` says why that does no harm, since
  approved tasks stay so (`ApprovedStays`). Of the disagreement dispatch_conflict the proofs
  give the extent: what a pass hands out is compatible with what is in flight
  (`AssignedCompatible`), so a conflict is only ever worked on within one pass
  (`ConflictsKeepToOnePass`); and, since a pass fills what room is left
  (`AssignmentsFit`, by the greatest place in the order that got in), no more than the
  capacity is underway (`CapacityKept`), so that with a capacity of 1 `ConflictsApart` holds.
* **TaskExecutor_proofs.** Mutual exclusion of agents is proved from three named
  assumptions, and the invariant `SecuredRuns`: a call that makes its workspace is
  inside its first lease; one that is running has a lease that outlasts its next
  heartbeat, and a session open to that heartbeat. `DistinctAttempts`: no two calls
  have one owner id. `TimelyEnvironment`: making a workspace, one heartbeat interval
  and the lateness of a timer together stay below the lease. `NoCloseUnderReuse`:
  callers do not both reuse and close sessions. Each assumption is what the code leaves
  to its environment, and the property fails without it (see below). From the same
  assumptions `Implementation`: every step of the executor is one of
  `ExclusiveExecution` under the mapping above, or none. `EndedHoldsNothing` and
  `AllOrNothing` need `DistinctAttempts` only, however late timers are: a call outside its
  stages holds nothing (`OutsideHoldsNothing`), and the leases that are left of a call's
  end together (`LeasesEndTogether`), since it took and renews them at once.
  `ResultMatchesWorkspace` needs no assumption (`WorkspaceAtStage`, `ActiveIsUsed`).
  `OnlyRunsRenew`, with `DistinctAttempts`, needs no invariant but the types: a call that is
  not at its runner leaves its locks as they are or releases them, and others' steps do not
  touch leases that have not run out.
* **Runners_proofs, process runner.** The invariant links the one reason the runner keeps,
  which later requests overwrite, with all that was asked (`ReasonWasAsked`): a call
  has a reason exactly if it was asked to end, and the reason is one of those. With
  `ActiveIsExact`, from which it follows that settling a call frees its own id and no
  other's, this gives that statuses are explained and that no accepted cancellation
  ends in success.
* **Runners_proofs, attempts.** `JudgedWhenEnded` needs that later attempts have left
  nothing yet (`LaunchesAreNew`), that a status file says something only when its agent is
  gone (`FilesFollowAgents`), and that what is waited for no more was read
  (`ReadIsRecorded`); it holds for any number of attempts, tasks and agents left running.
* **Evidence_proofs, registries.** `ActiveIsIndexed` with the types is inductive: whatever
  changes a status changes the index in the same step. `SupersessionIsTraced` rests on it:
  an artifact is superseded by the one that takes its place in the index, and the index
  says that this was another artifact of its key. `ContextsFollowMaps` is proved with
  `LatestMapIsActive` (`TraceInv`), without which a context could be valid for a map
  that is active and not the newest.
* **Evidence_proofs, JSON file store.** `RecordsAreWhole` for any number of writers of
  whom at most two share a millisecond (`PerMoment` at most 2). With two, a temporary file
  belongs to one that has it open (`TempsAreOwned`), and one whose file is gone lost it to
  the other, which has failed for good (`LostToFailed`). With three it is false: see the
  limits below.
* **Evidence_proofs, runtime.** Events are distinct although two counters number them: the
  invariant says that every stored number, and every version of a workflow, is at most
  the length of the log (`EventsNumbered`, `VersionsNumbered`: a transition either adds
  an event or collides with one that has its number), so that the next number of the
  store is new. A transition's number may be old; then `append` does not store its
  event, which is the disagreement os_runtime_audit. `TaskChangesAreJournaled` is an
  action property that needs the freshness: the event of a task change is never taken
  for a duplicate. How much of the trail of transitions can be missing is
  `GapsAreTakenNumbers`: a transition to version v has its event, or the v-th event of the
  store is another one of the same workflow, since that is where the runtime's own events
  have their numbers (`EventsPlaced`). A workflow that is not yet at the number of its
  `workflow.created` event has lost nothing.
* **Evidence_proofs, recovery.** The invariant `ReplayInv` follows the replay: replayed in
  the order of the store, the events of a workflow whose transitions are all stored give its
  phase, status, version and tasks and reject nothing (`EventsReplay`), because every step
  that changes one of them appends an event that is new, starts from the value there is, and
  says what it becomes; a transition whose event collides is not among them, and then the
  workflow stays unaudited for ever, as versions only grow (`TransitionsPast`); and the store
  is in the order of time (`TimesInOrder`). What is left is the sort: it leaves the events
  alone where of two of one time the one stored later also has the later id as text
  (`InTextOrder`). So recovery is exact (`RecoveryFindsAll`), for any operations and any
  executions in flight, and without those two conditions it is not (see the limits).
  For the proof `Recovery` gives each event its place in the sorted list (`Rank`: how
  many go before it, equal ones in the order they came in, as a stable sort has them) and
  replays by a recursive function; `SortSeq` and folds take an operator, of which the
  prover knows nothing. `Iteration` has what is needed of `FlattenSeq`, which collects the
  events of a workflow: one more part adds its elements at the end (`FlattenedOneMore`).
* **Delivery_proofs, integration and release.** For any number of integrations, directories,
  branches, commits and checks: what an integration verifies is a worktree that is on its branch and
  holds its merges, because git refuses a branch or a directory that another integration has.
  `IntegrationInv` adds to the types and the properties that a worktree is at the directory of the
  call that made it (`TreesAtTheirPlace`) and that a call which is verifying still has its own
  (`VerifyingIsUnderway`). `LeftTreesStay` follows: a call only ever removes a worktree it made
  itself, and one that has ended makes no step. For a release of any numbers of commands:
  `ReleaseInv` says that results are recorded in the order of the stages, none after a failed one
  (`PastIsOrdered`), and that the stage agrees with them (`StageAgrees`) and with the rollback
  (`RollbackAgrees`).
* **Delivery_proofs, code.** `RootIsIntegrated` and `CodeIsKept` for any files, rounds and
  kills. A loaded worktree keeps what the main tree had until it is copied back
  (`ReadyTreesAreLoaded`), collected files are of one task and merged
  (`CollectedAreApart`, `CollectedAreMerged`), and what was merged is on the branch
  (`MergedIsOnBranch`). A worktree can undo a merge only where it was made anew from HEAD:
  `NothingIsUndone` excludes that for the rounds where it would matter, and
  `LoadedTreesClash` says why several loaded worktrees never get that far.
* **AgentLoop_proofs, state.** `StatesAreSound` is inductive with the types once it speaks of
  the state in flight too: every command computes a sound state from a sound one, and a
  killed one leaves only states that were sound when they were written. `decided` grows,
  which keeps `FixesOnlyAnswered`. `ArchiveIsAccepted` is false of the code;
  `ArchiveIsAcceptedUnlessMixed` is proved, for any forced phases. Its invariant has three
  parts: what is
  still to be written is a suffix of a list of writes, so that json is written once and
  before the run is finished (`OrderInv`); unless a phase was judged by the tasks of another, a block of
  USER_ACCEPTANCE on file has the round of the run it comes from (`JudgedInv`), and a state
  in flight that goes from USER_ACCEPTANCE to ARCHIVE has its round among the accepted ones
  (`ArchiveInv`).
* **AgentLoop_proofs, issues.** For any results of any number of items, from any phases and for any
  topics. Lemmas follow a problem from the row that has it through the merge: every issue is sound
  (`SoundIssue`: only what the engine got wrong is marked as its own and has no topic, a question
  goes to the user), and the merged list has one for each signature (`Merged`, by the least index).
  `IssueInv` says of the state that a loop waiting for the user has no issue of the engine open,
  that a rework is given to an agent the planner knows, and that what was answered is confirmed
  under the signature it has whenever it comes back in the same form, or with the same topic
  (`Canonical`). `SystemFailuresBlock`, `SomeoneWorks`, `QuestionsStopTheLoop` and `AskedOnce`
  follow. `QuestionsStopTheLoop` names its exception: see the limits. Of the claim
  issue_rounds_recheck refutes, `RecheckFollows` keeps what is true: the state carries the issues of
  the last round, and there are none after a round that passed (`IssuesAreCarried`), so a phase is
  not approved straight after a round that left a flaw or a question; it is the round before that
  one that is forgotten.

Only model-checked: liveness (`AskedEnds`, `AllSettle`, `SplitHeals`,
`ReconcileFinishes`), for which the prover has no fairness reasoning; and the properties of
the runs that end in a counterexample, which are false of the code as they stand. How far
those hold is proved for five: `ArchiveIsAccepted` in `ArchiveIsAcceptedUnlessMixed` (agent_loop_reverify),
`MutualExclusion` under `DistinctAttempts` (execute_twice), the extent of dispatch_conflict,
of os_runtime_audit and of issue_rounds_recheck as said above. Of late_agents it is proved
that the gate is not misled (`JudgedWhenEnded`).

## Where the code and its documents disagree

Six runs end in a counterexample; each quotes its document in `PROJECT.json`.

* **execute_twice.** The lock owner is `attempt-<taskId>-<number>`, and `acquire` is
  re-entrant for its owner. A second `execute` of the same attempt gets the same locks
  while the first agent works. The documents say duplicates are rejected.
* **dispatch_conflict.** `conflictsWith` is compared with runs active before the pass
  only: two conflicting tasks of one pass are assigned together.
* **os_runtime_audit.** The first transition of the first workflow has the id of its
  `workflow.created` event. `append` throws `EVENT_ID_COLLISION`, after the workflow
  was changed: the transition has no event.
* **agent_loop_reverify.** `verify --current` decides the state of now by a gate
  computed from the tasks of the run before. Once product acceptance is approved, a
  second verification approves USER_ACCEPTANCE by the tasks of product acceptance, and
  the demand is archived with nobody's acceptance. `next --phase` does the same within one
  run: in USER_ACCEPTANCE, `next --phase=TESTING` plans tasks of TESTING
  (`planner.mjs:83`), the gate asks for the acceptance only of tasks of USER_ACCEPTANCE
  (`gate.mjs:198`), and the state moves on from its own phase (`state.mjs:274`, `:297`) to
  ARCHIVE. `05-engineering-and-operations.md:229` of the company documents forbids both.
  The passing run has both ways in it, and `ArchiveIsAcceptedUnlessMixed` says that there
  is no third.
* **issue_rounds_recheck.** Whether a round that passes is rechecked is decided by the
  issues of the round before it (`state.mjs:726`). A repair round that fails by form
  alone, such as a missing `gate_result.json`, replaces the flaw's issues by its own, and
  the round after it passes without the recheck `gate-matrix.md:169` asks for.
* **late_agents.** An attempt that is given up leaves its agents running
  (`tmux-runner.mjs:43`), and the next one starts others in the same worktrees, where
  `README.md:160` of the engine says that each agent has one of its own. The status
  files are apart, so the gate is not misled about who has ended (`JudgedWhenEnded`),
  but what it judges may have been written by both.

## Known limits of the code

Those in the first three groups are in the actions above, so no property claims
otherwise and assumptions and antecedents name them; those of the compatibility engine
that the model leaves out say so.

*Execution and control plane*

* Locks are first renewed after the workspace has been made
  (`task-executor.mjs:90`, `:105`): a provider slower than the lease lets another agent in.
  Assumed away by `TimelyEnvironment`.
* The heartbeat renews the session before the locks (`:107`): when someone closed a
  reused session it throws and the locks run out. Assumed away by `NoCloseUnderReuse`.
* An agent result whose list is no list makes `execute` throw outside its cleanup
  (`:146`): workspace and session stay, and the locks until their lease runs out (`crashed`
  in the model). `EndedHoldsNothing` speaks of the other ends, `OnlyRunsRenew` of the lease.
* No await of `execute` has an end of its own (`timeoutMs` is 0 by default): one that hangs
  at its runner has its locks renewed for ever. That calls end is not claimed.
* The validator compares editable paths as text (`dag.mjs:171`) and knows no contracts; the
  policy engine reads `/**` as everything below and adds the paths of the agent's contract
  to those of the task (`policy-engine.mjs:23`, `:76`). So `src/a/**` and `src/a/x`, or any
  two tasks of agents whose contract has `src/**` (as in `test/system-e2e.test.mjs:63`), are
  accepted side by side though both may write one file, which `docs/roadmap.md:111` and the
  title at `test/control-plane.test.mjs:77` exclude. `SharedWritesExplained` says that these
  two ways are all.
* A task whose policy denies it is left RUNNING and is handed out again in every pass
  (`scheduler.mjs:84`, `os-runtime.mjs:98`): with the default `maxConcurrent` of 1 a single
  one starves every task after it in the order. `AllSettle` names it (`CrowdedOut`).
* Two tasks of one pass that share a lock are both assigned; the second is refused and
  FAILED, which is terminal (`os-runtime.mjs:100`), though it never ran.
* `schedule` knows the active runs only from its caller (`os-runtime.mjs:88`).
* `applyApprovedGate` does not compare the phase of the gate with that of the workflow
  (`os-runtime.mjs:120`).
* A signal aborted before the process is spawned has no effect
  (`local-process-runner.mjs:87`), and a child that exits without reading its input
  makes the write to it fail (`:99`), which no handler sees.
* Events of one millisecond are replayed in the order of their ids as text, `event-w-10`
  before `event-w-9`, and the rebuild throws (`recovery.mjs:136`): a workflow whose creation
  is the eighth event of the store, a task that is its ninth and starts with its tenth, all in
  one millisecond, cannot be rebuilt. Neither can one of which a transition is missing (the run
  os_runtime_audit) and another followed: the rebuild throws `WORKFLOW_EVENT_BASE_MISMATCH`
  (`recovery.mjs:98`), or, if none followed, ends in the phase before. `docs/roadmap.md:113`
  says that state can be rebuilt from events; `RecoveryIsExact` has both for conditions.
  `TextRank` stands for ids of one and two digits.

*Evidence and delivery*

* `reject` and `archive` look at no status: an archived artifact can be rejected and a
  rejected one archived (`RetiredStays` says that it is no more than that).
* Two drafts of one key may share a version, versions start again at 1 after the only
  active artifact is rejected or archived, and an artifact that is activated again keeps
  its old `supersededBy` (`artifact-registry.mjs`).
* Two writers of an immutable record can both find it absent and both put theirs in
  place (`json-file-store.mjs:11`); with three writers in one millisecond a torn file
  can become the record, which `PerMoment` excludes. A `sync` or `rename` that fails is not
  modelled.
* An integration without `cleanupWorktree`, or whose `git worktree remove` fails, which
  nobody looks at (`git-integration-service.mjs:111`), leaves a worktree that blocks its
  retry; of
  several integrations of a workflow the runtime keeps the one that ends last; a release
  does not ask whether an integration passed.
* A process that stops within a release leaves no evidence of it; release ids are not
  compared with earlier ones (`os-runtime.mjs:157`); two releases to one environment are
  not kept apart.

*State sources (portable core)*

* Markdown that is missing or blank has nothing to be patched in, so `reconcile` never
  heals it. Reconciliation of files that agree is refused, so one killed between its
  blocked and its ready state is not resumed (`core/reconcile.mjs:9`), and the workflow stays
  blocked: `ReadyIsSettled` says that it is not READY too early, not that it will be READY.
  The older engine resumes.
* `startRun` overwrites the pointers of an earlier run that were never archived
  (`PointersPreserved` speaks of the writes of reconciliation), and of a `startRun` that
  was killed nothing is noticed when what it left does not disagree.

*Compatibility engine*

* A question without a topic is signed with the kind of its item: answered as an entry of
  `open_questions` and raised again as an entry of `issues`, or the other way round, it has
  another signature (`gate.mjs:161`, `:184`; `issue-router.mjs:520`) and is put to the user
  again, though `state.mjs:503` says that the same question is not. `AskedOnce` is claimed for
  one form, and for all forms of a question that has a topic.
* Nothing marks a command as running: two at once each read the state, work and write
  what they computed from it. The model runs one at a time.
* `decide` lifts a block whoever put it up; `start --force-reset` keeps earlier
  acceptances, which count again when their round comes again; an engine failure kept in a
  run's summary cannot be cleared by verifying again. After `decide`, `accept` or a timeout
  the pointer of the run no longer fits, and `reconcile --apply` resets the demand to INTAKE.
* An interrupt's handler runs beside the main loop (`orchestrator.mjs:73`), which may
  go on until the process exits; in the models it stops at once. `CodeDelivery` and
  `AgentLoop` take the agents of an earlier attempt to have ended; `Attempts` does not,
  and late_agents shows what follows.
* Run directories are named by the second (`time.mjs:5`): two runs that start in one
  second share their status files.
* A fix within IMPLEMENTATION starts from HEAD, which has nothing of earlier rounds:
  work that was not approved is dropped, and what is copied then overwrites earlier
  approved edits. `CodeIsKept` is claimed from TESTING on.
* Two repair agents in TESTING have the same loaded files changed and always clash
  (`code-sync.mjs:20`). A command killed between commit and copy leaves work that the
  repeated round no longer sees as changed: it stays on the integration branch and never
  reaches the main tree. Loaded files are exempt from the scope guard
  (`scope-guard.mjs:32`), so the test agent can change business code.
* A report that does not pass, gives a `reason` and states no open issue gives the router
  nothing (`issue-router.mjs:212`, `gate-result-validator.mjs:31`): with another output of
  the round failing by form only, PRD_REVIEW can pass over a standing
  CHANGES_REQUESTED, where `gate-matrix.md:21` wants all of them to pass.
* A question that has the topic of an issue the agents settle themselves is merged with
  it and lost: the round neither stops for it nor asks it (`issue-router.mjs:454`, `:519`),
  though `brain-loop-protocol.md:99` and `gate-matrix.md:97` send every open question to
  the user. `QuestionsStopTheLoop` makes this exception and no other. An owner the planner
  does not know gives an empty plan (`SomeoneWorks` speaks of the owners the gate names),
  and an output that is the JSON text `null` makes the gate throw. A failed self-check of
  implementation documents is handed to the test agent when its path has `/test-reports/`
  in it.

## What is not modelled

The content of prompts, outputs, artifacts and reports; JSON schemas and contracts;
reading and validation of repositories; terminals and dashboards; the external
tools behind adapters, beyond that they succeed, fail, or take time. The maintenance
router and the runner registry are look-ups. Of recovery, `planRecovery` and
`evaluateConvergence` are left out: nothing in the repository calls the first, the
second compares two counters. Of the trace registry, requirement traces are left out.
`migration-reference/bossresume-agent-loop` is a copy of `scripts/agent-loop`, byte for
byte: what is said of one holds of the other, and `PROJECT.json` names the lines of
`scripts/agent-loop` only. `projects/` and `examples/` hold documents and data.
`PROJECT.json` gives each part's status and reason.

## Plan

Built first was what decides whether agents work on the right thing alone: workflow
engine, locks, executor, plan, dispatch, journal, process runner. Then came what they
leave behind: registries, file store, integration, release, state sources, and the
workflow state, code delivery, issue routing and attempts of the compatibility engine.
Left, in this order:

1. *Workspace manager with several clients, sessions and recovery planning*: records
   that are written after an `await` from what was read before it.
2. *Proofs* of what is added. The safety properties of the runs are proved.
