------------------------------ MODULE AgentLoop ------------------------------
(***************************************************************************)
(* The command line of the compatibility engine over its files. A command  *)
(* reads workflow-state.json, computes a new state and writes, one file    *)
(* after the other, workflow-state.md, workflow-state.json and             *)
(* round-context.json, then the pointer of the current run; it can be      *)
(* killed between any two writes; that a write itself is cut short, which  *)
(* leaves a file nobody can read, is left out. next starts agents and      *)
(* waits for them.                                                         *)
(* One command runs at a time: two of them are not kept apart by the code. *)
(***************************************************************************)
EXTENDS LoopRules, Sequences

CONSTANTS
  InitialStates,    \* workflow states the exploration starts from
  FoundSets,        \* sets of issue types a failed gate may report
  ForcedPhases,     \* what next --phase may be given
  MaxRuns,          \* bound on the runs of agents and on the verifications
  MaxCrashes        \* bound on the commands that are killed

ASSUME InitialStatesAssumption ==
  \A s \in InitialStates :
    /\ s \in State /\ ~s.split /\ ~s.directEdit /\ s.failures < MaxFailures
    /\ <<s.gate, s.status>> \in {<<"DRAFT", "READY">>, <<"CHANGES_REQUESTED", "NEEDS_FIX">>}
    /\ \A i \in s.issues : ~i.human
ASSUME FoundSetsAssumption == FoundSets \subseteq SUBSET IssueType
ASSUME ForcedPhasesAssumption == ForcedPhases \subseteq LoopPhase
ASSUME BoundsAssumption == MaxRuns \in Nat /\ MaxCrashes \in Nat

VARIABLES
  md, json, ctx,  \* the workflow state each of the three files holds
  newest,         \* whichever of md and json was written last
  run,            \* current-run.json and the summary in the directory it names
  litter,         \* worktrees no current task owns, references to lost files
  accepted,       \* rounds the user accepted, in confirmed-decisions.json
  decided,        \* questions answered there, with the gate that asked them
  cmd,            \* the command in progress
  runs, crashes,  \* how many runs or verifications, and how many kills
  mixed           \* a phase of this workflow was approved on the tasks of another:
                  \* a record for the properties, which no action reads

files == <<md, json, ctx, newest>>
vars == <<md, json, ctx, newest, run, litter, accepted, decided, cmd, runs, crashes, mixed>>

\* A write of writeWorkflowState, or a write of the run's files.
Step == {"md", "json", "ctx", "summary", "finish", "snapshot", "clear"}
Writes == <<"md", "json", "ctx">>
GateWrites == <<"md", "json", "ctx", "summary", "finish">>
VerifyWrites == <<"md", "json", "ctx", "snapshot">>
ResetWrites == <<"md", "json", "ctx", "clear">>

\* state is the one a run of agents was started in, then the one to be written.
Command == [op : {"idle", "agents", "write", "reset", "clean"}, state : State, todo : Seq(Step)]
Idle(s) == [op |-> "idle", state |-> s, todo |-> <<>>]
Writing(s, todo) == [op |-> "write", state |-> s, todo |-> todo]

RunStatus == {"IDLE", "RUNNING", "FINISHED", "TIMEOUT", "ABORTED"}
\* tasks: the phase of the tasks that ran; workflow: the status it last saw.
Run == [status : RunStatus, tasks : LoopPhase, phase : LoopPhase, round : Nat,
        workflow : WorkflowStatus \union {"NONE"}, summary : BOOLEAN, failed : BOOLEAN]
NoRun == [status |-> "IDLE", tasks |-> "INTAKE", phase |-> "INTAKE", round |-> 0,
          workflow |-> "NONE", summary |-> FALSE, failed |-> FALSE]

TypeOK ==
  /\ md \in State /\ json \in State /\ ctx \in State
  /\ newest \in {"md", "json"}
  /\ run \in Run
  /\ litter \in BOOLEAN
  /\ accepted \subseteq Nat
  /\ decided \subseteq ({GateOf(p) : p \in LoopPhase} \X IssueType)
  /\ cmd \in Command
  /\ runs \in Nat /\ crashes \in Nat /\ mixed \in BOOLEAN

Init ==
  /\ json \in InitialStates
  /\ md = json /\ ctx = json /\ newest = "json"
  /\ run = NoRun /\ litter = FALSE
  /\ accepted = {} /\ decided = {}
  /\ cmd = Idle(json)
  /\ runs = 0 /\ crashes = 0 /\ mixed = FALSE

Free == cmd.op = "idle"
Quit == cmd' = Idle(json)

------------------------------------------------------------------------------
\* next: refused while the user or the system is asked for, else the run
\* pointer is written and agents work on the phase of the state read here or,
\* with --phase, on another one. The worktrees of earlier tasks stay behind.
StartNext ==
  /\ Free /\ runs < MaxRuns
  /\ json.status \notin BlockedStatus /\ json.gate # "BLOCKED"
  /\ \E p \in {json.phase} \union ForcedPhases :
       run' = [NoRun EXCEPT !.status = "RUNNING", !.tasks = p,
                            !.phase = json.phase, !.round = json.round + 1]
  /\ cmd' = [op |-> "agents", state |-> json, todo |-> <<>>]
  /\ litter' \in {litter, TRUE}
  /\ runs' = runs + 1
  /\ UNCHANGED <<files, accepted, decided, crashes, mixed>>

\* Mutant: any acceptance on record satisfies the gate.
AcceptanceOnceShown(phase, round) == phase = "USER_ACCEPTANCE" => accepted # {}

\* A task of USER_ACCEPTANCE passes only with a record of its round.
AcceptanceShown(phase, round) == phase = "USER_ACCEPTANCE" => round \in accepted

\* The missing acceptance is an issue of such tasks alone.
Reportable(types, phase) == "acceptance" \in types => phase = "USER_ACCEPTANCE"

\* What the gate looks at are the tasks; what is advanced is the phase of the
\* state.
Judged(phase) == mixed' = (mixed \/ run.tasks # phase)

GateApproves ==
  /\ cmd.op = "agents"
  /\ AcceptanceShown(run.tasks, run.round)
  /\ cmd' = Writing(DecideNextState(cmd.state, cmd.state.round + 1, TRUE, {}, "others"),
                    GateWrites)
  /\ Judged(cmd.state.phase)
  /\ UNCHANGED <<files, run, litter, accepted, decided, runs, crashes>>

GateFails ==
  /\ cmd.op = "agents"
  /\ \E types \in FoundSets, owner \in Owners :
       /\ Reportable(types, run.tasks)
       /\ cmd' = Writing(DecideNextState(cmd.state, cmd.state.round + 1, FALSE,
                           BuildIssues(types, cmd.state.phase, decided), owner),
                         GateWrites)
  /\ UNCHANGED <<files, run, litter, accepted, decided, runs, crashes, mixed>>

\* The agents did not answer in time, or next was interrupted: the workflow
\* state stays as it was.
RunFails ==
  /\ cmd.op = "agents"
  /\ \E status \in {"TIMEOUT", "ABORTED"} : run' = [run EXCEPT !.status = status]
  /\ Quit
  /\ UNCHANGED <<files, litter, accepted, decided, runs, crashes, mixed>>

\* verify --current: the gate of the last finished run is evaluated again, on
\* its tasks and their recorded exits, for the state of now, whose round stays.
\* status and next advise it after a system block only; nothing enforces that.
VerifyCurrent(approved, found, owner) ==
  /\ Free /\ run.summary /\ runs < MaxRuns
  /\ cmd' = Writing(DecideNextState(json, json.round, approved, found, owner),
                    VerifyWrites)
  /\ runs' = runs + 1
  /\ UNCHANGED <<files, run, litter, accepted, decided, crashes>>

VerifyApproves ==
  /\ ~run.failed /\ AcceptanceShown(run.tasks, run.round)
  /\ VerifyCurrent(TRUE, {}, "others")
  /\ Judged(json.phase)

\* A missing worktree is an engine failure, whatever the run had reported.
VerifyFails ==
  \E types \in FoundSets \union {{"engine"}}, owner \in Owners :
    /\ Reportable(types, run.tasks)
    /\ run.failed => "engine" \in types
    /\ VerifyCurrent(FALSE, BuildIssues(types, json.phase, decided), owner)
    /\ UNCHANGED mixed

\* decide: answers one question of the issue file; when all of them are
\* answered the block is lifted, whoever had asked for it.
Decide ==
  /\ Free
  /\ \E i \in Human(json.issues) :
       LET known == decided \union {<<GateOf(json.phase), i.type>>}
           open  == {j \in Human(json.issues) : <<GateOf(json.phase), j.type>> \notin known}
           edit  == json.directEdit \/ json.phase \in PrdPhases
       IN /\ decided' = known
          /\ cmd' = IF open # {} THEN cmd
                    ELSE Writing(WorkflowState(json.phase, json.round, 0, "CHANGES_REQUESTED",
                                   "NEEDS_FIX", FALSE, edit, json.issues), Writes)
  /\ UNCHANGED <<files, run, litter, accepted, runs, crashes, mixed>>

\* accept: records the acceptance of the round to come and reopens the gate.
Accept ==
  /\ Free /\ json.phase = "USER_ACCEPTANCE"
  /\ accepted' = accepted \union {json.round + 1}
  /\ cmd' = Writing(WorkflowState("USER_ACCEPTANCE", json.round, 0, "DRAFT", "READY", FALSE,
                                  FALSE, json.issues), Writes)
  /\ UNCHANGED <<files, run, litter, decided, runs, crashes, mixed>>

\* start, with --force-reset unless the workflow is done.
Start ==
  /\ Free
  /\ cmd' = Writing(WorkflowState("INTAKE", 0, 0, "DRAFT", "READY", FALSE, FALSE, {}),
                    ResetWrites)
  /\ UNCHANGED <<files, run, litter, accepted, decided, runs, crashes, mixed>>

\* What two files are compared by; the issue file is not among it.
Shown(s) == [s EXCEPT !.issues = {}]
Differ(a, b) == Shown(a) # Shown(b)

\* sync from markdown: what a crash left in the newer markdown is taken over.
\* What the Brain agent writes into that file while it talks with the user, an
\* agent's free text, is left out.
SyncFromMarkdown ==
  /\ Free
  /\ Differ(json, md) /\ newest = "md"
  /\ cmd' = Writing(md, Writes)
  /\ UNCHANGED <<files, run, litter, accepted, decided, runs, crashes, mixed>>

------------------------------------------------------------------------------
\* reconcile: anything that does not fit is a split, an open run, a run older
\* than the last change of the state, and litter (worktrees and references)
\* included; the state is reset to INTAKE, blocked until all of it is gone.
RunMismatch ==
  run.status # "IDLE" /\ ( \/ run.phase # json.phase \/ run.round # json.round
                           \/ run.workflow \notin {"NONE", json.status} )
\* Mutant: round-context.json is not compared.
SplitDetectedInPair ==
  \/ Differ(json, md)
  \/ run.status \in {"RUNNING", "ABORTED"} \/ RunMismatch \/ litter
SplitDetected ==
  \/ Differ(json, md) \/ Differ(json, ctx)
  \/ run.status \in {"RUNNING", "ABORTED"} \/ RunMismatch \/ litter

\* Mutant: files that agree leave reconcile nothing to do.
FinalizationSkipped == FALSE

\* An earlier reconcile stopped between its blocked and its ready state.
FinalizationRequired == json.status = "BLOCKED_BY_SYSTEM" /\ json.split

Reconcile ==
  /\ Free
  /\ SplitDetected \/ FinalizationRequired
  /\ cmd' = [op |-> "reset", todo |-> ResetWrites,
             state |-> WorkflowState("INTAKE", 0, json.failures, "DRAFT", "BLOCKED_BY_SYSTEM",
                                     TRUE, FALSE, {})]
  /\ UNCHANGED <<files, run, litter, accepted, decided, runs, crashes, mixed>>

\* The orphans cannot all be removed: the state stays blocked.
CleanUpFails ==
  /\ cmd.op = "clean" /\ litter
  /\ Quit
  /\ UNCHANGED <<files, run, litter, accepted, decided, runs, crashes, mixed>>

CleanUpSucceeds ==
  /\ cmd.op = "clean" /\ litter' = FALSE
  /\ cmd' = Writing(WorkflowState("INTAKE", 0, 0, "DRAFT", "READY", FALSE, FALSE, {}), Writes)
  /\ UNCHANGED <<files, run, accepted, decided, runs, crashes, mixed>>

------------------------------------------------------------------------------
\* The command goes on after the write at the head of its list.
Advance ==
  cmd' = IF Len(cmd.todo) > 1 THEN [cmd EXCEPT !.todo = Tail(@)]
         ELSE IF cmd.op = "reset" THEN [cmd EXCEPT !.op = "clean", !.todo = <<>>]
         ELSE Idle(json)
Pending(step) == cmd.todo # <<>> /\ Head(cmd.todo) = step

WriteMarkdown ==
  /\ Pending("md") /\ Advance
  /\ md' = cmd.state /\ newest' = "md"
  /\ UNCHANGED <<json, ctx, run, litter, accepted, decided, runs, crashes, mixed>>

WriteJson ==
  /\ Pending("json") /\ Advance
  /\ json' = cmd.state /\ newest' = "json"
  /\ UNCHANGED <<md, ctx, run, litter, accepted, decided, runs, crashes, mixed>>

WriteContext ==
  /\ Pending("ctx") /\ Advance
  /\ ctx' = cmd.state
  /\ UNCHANGED <<md, json, newest, run, litter, accepted, decided, runs, crashes, mixed>>

\* summary.json keeps the tasks and the exits of their agents.
WriteSummary ==
  /\ Pending("summary") /\ Advance
  /\ run' = [run EXCEPT !.summary = TRUE,
                        !.failed = \E i \in cmd.state.issues : i.type = "engine"]
  /\ UNCHANGED <<files, litter, accepted, decided, runs, crashes, mixed>>

Snapshot(r) == [r EXCEPT !.phase = json.phase, !.workflow = json.status]

WriteRunFinished ==
  /\ Pending("finish") /\ Advance
  /\ run' = [Snapshot(run) EXCEPT !.status = "FINISHED"]
  /\ UNCHANGED <<files, litter, accepted, decided, runs, crashes, mixed>>

SyncRunSnapshot ==
  /\ Pending("snapshot") /\ Advance
  /\ run' = Snapshot(run)
  /\ UNCHANGED <<files, litter, accepted, decided, runs, crashes, mixed>>

ClearRun ==
  /\ Pending("clear") /\ Advance
  /\ run' = NoRun /\ mixed' = FALSE
  /\ litter' \in {litter, litter \/ run.status # "IDLE"}
  /\ UNCHANGED <<files, accepted, decided, runs, crashes>>

\* The process is killed between two writes; what it has written stays.
Crash ==
  /\ ~Free /\ crashes < MaxCrashes
  /\ crashes' = crashes + 1
  /\ Quit
  /\ UNCHANGED <<files, run, litter, accepted, decided, runs, mixed>>

Write == WriteMarkdown \/ WriteJson \/ WriteContext \/ WriteSummary \/ WriteRunFinished
         \/ SyncRunSnapshot \/ ClearRun
User == StartNext \/ VerifyApproves \/ VerifyFails \/ Decide \/ Accept \/ Start
        \/ SyncFromMarkdown \/ Reconcile
Gate == GateApproves \/ GateFails \/ RunFails

Next == User \/ Gate \/ Write \/ CleanUpFails \/ CleanUpSucceeds \/ Crash

Spec == Init /\ [][Next]_vars

\* A command that was not killed goes on; an operator who finds the files split
\* runs reconcile again until it succeeds, and cleans up between two attempts.
Fairness ==
  /\ WF_vars(Write) /\ WF_vars(Gate) /\ WF_vars(CleanUpFails \/ CleanUpSucceeds)
  /\ SF_vars(Reconcile) /\ SF_vars(CleanUpSucceeds)
FairSpec == Spec /\ Fairness

------------------------------------------------------------------------------
\* The guards of next, decide and accept read one of two fields: a gate is
\* blocked exactly when the status asks for somebody, or both say that the
\* files are being reconciled.
StatusMatchesGate(s) ==
  IF s.gate = "DRAFT" /\ s.split THEN s.status = "BLOCKED_BY_SYSTEM"
  ELSE s.gate = "BLOCKED" <=> s.status \in BlockedStatus

\* The PRD is open for direct edits in the phases that review it only, however
\* the mode was carried over through blocks, rechecks and decisions.
EditsOnlyPrd(s) == s.directEdit => s.phase \in PrdPhases

\* A workflow that waits for the user has a question that decide can answer:
\* next refuses to run, so without one there would be no way out.
UserCanAnswer(s) == s.status = "NEEDS_USER" => Human(s.issues) # {}

\* Agents are sent to fix only when every question of the last gate has been
\* answered by the user.
FixesOnlyAnswered(s, known) ==
  s.status = "NEEDS_FIX" => \A i \in Human(s.issues) : <<GateOf(s.phase), i.type>> \in known

\* Agents are sent to fix at most MaxFailures times in a row.
FixesAreBounded(s) == s.status = "NEEDS_FIX" => s.failures < MaxFailures

Sound(s, known) ==
  /\ StatusMatchesGate(s)
  /\ EditsOnlyPrd(s)
  /\ UserCanAnswer(s)
  /\ FixesOnlyAnswered(s, known)
  /\ FixesAreBounded(s)

\* Every file holds a state next, decide and accept can work from, and so does
\* the state on its way to them, whichever command wrote it and wherever an
\* earlier one was killed (state.mjs:118-200, 273-408; decision-cli.mjs:87;
\* cli.mjs:291; reconcile-state-sources.mjs:41, 91).
StatesAreSound == \A s \in {md, json, ctx, cmd.state} : Sound(s, decided)

ArchivesAccepted ==
  json.phase = "USER_ACCEPTANCE" /\ json'.phase = "ARCHIVE" => json'.round \in accepted

\* Not true of the code: the archive is reached from USER_ACCEPTANCE with the
\* user's acceptance of the very round that was approved (gate.mjs:197-284 as
\* used by orchestrator.mjs:177-228 and verify-current.mjs:183-252).
ArchiveIsAccepted == [][ArchivesAccepted]_vars

\* There is one way around: that a phase of this workflow, this one or an earlier
\* one, was approved on the tasks of another, which next --phase and a second
\* verify --current do. Without it the archive is accepted, whichever runs and
\* verifications led there and wherever commands were killed and resumed.
ArchiveIsAcceptedUnlessMixed == [][~mixed => ArchivesAccepted]_vars

FilesAgree == ~Differ(json, md) /\ ~Differ(json, ctx)

\* Wherever a command is killed, its files agree again once reconcile or any
\* other command has run to its end (reconcile-state-sources.mjs:20-118).
SplitHeals == ~FilesAgree ~> FilesAgree

\* A block that reconcile itself has put up does not outlive it: an attempt
\* that was killed or could not clean up is finished by a later one
\* (reconcile-state-sources.mjs:24, 230-233).
ReconcileFinishes == json.split ~> ~json.split
==============================================================================
