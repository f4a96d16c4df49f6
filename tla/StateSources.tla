----------------------------- MODULE StateSources -----------------------------
(***************************************************************************)
(* The state sources of the portable core: the workflow in three files, the *)
(* pointers to the current run in three more, and the worktrees of its     *)
(* tasks. orchestrate writes the pointers; reconcileStateSources finds      *)
(* sources that disagree, archives the pointers, blocks the workflow,      *)
(* clears the pointers, cleans up and reopens the workflow. One command    *)
(* runs at a time; it may be killed between any two files and in the       *)
(* middle of one, which then cannot be read.                               *)
(***************************************************************************)
CONSTANTS
  RunId,
  TaskName,
  Idle,   \* what a cleared pointer holds
  Torn    \* what is left of a file whose write was cut short, or of none

VARIABLES
  view,       \* view[s]: the critical fields source s has
  run,        \* the current run: id, phase, whether it ended
  listed,     \* the current tasks, with the run they were listed for
  events,     \* the run whose events are current
  archived,   \* the pointers, by kind and run, with a copy in an archive
  taskTrees,  \* tasks that have a worktree
  gone,       \* those of them whose directory was deleted
  lost,       \* tasks whose output files do not exist
  command,    \* what the command in progress does next
  doing       \* the run orchestrate is at

sourceVars == <<view, run, listed, events, archived, taskTrees, gone, lost, command, doing>>

Source == {"workflow", "context", "markdown"}
\* blockedWorkflow and readyWorkflow of the adapter share their phase.
View == {"ready", "blocked", "working"}
PhaseOf(v) == IF v = "working" THEN "IMPLEMENTATION" ELSE "INTAKE"

Runs == [id : RunId, phase : {"INTAKE", "IMPLEMENTATION"}, ended : BOOLEAN]
Lists == [id : RunId, tasks : SUBSET TaskName]

ASSUME PointerAssumption ==
  /\ Idle # Torn
  /\ Idle \notin RunId \cup Runs \cup Lists /\ Torn \notin RunId \cup Runs \cup Lists

\* What each step of a command is followed by, when nothing is in its way.
After == [
  archiveRun |-> "archiveTasks", archiveTasks |-> "archiveEvents", archiveEvents |-> "blockWorkflow",
  blockWorkflow |-> "blockContext", blockContext |-> "blockMarkdown", blockMarkdown |-> "idleRun",
  idleRun |-> "idleTasks", idleTasks |-> "idleEvents", idleEvents |-> "clean", clean |-> "check",
  readyWorkflow |-> "readyContext", readyContext |-> "readyMarkdown", readyMarkdown |-> "none",
  startRun |-> "startTasks", startTasks |-> "startEvents", startEvents |-> "execute",
  finishRun |-> "none"]

SourcesTypeOK ==
  /\ view \in [Source -> View \cup {Torn}]
  /\ run \in Runs \cup {Idle, Torn}
  /\ listed \in Lists \cup {Idle, Torn}
  /\ events \in RunId \cup {Idle, Torn}
  /\ archived \subseteq {"run", "tasks", "events"} \X RunId
  /\ taskTrees \subseteq TaskName /\ gone \subseteq taskTrees /\ lost \subseteq TaskName
  /\ command \in DOMAIN After \cup {"none", "check", "execute"}
  /\ doing \in Lists \cup {Idle}

SourcesInit ==
  /\ view \in [Source -> View \cup {Torn}]
  /\ run = Idle /\ listed = Idle /\ events = Idle
  /\ archived = {}
  /\ taskTrees \in SUBSET TaskName /\ gone = {}
  /\ lost = TaskName
  /\ command = "none" /\ doing = Idle

ListedTasks == IF listed \in {Idle, Torn} THEN {} ELSE listed.tasks

Orphans == taskTrees \ ListedTasks

\* A run that has not ended is at a phase other than the workflow's.
UnexpectedRun ==
  /\ run \notin {Idle, Torn}
  /\ ~run.ended
  /\ view["workflow"] # Torn => run.phase # PhaseOf(view["workflow"])

\* inspectStateSources finds a reason.
SplitDetected ==
  \/ \E s \in Source : view[s] = Torn \/ view[s] # view["workflow"]
  \/ UnexpectedRun
  \/ ListedTasks \cap lost # {}
  \/ gone # {}
  \/ Orphans # {}

Goes(from) == command = from /\ command' = After[from]

------------------------------------------------------------------------------
\* Mutant: a workflow that is blocked already counts as archived.
ReconcileResumes ==
  /\ command = "none" /\ SplitDetected
  /\ command' = IF view["workflow"] = "blocked" THEN "idleRun" ELSE "archiveRun"
  /\ UNCHANGED <<view, run, listed, events, archived, taskTrees, gone, lost, doing>>
\* reconcileStateSources with apply.
Reconcile ==
  /\ command = "none" /\ SplitDetected
  /\ command' = "archiveRun"
  /\ UNCHANGED <<view, run, listed, events, archived, taskTrees, gone, lost, doing>>

\* The run a pointer belongs to, if it belongs to one.
RunOf(pointer) == {r \in RunId : pointer = r \/ (pointer \in Runs \cup Lists /\ pointer.id = r)}

Copy(kind, pointer) == archived' = archived \cup ({kind} \X RunOf(pointer))

ArchivePointer ==
  /\ \/ Goes("archiveRun") /\ Copy("run", run)
     \/ Goes("archiveTasks") /\ Copy("tasks", listed)
     \/ Goes("archiveEvents") /\ Copy("events", events)
  /\ UNCHANGED <<view, run, listed, events, taskTrees, gone, lost, doing>>

\* Mutant: the workflow is made ready at once.
WriteReady(s, v) ==
  view' = [view EXCEPT ![s] = IF s = "markdown" /\ @ = Torn THEN Torn ELSE "ready"]
\* writeWorkflowState. Markdown is patched: there is nothing to patch in a file
\* that is missing or was left empty.
WriteView(s, v) ==
  view' = [view EXCEPT ![s] = IF s = "markdown" /\ @ = Torn THEN Torn ELSE v]

WriteSource ==
  /\ \/ Goes("blockWorkflow") /\ WriteView("workflow", "blocked")
     \/ Goes("blockContext") /\ WriteView("context", "blocked")
     \/ Goes("blockMarkdown") /\ WriteView("markdown", "blocked")
     \/ Goes("readyWorkflow") /\ WriteView("workflow", "ready")
     \/ Goes("readyContext") /\ WriteView("context", "ready")
     \/ Goes("readyMarkdown") /\ WriteView("markdown", "ready")
  /\ UNCHANGED <<run, listed, events, archived, taskTrees, gone, lost, doing>>

WriteIdle ==
  /\ \/ Goes("idleRun") /\ run' = Idle /\ UNCHANGED <<listed, events>>
     \/ Goes("idleTasks") /\ listed' = Idle /\ UNCHANGED <<run, events>>
     \/ Goes("idleEvents") /\ events' = Idle /\ UNCHANGED <<run, listed>>
  /\ UNCHANGED <<view, archived, taskTrees, gone, lost, doing>>

\* Orphans are removed if that was asked for and git can; prune forgets those
\* whose directory is gone.
CleanUp ==
  /\ Goes("clean")
  /\ \E removed \in SUBSET Orphans, prune \in BOOLEAN :
       /\ taskTrees' = taskTrees \ (removed \cup IF prune THEN gone ELSE {})
       /\ gone' = IF prune THEN {} ELSE gone \ removed
  /\ UNCHANGED <<view, run, listed, events, archived, lost, doing>>

Check ==
  /\ command = "check"
  /\ command' = IF ~SplitDetected THEN "readyWorkflow" ELSE "none"
  /\ UNCHANGED <<view, run, listed, events, archived, taskTrees, gone, lost, doing>>

------------------------------------------------------------------------------
\* orchestrate: a run of an allowed plan for the workflow the caller read.
Orchestrate(r, tasks) ==
  /\ command = "none" /\ view["workflow"] # Torn
  /\ r \notin RunOf(run) \cup RunOf(listed) \cup RunOf(events)
  /\ \A kind \in {"run", "tasks", "events"} : <<kind, r>> \notin archived
  /\ doing' = [id |-> r, tasks |-> tasks]
  /\ command' = "startRun"
  /\ UNCHANGED <<view, run, listed, events, archived, taskTrees, gone, lost>>

StartRun ==
  /\ \/ /\ Goes("startRun")
        /\ run' = [id |-> doing.id, phase |-> PhaseOf(view["workflow"]), ended |-> FALSE]
        /\ UNCHANGED <<listed, events>>
     \/ Goes("startTasks") /\ listed' = doing /\ UNCHANGED <<run, events>>
     \/ Goes("startEvents") /\ events' = doing.id /\ UNCHANGED <<run, listed>>
  /\ UNCHANGED <<view, archived, taskTrees, gone, lost, doing>>

\* A task is executed, in a worktree of its own, and writes its outputs or fails.
ExecuteTask(t) ==
  /\ command = "execute" /\ t \in doing.tasks
  /\ taskTrees' = taskTrees \cup {t}
  /\ \/ lost' = lost \ {t} /\ UNCHANGED command
     \/ command' = "finishRun" /\ UNCHANGED lost
  /\ UNCHANGED <<view, run, listed, events, archived, gone, doing>>

TasksDone ==
  /\ command = "execute" /\ doing.tasks \cap lost = {}
  /\ command' = "finishRun"
  /\ UNCHANGED <<view, run, listed, events, archived, taskTrees, gone, lost, doing>>

FinishRun ==
  /\ Goes("finishRun")
  /\ run' = [run EXCEPT !.ended = TRUE]
  /\ doing' = Idle
  /\ UNCHANGED <<view, listed, events, archived, taskTrees, gone, lost>>

------------------------------------------------------------------------------
\* The source or pointer whose write is in progress is left unreadable.
Tear ==
  /\ view' = [s \in Source |->
       IF \/ s = "workflow" /\ command \in {"blockWorkflow", "readyWorkflow"}
          \/ s = "context" /\ command \in {"blockContext", "readyContext"}
          \/ s = "markdown" /\ command \in {"blockMarkdown", "readyMarkdown"}
       THEN Torn ELSE view[s]]
  /\ run' = IF command \in {"idleRun", "startRun", "finishRun"} THEN Torn ELSE run
  /\ listed' = IF command \in {"idleTasks", "startTasks", "execute"} THEN Torn ELSE listed
  /\ events' = IF command \in {"idleEvents", "startEvents"} THEN Torn ELSE events

Crash ==
  /\ command # "none"
  /\ command' = "none" /\ doing' = Idle
  /\ Tear \/ UNCHANGED <<view, run, listed, events>>
  /\ UNCHANGED <<archived, taskTrees, gone, lost>>

\* Someone deletes the directory of a worktree.
DeleteDirectory(t) ==
  /\ command = "none" /\ t \in taskTrees
  /\ gone' = gone \cup {t}
  /\ UNCHANGED <<view, run, listed, events, archived, taskTrees, lost, command, doing>>

SourcesNext ==
  \/ Reconcile \/ ArchivePointer \/ WriteSource \/ WriteIdle \/ CleanUp \/ Check
  \/ \E r \in RunId, tasks \in SUBSET TaskName : Orchestrate(r, tasks)
  \/ StartRun \/ TasksDone \/ FinishRun \/ Crash
  \/ \E t \in TaskName : ExecuteTask(t) \/ DeleteDirectory(t)

SourcesSpec == SourcesInit /\ [][SourcesNext]_sourceVars

------------------------------------------------------------------------------
Clears(pointer, next) == pointer \notin {Idle, Torn} /\ next \in {Idle, Torn}

Kept(kind, pointer) == ({kind} \X RunOf(pointer)) \subseteq archived

\* Reconciliation clears no pointer of which it has not kept a copy, wherever it
\* or an earlier attempt was killed (test/state-sources.test.mjs: "reconcile
\* apply preserves pointers"; reconcile.mjs:12-14, 31-57).
PointersPreserved ==
  [][command \notin {"startRun", "startTasks", "startEvents", "execute", "finishRun"} =>
       /\ Clears(run, run') => Kept("run", run)
       /\ Clears(listed, listed') => Kept("tasks", listed)
       /\ Clears(events, events') => Kept("events", events)]_sourceVars

\* A reconciliation that was killed half way is never taken for done: while the
\* pointer to the run is cleared and tasks are still listed, the workflow is
\* blocked or the sources are seen to disagree (reconcile.mjs:13-28).
ReadyIsSettled ==
  run = Idle /\ listed \in Lists => view["workflow"] = "blocked" \/ SplitDetected
==============================================================================
