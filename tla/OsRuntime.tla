------------------------------- MODULE OsRuntime -------------------------------
(***************************************************************************)
(* The records of the OS runtime (os-runtime.mjs): workflows, their tasks, *)
(* gates, and the event every operation appends. Executions are open-ended *)
(* here (Dispatch and TaskExecutor say what happens in them): one starts,  *)
(* and later it finishes or throws. The services behind integrate and      *)
(* release, and what they return, are left out: the events stay.           *)
(***************************************************************************)
EXTENDS WorkflowRules, EventStore, Recovery, SequencesExt

CONSTANTS
  Workflow, Task, Gate,
  Opening,        \* <<phase, status>> pairs workflows are created with
  Target,         \* <<phase, status>> pairs callers ask for
  Reports,        \* the other events callers cause
  NoTask,
  MaxEvents,      \* bound: no operation is asked for once this many are stored
  MaxVersion,     \* bound: on the transitions of a workflow
  MaxExecutions,  \* bound: executions of a task in flight
  MaxClock        \* bound: times events happen at

ASSUME RuntimeAssumption ==
  /\ Opening \subseteq Phase \X Status
  /\ Target \subseteq Phase \X Status
  /\ Reports \subseteq {"integration.completed", "acceptance.recorded", "release.completed"}
  /\ NoTask \notin Task
  /\ MaxEvents \in 0..99 /\ MaxVersion \in 0..99  \* Recovery!TextRank
  /\ MaxExecutions \in Nat /\ MaxClock \in Nat

VARIABLES
  workflows,  \* created workflows: phase, status, version
  tasks,      \* tasks of the created workflows: status, version
  gates,      \* decided gates: workflow, phase, conclusion
  log,        \* the event store
  inFlight,   \* inFlight[w][t]: executions of t that have not ended
  clock

vars == <<workflows, tasks, gates, log, inFlight, clock>>

TaskStatus == {"READY", "RUNNING", "APPROVED", "FAILED"}

Conclusion == {"APPROVED", "CHANGES_REQUESTED", "BLOCKED"}

RuntimeEvent == {"workflow.created", "task.created", "task.status_changed", "gate.decided",
                 "integration.completed", "acceptance.recorded", "release.completed"}

StoredEvent ==
  [id : Workflow \X Nat, key : Workflow \X (RuntimeEvent \union {"transition"}) \X Nat,
   type : RuntimeEvent \union {"workflow.transitioned"}, at : Nat, task : Task \union {NoTask},
   from : Seq(Phase \union Status \union TaskStatus), to : Seq(Phase \union Status \union TaskStatus),
   version : Nat]

TypeOK ==
  /\ DOMAIN workflows \subseteq Workflow /\ DOMAIN tasks = DOMAIN workflows
  /\ workflows \in [DOMAIN workflows -> [phase : Phase, status : Status, version : Nat]]
  /\ \A w \in DOMAIN tasks :
       /\ DOMAIN tasks[w] \subseteq Task
       /\ tasks[w] \in [DOMAIN tasks[w] -> [status : TaskStatus, version : Nat]]
  /\ DOMAIN gates \subseteq Gate
  /\ gates \in [DOMAIN gates -> [workflow : DOMAIN workflows, phase : Phase, conclusion : Conclusion]]
  /\ log \in Seq(StoredEvent)
  /\ inFlight \in [Workflow -> [Task -> Nat]]
  /\ clock \in Nat

\* appendEvent: the number of an event is its place in the whole store.
Event(stored, w, type, about) ==
  [id |-> <<w, Len(stored) + 1>>, key |-> <<w, type, Len(stored) + 1>>, type |-> type, at |-> clock,
   task |-> about.task, from |-> about.from, to |-> about.to, version |-> about.version]

Record(stored, w, type, about) == Appended(stored, Event(stored, w, type, about))

Change(t, from, to, version) == [task |-> t, from |-> from, to |-> to, version |-> version]

Nothing == Change(NoTask, <<>>, <<>>, 0)

\* transitionWorkflow numbers its event with the new version of the workflow.
TransitionEvent(w, to) ==
  LET version == workflows[w].version + 1
  IN  [id |-> <<w, version>>, key |-> <<w, "transition", version>>,
       type |-> "workflow.transitioned", at |-> clock, task |-> NoTask,
       from |-> <<workflows[w].phase, workflows[w].status>>, to |-> to, version |-> version]

Init ==
  /\ workflows = <<>> /\ tasks = <<>> /\ gates = <<>> /\ log = <<>>
  /\ inFlight = [w \in Workflow |-> [t \in Task |-> 0]]
  /\ clock = 0

\* Bound on the log, not a guard of the code.
HasRoom(n) == Len(log) + n <= MaxEvents

CreateWorkflow(w, at) ==
  /\ w \notin DOMAIN workflows
  /\ HasRoom(1)
  /\ workflows' = MapSet(workflows, w, [phase |-> at[1], status |-> at[2], version |-> 0])
  /\ tasks' = MapSet(tasks, w, <<>>)
  /\ log' = Record(log, w, "workflow.created", Change(NoTask, <<>>, at, 0))
  /\ UNCHANGED <<gates, inFlight, clock>>

\* addTasks adds the tasks of a batch the validator accepted (TaskPlan) one by
\* one, in this way, and nothing else happens between them.
AddTask(w, t) ==
  /\ w \in DOMAIN workflows /\ t \notin DOMAIN tasks[w]
  /\ HasRoom(1)
  /\ tasks' = [tasks EXCEPT ![w] = MapSet(@, t, [status |-> "READY", version |-> 0])]
  /\ log' = Record(log, w, "task.created", Change(t, <<>>, <<"READY">>, 0))
  /\ UNCHANGED <<workflows, gates, inFlight, clock>>

\* The workflow changes before the event is appended; append may throw.
Transition(w, to) ==
  /\ w \in DOMAIN workflows
  /\ HasRoom(1) /\ workflows[w].version < MaxVersion
  /\ TransitionAllowed(workflows[w].phase, workflows[w].status, to[1], to[2])
  /\ workflows' = [workflows EXCEPT ![w] = [phase |-> to[1], status |-> to[2], version |-> @.version + 1]]
  /\ log' = Appended(log, TransitionEvent(w, to))
  /\ UNCHANGED <<tasks, gates, inFlight, clock>>

\* Mutant: the event of a status change is left out.
SetStatusSilently(w, t, status) ==
  tasks' = [tasks EXCEPT ![w][t] = [status |-> status, version |-> @.version + 1]] /\ UNCHANGED log

\* updateTask
SetStatus(w, t, status) ==
  /\ tasks' = [tasks EXCEPT ![w][t] = [status |-> status, version |-> @.version + 1]]
  /\ log' = Record(log, w, "task.status_changed",
                   Change(t, <<tasks[w][t].status>>, <<status>>, tasks[w][t].version + 1))

\* executeAssignments takes any task of the workflow, whatever its status.
StartExecution(w, t) ==
  /\ w \in DOMAIN workflows /\ t \in DOMAIN tasks[w]
  /\ HasRoom(1) /\ inFlight[w][t] < MaxExecutions
  /\ SetStatus(w, t, "RUNNING")
  /\ inFlight' = [inFlight EXCEPT ![w][t] = @ + 1]
  /\ UNCHANGED <<workflows, gates, clock>>

FinishExecution(w, t, status) ==
  /\ inFlight[w][t] > 0
  /\ HasRoom(1)
  /\ SetStatus(w, t, status)
  /\ inFlight' = [inFlight EXCEPT ![w][t] = @ - 1]
  /\ UNCHANGED <<workflows, gates, clock>>

\* execute throws: nothing is recorded.
RejectExecution(w, t) ==
  /\ inFlight[w][t] > 0
  /\ inFlight' = [inFlight EXCEPT ![w][t] = @ - 1]
  /\ UNCHANGED <<workflows, tasks, gates, log, clock>>

\* A gate is decided for the phase the workflow is in; its id may be reused.
EvaluateGate(w, g, conclusion) ==
  /\ w \in DOMAIN workflows
  /\ HasRoom(1)
  /\ gates' = MapSet(gates, g, [workflow |-> w, phase |-> workflows[w].phase, conclusion |-> conclusion])
  /\ log' = Record(log, w, "gate.decided", Nothing)
  /\ UNCHANGED <<workflows, tasks, inFlight, clock>>

\* Whatever phase the gate was decided in.
ApplyApprovedGate(w, g, to) ==
  /\ g \in DOMAIN gates
  /\ gates[g].workflow = w /\ gates[g].conclusion = "APPROVED"
  /\ Transition(w, to)

\* integrate, recordAcceptance and release; a release names an acceptance the
\* runtime has, of whatever workflow.
Report(w, type) ==
  /\ w \in DOMAIN workflows
  /\ HasRoom(1)
  /\ type = "release.completed" => \E i \in DOMAIN log : log[i].type = "acceptance.recorded"
  /\ log' = Record(log, w, type, Nothing)
  /\ UNCHANGED <<workflows, tasks, gates, inFlight, clock>>

Tick ==
  /\ clock < MaxClock
  /\ clock' = clock + 1
  /\ UNCHANGED <<workflows, tasks, gates, log, inFlight>>

Next ==
  \/ \E w \in Workflow :
       \/ \E at \in Opening : CreateWorkflow(w, at)
       \/ \E to \in Target : Transition(w, to)
       \/ \E t \in Task :
            \/ AddTask(w, t)
            \/ StartExecution(w, t)
            \/ \E status \in {"APPROVED", "FAILED"} : FinishExecution(w, t, status)
            \/ RejectExecution(w, t)
       \/ \E g \in Gate :
            \/ \E conclusion \in Conclusion : EvaluateGate(w, g, conclusion)
            \/ \E to \in Target : ApplyApprovedGate(w, g, to)
       \/ \E type \in Reports : Report(w, type)
  \/ Tick

Spec == Init /\ [][Next]_vars

--------------------------------------------------------------------------------

\* Every change of a task's record is in the store: what a step changes, it
\* appends an event for, with the status and version the task is left with.
TaskStepIsJournaled ==
  \A w \in DOMAIN tasks : \A t \in DOMAIN tasks[w] :
    tasks'[w][t] # tasks[w][t] =>
      /\ Len(log') = Len(log) + 1
      /\ LET e == log'[Len(log')]
         IN  /\ e.type = "task.status_changed" /\ e.id[1] = w /\ e.task = t
             /\ e.to = <<tasks'[w][t].status>> /\ e.version = tasks'[w][t].version
TaskChangesAreJournaled == [][TaskStepIsJournaled]_vars

\* Events are identified: no two share an id or an idempotency key.
EventsAreDistinct ==
  \A i, j \in DOMAIN log : i # j => log[i].id # log[j].id /\ log[i].key # log[j].key

\* The next event of the runtime is never taken for one it has stored, though
\* transitions number their events by another counter.
NextEventIsFresh ==
  \A w \in Workflow, type \in RuntimeEvent :
    <<w, Len(log) + 1>> \notin Ids(log) /\ <<w, type, Len(log) + 1>> \notin Keys(log)

\* What eventStore.query finds of a workflow.
EventsOf(w) == FlattenSeq([i \in DOMAIN log |-> IF log[i].id[1] = w THEN <<log[i]>> ELSE <<>>])

\* The workflow as the first of its events, that of its creation, has it.
Born(w) ==
  LET created == EventsOf(w)[1]
  IN  [phase |-> created.to[1], status |-> created.to[2], version |-> created.version]

\* Recovery, from the creation and all the events of a workflow, ends without
\* an error in the phase, status and version it has, with the tasks it has.
RecoveryFinds(w) ==
  LET state == Rebuilt(Born(w), EventsOf(w))
  IN  /\ ~state.broken
      /\ [phase |-> state.phase, status |-> state.status, version |-> state.version] = workflows[w]
      /\ state.tasks = tasks[w]

\* The events of every transition of the workflow are in the store.
Audited(w) == \A v \in 1..workflows[w].version : <<w, "transition", v>> \in Keys(log)

\* Of two events of one time, the later has the later id as a text.
InTextOrder(w) ==
  LET events == EventsOf(w)
  IN  \A p, q \in DOMAIN events :
        p < q /\ events[p].at = events[q].at
          => TextRank(events[p].id[2]) < TextRank(events[q].id[2])

\* Not true of the code: every transition of a workflow has an event.
TransitionsAudited == \A w \in DOMAIN workflows : Audited(w)

\* Recovery is exact for a workflow none of whose transitions is missing from
\* the store, if no two of its events of one time have ids that compare as texts
\* against the order they happened in; whatever else was done, to this workflow
\* or to others (os-runtime.mjs:45-142, 184-221; recovery.mjs:3-43, 96-137). Without
\* the two conditions it is not: the rebuild then throws or ends in another state.
RecoveryIsExact ==
  \A w \in DOMAIN workflows : Audited(w) /\ InTextOrder(w) => RecoveryFinds(w)
================================================================================
