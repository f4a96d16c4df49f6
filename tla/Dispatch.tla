------------------------------- MODULE Dispatch -------------------------------
(***************************************************************************)
(* The delivery loop of the OS runtime: it asks the scheduler for          *)
(* assignments, passing its active runs and the held locks, and hands them *)
(* to executeAssignments (os-runtime.mjs), which runs them through the     *)
(* task executor. Of the executor this module keeps what the loop depends  *)
(* on: the locks an execution takes and its outcome; leases last as long   *)
(* as the execution (TaskExecutor has the timing).                         *)
(*                                                                         *)
(* The runtime never changes task.attempt, so every execution of a task    *)
(* has the same attempt id, and the task stands for that lock owner.       *)
(***************************************************************************)
EXTENDS Scheduler

CONSTANTS
  Plan,           \* the task declarations of one workflow
  InitialStatus,  \* the statuses they may be added with
  MaxConcurrent,
  Denied,         \* tasks whose execution the policy refuses
  NoTask

Task == DOMAIN Plan

Order == TopologicalOrder(Plan)

ASSUME PlanAssumption ==
  /\ Task \subseteq Nat /\ IsFiniteSet(Task)
  /\ Valid(Plan, {})
  /\ InitialStatus \subseteq TaskStatus
  /\ MaxConcurrent \in Nat \ {0}
  /\ Denied \subseteq Task /\ NoTask \notin Task

VARIABLES
  status,  \* the runtime's task statuses
  exec,    \* exec[t]: where the execution of t is
  holder   \* the task whose attempt holds a resource

vars == <<status, exec, holder>>

ExecStage == {"none", "assigned", "working", "refused"}

\* The executor locks a task's resources, or the task itself when it has none.
Need(t) == IF Plan[t].resourceLocks = {} THEN {<<"task", t>>} ELSE Plan[t].resourceLocks

Resource == UNION {Need(t) : t \in Task}

TypeOK ==
  /\ status \in [Task -> TaskStatus]
  /\ exec \in [Task -> ExecStage]
  /\ holder \in [Resource -> Task \union {NoTask}]

Init ==
  /\ status \in [Task -> InitialStatus]
  /\ exec = [t \in Task |-> "none"]
  /\ holder = [r \in Resource |-> NoTask]

InFlight == {t \in Task : exec[t] \in {"working", "refused"}}

Working == {t \in Task : exec[t] = "working"}

\* The resources held now, with their owner ids: attempt ids, never task ids.
HeldLocks == [r \in {s \in Resource : holder[s] # NoTask} |-> <<"attempt", holder[r]>>]

\* The loop hands over what it was given before it asks again, and does not
\* wait for the executions it started.
Schedule ==
  LET assigned == Assignments(Plan, Order, status, InFlight, HeldLocks, Task, MaxConcurrent)
  IN  /\ \A t \in Task : exec[t] # "assigned"
      /\ assigned # {}
      /\ exec' = [t \in Task |-> IF t \in assigned THEN "assigned" ELSE exec[t]]
      /\ UNCHANGED <<status, holder>>

\* Mutant: a request is granted when one of its resources is free.
TakeTooMuch(acquired, t) ==
  IF \E r \in Need(t) : acquired.holder[r] \in {NoTask, t}
  THEN [holder  |-> [r \in Resource |-> IF r \in Need(t) THEN t ELSE acquired.holder[r]],
        granted |-> acquired.granted \union {t}]
  ELSE acquired

\* t's execution asks for its locks: all of them or none.
Take(acquired, t) ==
  IF \A r \in Need(t) : acquired.holder[r] \in {NoTask, t}
  THEN [holder  |-> [r \in Resource |-> IF r \in Need(t) THEN t ELSE acquired.holder[r]],
        granted |-> acquired.granted \union {t}]
  ELSE acquired

\* The locks once the tasks of `asking` have asked, one after the other, and
\* the tasks that got theirs.
Acquired(asking) ==
  LET upTo[n \in 0..Len(Order)] ==
        IF n = 0 THEN [holder |-> holder, granted |-> {}]
        ELSE IF Order[n] \in asking THEN Take(upTo[n - 1], Order[n])
        ELSE upTo[n - 1]
  IN  upTo[Len(Order)]

\* executeAssignments up to the first await of each execution: one after the
\* other, in the order of the pass, tasks go RUNNING and ask for their locks.
\* For a denied task the policy makes execute throw: the call rejects, the task
\* is left RUNNING, and the other executions of the batch go on.
Execute ==
  LET assigned == {t \in Task : exec[t] = "assigned"}
      acquired == Acquired(assigned \ Denied)
  IN  /\ assigned # {}
      /\ status' = [t \in Task |-> IF t \in assigned THEN "RUNNING" ELSE status[t]]
      /\ holder' = acquired.holder
      /\ exec' = [t \in Task |->
                    IF t \notin assigned THEN exec[t]
                    ELSE IF t \in Denied THEN "none"
                    ELSE IF t \in acquired.granted THEN "working" ELSE "refused"]

\* The executor answers lock_conflict: the runtime records a failure.
RecordRefusal(t) ==
  /\ exec[t] = "refused"
  /\ status' = [status EXCEPT ![t] = "FAILED"]
  /\ exec' = [exec EXCEPT ![t] = "none"]
  /\ UNCHANGED holder

\* The execution ends; the executor releases every lock of its attempt.
Finish(t, outcome) ==
  /\ exec[t] = "working"
  /\ status' = [status EXCEPT ![t] = outcome]
  /\ exec' = [exec EXCEPT ![t] = "none"]
  /\ holder' = [r \in Resource |-> IF holder[r] = t THEN NoTask ELSE holder[r]]

Next ==
  \/ Schedule
  \/ Execute
  \/ \E t \in Task :
       \/ RecordRefusal(t)
       \/ \E outcome \in {"APPROVED", "FAILED"} : Finish(t, outcome)

Spec == Init /\ [][Next]_vars

\* The caller keeps asking and executing, and a refusal is recorded. Nothing makes
\* an execution end: a runner without a timeout may work for ever.
FairSpec ==
  /\ Spec
  /\ WF_vars(Schedule) /\ WF_vars(Execute)
  /\ \A t \in Task : WF_vars(RecordRefusal(t))

------------------------------------------------------------------------------

\* An agent works on a task only while everything the task depends on is
\* approved, from its first step to its last.
WorkOnApproved ==
  \A t \in Working : \A d \in Plan[t].dependsOn : status[d] = "APPROVED"

\* No resource is used by the agents of two tasks at once.
LocksApart == \A s, t \in Working : s # t => Need(s) \intersect Need(t) = {}

\* An approved task is done: nothing runs it again or changes its status.
ApprovedStays == [][\A t \in Task : status[t] = "APPROVED" => status'[t] = "APPROVED"]_status

Before(t) == {Order[i] : i \in {k \in DOMAIN Order : \E j \in k + 1..Len(Order) : Order[j] = t}}

\* Executions that do not end and denied tasks that are handed out before t in
\* every pass take all the room there is.
CrowdedOut(t) ==
  LET denied == Denied \intersect Eligible(Plan, status, InFlight, HeldLocks, Task)
  IN  Cardinality(InFlight) + Cardinality(denied \intersect Before(t)) >= MaxConcurrent

\* What keeps a task waiting for as long as it lasts, and all that depends on it.
HeldUp(t) ==
  \/ t \in Denied
  \/ status[t] \in TerminalStatus \ {"APPROVED"}
  \/ exec[t] = "working"
  \/ ConflictsWithActive(Plan, InFlight, t)
  \/ ~LocksAvailable(Plan, HeldLocks, t)
  \/ CrowdedOut(t)

\* Every task is approved in the end, or it, or one it depends on, is denied, has
\* failed, or is held up for ever: by an execution that does not end and has its
\* room, its locks or a conflict with it, or by denied tasks. A denied task stays
\* RUNNING and is handed out again in every pass, so with the scheduler's default
\* of one assignment at a time a single one starves every task after it; apart
\* from that no task is stranded behind one that has nothing to do with it.
AllSettle ==
  \A t \in Task :
    <>[](status[t] = "APPROVED" \/ \E d \in Ancestors(Plan)[t] \union {t} : HeldUp(d))

\* Tasks that declare a conflict are never worked on at the same time.
ConflictsApart ==
  \A s, t \in Working : t \notin Plan[s].conflictsWith
==============================================================================
