------------------------------ MODULE Scheduler ------------------------------
(***************************************************************************)
(* scheduleTasks (scheduler.mjs): which tasks of a valid plan one pass     *)
(* hands out. `active` is what the caller says is running, `heldBy` what   *)
(* it says is locked (a function from some resources to owner ids), and    *)
(* `admissible` the tasks its context, budget and permission callbacks     *)
(* accept; `order` is the topological order the validator returned. The    *)
(* execution key of a run is that of its task, so the key guard never      *)
(* decides on its own and is left out.                                     *)
(***************************************************************************)
EXTENDS Dag

TaskStatus == {"DRAFT", "BLOCKED", "READY", "RUNNING", "WAITING_REVIEW", "WAITING_RECHECK",
               "APPROVED", "FAILED", "CANCELLED", "SUPERSEDED"}

\* Mutant: APPROVED is not terminal.
TerminalButForApproved == {"FAILED", "CANCELLED", "SUPERSEDED"}

TerminalStatus == {"APPROVED", "FAILED", "CANCELLED", "SUPERSEDED"}

\* Mutant: a dependency that has not failed is good enough.
DependenciesNotFailed(plan, status, t) ==
  \A d \in plan[t].dependsOn : status[d] \notin {"FAILED", "CANCELLED"}

DependenciesApproved(plan, status, t) ==
  \A d \in plan[t].dependsOn : d \in DOMAIN plan /\ status[d] = "APPROVED"

ConflictsWithActive(plan, active, t) ==
  \E a \in active : a \in plan[t].conflictsWith \/ (a \in DOMAIN plan /\ t \in plan[a].conflictsWith)

\* A lock is the task's own only if its owner id is the task id.
LocksAvailable(plan, heldBy, t) ==
  \A r \in plan[t].resourceLocks \intersect DOMAIN heldBy : heldBy[r] = <<"task", t>>

\* Every guard but capacity.
Eligible(plan, status, active, heldBy, admissible) ==
  {t \in DOMAIN plan :
     /\ status[t] \notin TerminalStatus
     /\ t \notin active
     /\ DependenciesApproved(plan, status, t)
     /\ ~ConflictsWithActive(plan, active, t)
     /\ LocksAvailable(plan, heldBy, t)
     /\ t \in admissible}

\* Room for another assignment after the earlier eligible tasks of the order.
HasRoom(i, order, eligible, active, maxConcurrent) ==
  Cardinality(active) + Cardinality({j \in 1..(i - 1) : order[j] \in eligible}) < maxConcurrent

\* Mutant: the first task that cannot run ends the pass.
AssignmentsUpToFirstBlocked(plan, order, status, active, heldBy, admissible, maxConcurrent) ==
  LET eligible   == Eligible(plan, status, active, heldBy, admissible)
      Blocked(i) == status[order[i]] # "APPROVED" /\ order[i] \notin eligible
  IN  {order[i] : i \in {k \in DOMAIN order :
                           /\ order[k] \in eligible
                           /\ \A j \in 1..k : ~Blocked(j)
                           /\ HasRoom(k, order, eligible, active, maxConcurrent)}}

\* One pass: the first eligible tasks in topological order, as many as there is
\* room for. Tasks of the same pass are not compared with one another.
Assignments(plan, order, status, active, heldBy, admissible, maxConcurrent) ==
  LET eligible == Eligible(plan, status, active, heldBy, admissible)
  IN  {order[i] : i \in {k \in DOMAIN order :
                           /\ order[k] \in eligible
                           /\ HasRoom(k, order, eligible, active, maxConcurrent)}}
==============================================================================
