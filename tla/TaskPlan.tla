------------------------------- MODULE TaskPlan -------------------------------
(***************************************************************************)
(* The task plan of one workflow as addTasks (os-runtime.mjs) grows it:    *)
(* each accepted call adds a batch of declarations, and the validator sees *)
(* the old tasks and the new ones together. The properties compare what    *)
(* the validator accepts with what running a plan means.                   *)
(***************************************************************************)
EXTENDS Dag

CONSTANTS
  Id,            \* task ids
  Declarations,  \* declarations callers submit
  External,      \* externalArtifactIds of every call
  Path,          \* files an agent may touch, as sequences of segments
  Contract       \* editablePaths of the contract of the agent that owns a task

ASSUME IdAssumption == Id \subseteq Nat \ {0} /\ IsFiniteSet(Id)

ASSUME PathAssumption ==
  /\ \A d \in Declarations : d.editablePaths \subseteq Seq(STRING)
  /\ Path \subseteq Seq(STRING)
  /\ Contract \in [Id -> SUBSET Seq(STRING)]

VARIABLE accepted

planVars == <<accepted>>

PlanInit == accepted = <<>>

\* The tasks known and those of the batch, as the validator sees them.
Combined(batch) ==
  [t \in DOMAIN accepted \union DOMAIN batch |->
     IF t \in DOMAIN batch THEN batch[t] ELSE accepted[t]]

\* A batch with a known id is refused, as is one that makes the plan invalid.
Acceptable(ids) ==
  {batch \in [ids -> Declarations] : Valid(Combined(batch), External)}

AddTasks(ids) ==
  /\ ids # {} /\ ids \intersect DOMAIN accepted = {}
  /\ \E batch \in Acceptable(ids) : accepted' = Combined(batch)

PlanNext == \E ids \in SUBSET Id : AddTasks(ids)

PlanSpec == PlanInit /\ [][PlanNext]_planVars

------------------------------------------------------------------------------

\* The rounds in which a plan can be run: a task runs in a later round than
\* what it depends on; tasks of one round run side by side.
Schedules ==
  {round \in [DOMAIN accepted -> 1..Cardinality(DOMAIN accepted)] :
     \A t \in DOMAIN accepted : \A d \in accepted[t].dependsOn : round[d] < round[t]}

IsGlob(boundary) == Len(boundary) > 1 /\ boundary[Len(boundary)] = "**"

\* What lies under a boundary: the directory of a glob, or the path itself.
Root(boundary) ==
  IF IsGlob(boundary) THEN SubSeq(boundary, 1, Len(boundary) - 1) ELSE boundary

\* pathMatches of the policy engine: what an editable path lets an agent touch.
Matches(boundary, file) == IsPrefix(Root(boundary), file)

Opened(boundaries) == {f \in Path : \E p \in boundaries : Matches(p, f)}

\* The policy engine adds the paths of the agent's contract to those of the task.
\* (Both may forbid paths, which only takes from this set; none are forbidden here.)
Writable(t) == Opened(Contract[t] \union accepted[t].editablePaths)

\* An accepted plan can be run to its end: its topological order names every
\* task once and none before a task it depends on, and the level of a task is
\* the earliest round any schedule runs it in, so no level waits for nothing.
OrderIsRunnable ==
  LET order == TopologicalOrder(accepted)
  IN  /\ Schedules # {}
      /\ ToSet(order) = DOMAIN accepted /\ Len(order) = Cardinality(DOMAIN accepted)
      /\ \A i \in DOMAIN order : accepted[order[i]].dependsOn \subseteq {order[j] : j \in 1..(i - 1)}
      /\ \A t \in DOMAIN accepted : 1 + LevelOf(accepted)[t] = Min({round[t] : round \in Schedules})

\* In whatever order an accepted plan is run, what a task consumes has been
\* produced, by exactly one task, when its turn comes.
InputsComeFirst ==
  \A t \in DOMAIN accepted : \A a \in accepted[t].consumes \ External :
    LET producers == {p \in DOMAIN accepted : a \in accepted[p].produces}
    IN  /\ Cardinality(producers) = 1
        /\ \A round \in Schedules : \A p \in producers : round[p] < round[t]

\* Tasks that nothing keeps from running side by side: no dependency, no declared
\* conflict, no shared lock.
SideBySide(s, t) ==
  /\ s # t
  /\ s \notin accepted[t].conflictsWith /\ t \notin accepted[s].conflictsWith
  /\ accepted[s].resourceLocks \intersect accepted[t].resourceLocks = {}
  /\ \E round \in Schedules : round[s] = round[t]

\* Path q lies below the directory of glob p, and the two texts do not show it.
HiddenBelow(p, q) == IsGlob(p) /\ IsStrictPrefix(Root(p), q) /\ ~PathsOverlap(p, q)

\* A file that two tasks running side by side may both write is one that a
\* contract of their agents opens, or one below a glob of the one task and a path
\* of the other under the directory of that glob: these two ways are all that
\* escapes the validator, which compares the declared paths as text and reads no
\* contract; docs/roadmap.md:111 makes no such exception.
SharedWritesExplained ==
  \A s, t \in DOMAIN accepted : SideBySide(s, t) =>
    \A f \in Writable(s) \intersect Writable(t) :
      \/ f \in Opened(Contract[s]) \union Opened(Contract[t])
      \/ \E p \in accepted[s].editablePaths, q \in accepted[t].editablePaths :
           /\ Matches(p, f) /\ Matches(q, f)
           /\ HiddenBelow(p, q) \/ HiddenBelow(q, p)
==============================================================================
