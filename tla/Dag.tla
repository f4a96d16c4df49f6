--------------------------------- MODULE Dag ---------------------------------
(***************************************************************************)
(* validateTaskDag and its helpers (dag.mjs) over a plan: a function from  *)
(* the ids of the declared tasks to their declarations. Task ids are       *)
(* numbers, in the order .sort() gives the id strings. A path is the       *)
(* sequence of its segments, "**" being a segment like any other.          *)
(***************************************************************************)
EXTENDS Naturals, SequencesExt

\* A task declaration, as far as the validator reads it.
Declaration(Id, Artifact, Resource, Path) ==
  [dependsOn : SUBSET Id, conflictsWith : SUBSET Id,
   produces : SUBSET Artifact, consumes : SUBSET Artifact,
   resourceLocks : SUBSET Resource, editablePaths : SUBSET Path]

\* The tasks whose dependencies are all placed; unknown ids and the task
\* itself do not count.
Unblocked(plan, placed) ==
  {t \in DOMAIN plan \ placed : (plan[t].dependsOn \intersect DOMAIN plan) \ {t} \subseteq placed}

\* Mutant: one placed dependency is enough.
TopologicalOrderTooEager(plan) ==
  LET size == Cardinality(DOMAIN plan)
      Ready(placed) == {t \in DOMAIN plan \ placed :
                          plan[t].dependsOn = {} \/ plan[t].dependsOn \intersect placed # {}}
      order[n \in 0..size] ==
        IF n = 0 THEN <<>>
        ELSE LET sofar == order[n - 1]
                 next  == Ready(ToSet(sofar))
             IN  IF next = {} THEN sofar ELSE Append(sofar, Min(next))
  IN  order[size]

\* topologicalSort: the least unblocked task goes next, until none is left.
TopologicalOrder(plan) ==
  LET size == Cardinality(DOMAIN plan)
      order[n \in 0..size] ==
        IF n = 0 THEN <<>>
        ELSE LET sofar == order[n - 1]
                 next  == Unblocked(plan, ToSet(sofar))
             IN  IF next = {} THEN sofar ELSE Append(sofar, Min(next))
  IN  order[size]

Cyclic(plan) == DOMAIN plan \ ToSet(TopologicalOrder(plan))

\* buildAncestors: dependencies, their dependencies, and so on.
Ancestors(plan) ==
  LET direct == [t \in DOMAIN plan |-> plan[t].dependsOn \intersect DOMAIN plan]
      above[n \in 0..Cardinality(DOMAIN plan)] ==
        IF n = 0 THEN direct
        ELSE LET known == above[n - 1]
             IN  [t \in DOMAIN plan |-> known[t] \union UNION {known[d] : d \in known[t]}]
  IN  above[Cardinality(DOMAIN plan)]

\* buildLevels, as the level of each task of an acyclic plan.
LevelOf(plan) ==
  LET level[t \in DOMAIN plan] ==
        IF plan[t].dependsOn = {} THEN 0 ELSE 1 + Max({level[d] : d \in plan[t].dependsOn})
  IN  level

\* pathOverlaps, on one pair of paths: one is the other or a directory above it.
PathsOverlap(p, q) == IsPrefix(p, q) \/ IsPrefix(q, p)

Overlapping(left, right) ==
  \E p \in left.editablePaths, q \in right.editablePaths : PathsOverlap(p, q)

\* declaredConflict, sharesLock, ordered: what allows two tasks to write to the
\* same place.
KeptApart(plan, s, t) ==
  \/ s \in Ancestors(plan)[t] \/ t \in Ancestors(plan)[s]
  \/ s \in plan[t].conflictsWith \/ t \in plan[s].conflictsWith
  \/ plan[s].resourceLocks \intersect plan[t].resourceLocks # {}

IdsKnown(plan) ==
  \A t \in DOMAIN plan :
    /\ plan[t].dependsOn \subseteq DOMAIN plan \ {t}
    /\ plan[t].conflictsWith \subseteq DOMAIN plan \ {t}

OneProducerEach(plan) ==
  \A s, t \in DOMAIN plan : s # t => plan[s].produces \intersect plan[t].produces = {}

\* Mutant: it is enough that some task produces the artifact.
InputsProduced(plan, external) ==
  \A t \in DOMAIN plan : \A a \in plan[t].consumes \ external :
    \E p \in DOMAIN plan : a \in plan[p].produces

InputsReachable(plan, external) ==
  \A t \in DOMAIN plan : \A a \in plan[t].consumes \ external :
    \E p \in Ancestors(plan)[t] : a \in plan[p].produces

WritesDeclared(plan) ==
  \A s, t \in DOMAIN plan :
    s # t => KeptApart(plan, s, t) \/ ~Overlapping(plan[s], plan[t])

\* Mutant: the pairs of tasks are never compared.
ValidButForWrites(plan, external) ==
  /\ IdsKnown(plan)
  /\ Cyclic(plan) = {}
  /\ OneProducerEach(plan)
  /\ InputsReachable(plan, external)

\* validateTaskDag finds no error.
Valid(plan, external) ==
  /\ IdsKnown(plan)
  /\ Cyclic(plan) = {}
  /\ OneProducerEach(plan)
  /\ InputsReachable(plan, external)
  /\ WritesDeclared(plan)
==============================================================================
