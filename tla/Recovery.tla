------------------------------- MODULE Recovery -------------------------------
(***************************************************************************)
(* rebuildStateFromEvents (recovery.mjs): the state of a workflow and its  *)
(* tasks, computed from the workflow's first state and its events. An      *)
(* event is a record with an id <<workflow, number>>, an idempotency key,  *)
(* a type, the time `at`, the task it is about, what it changes `from` and *)
(* `to` (<<phase, status>> of a workflow, <<status>> of a task), and the   *)
(* `version` it leaves behind.                                             *)
(***************************************************************************)
EXTENDS Naturals, Sequences, FiniteSets

\* The place of "n" among decimal numerals compared as text, for n < 100.
TextRank(n) == IF n < 10 THEN 20 * n ELSE 2 * n + 1

\* compareEvents: by time, then by the text of the event id. The events of
\* one workflow share all of it but the number.
Precedes(e, f) ==
  \/ e.at < f.at
  \/ e.at = f.at /\ TextRank(e.id[2]) < TextRank(f.id[2])

\* set of a Map.
MapSet(map, key, value) ==
  [k \in DOMAIN map \union {key} |-> IF k = key THEN value ELSE map[k]]

Broken(state) == [state EXCEPT !.broken = TRUE]

ApplyTransition(state, e) ==
  IF <<state.phase, state.status>> # e.from THEN Broken(state)
  ELSE [state EXCEPT !.phase = e.to[1], !.status = e.to[2], !.version = e.version]

ApplyTaskCreated(state, e) ==
  IF e.task \in DOMAIN state.tasks THEN Broken(state)
  ELSE [state EXCEPT !.tasks = MapSet(@, e.task, [status |-> e.to[1], version |-> e.version])]

\* Mutant: the version of the event is not applied.
ApplyTaskStatusOnly(state, e) ==
  IF e.task \notin DOMAIN state.tasks \/ <<state.tasks[e.task].status>> # e.from THEN Broken(state)
  ELSE [state EXCEPT !.tasks[e.task].status = e.to[1]]

ApplyTaskStatus(state, e) ==
  IF e.task \notin DOMAIN state.tasks \/ <<state.tasks[e.task].status>> # e.from THEN Broken(state)
  ELSE [state EXCEPT !.tasks[e.task] = [status |-> e.to[1], version |-> e.version]]

\* An error ends the rebuild: a broken state stays as it is. A key seen before
\* is skipped.
Apply(state, e) ==
  IF state.broken \/ e.key \in state.seen THEN state
  ELSE LET next == CASE e.type = "workflow.transitioned" -> ApplyTransition(state, e)
                     [] e.type = "task.created"          -> ApplyTaskCreated(state, e)
                     [] e.type = "task.status_changed"   -> ApplyTaskStatus(state, e)
                     [] OTHER                            -> state
       IN  [next EXCEPT !.seen = @ \union {e.key}]

\* Where the sort, which is stable, puts event i: after what it comes after, and
\* after its equals that were before it.
Rank(events, i) ==
  Cardinality({j \in DOMAIN events :
    Precedes(events[j], events[i]) \/ (j <= i /\ ~Precedes(events[i], events[j]))})

Ordered(events) ==
  [p \in DOMAIN events |-> events[CHOOSE i \in DOMAIN events : Rank(events, i) = p]]

Replayed(start, events) ==
  LET after[n \in 0..Len(events)] ==
        IF n = 0 THEN start ELSE Apply(after[n - 1], events[n])
  IN  after[Len(events)]

\* `base` has the phase, status and version the workflow was created with.
Start(base) ==
  [phase |-> base.phase, status |-> base.status, version |-> base.version,
   tasks |-> <<>>, seen |-> {}, broken |-> FALSE]

Rebuilt(base, events) == Replayed(Start(base), Ordered(events))
===============================================================================
