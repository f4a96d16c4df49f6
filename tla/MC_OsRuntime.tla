----------------------------- MODULE MC_OsRuntime -----------------------------
(* Workflows and transitions for OsRuntime.                                 *)
EXTENDS OsRuntime

\* Workflows are alike, and so are tasks.
Alike == Permutations(Workflow) \union Permutations(Task)

Designing == {<<"TECHNICAL_DESIGN", "RUNNING">>}

\* Back and forth between design and planning, and through a pause.
DesignLoop ==
  {<<"TECHNICAL_DESIGN", "RUNNING">>, <<"TASK_PLANNING", "RUNNING">>, <<"TASK_PLANNING", "WAITING">>}

AcceptAndRelease == {"acceptance.recorded", "release.completed"}

===============================================================================
