------------------------------ MODULE MC_TaskPlan ------------------------------
EXTENDS TaskPlan

MCFiles == {<<"src">>, <<"src", "a">>, <<"src", "a", "x">>, <<"src", "b">>}

\* Declarations: some vary the shape of the graph and what flows along it, the
\* others what the tasks write.
Shapes ==
  {[dependsOn |-> d, conflictsWith |-> {}, produces |-> p, consumes |-> c,
    resourceLocks |-> {}, editablePaths |-> {}] :
     d \in SUBSET Id, p \in SUBSET {"api"}, c \in {{}, {"api"}, {"api", "brief"}}}

Writers ==
  {[dependsOn |-> d, conflictsWith |-> k, produces |-> {}, consumes |-> {},
    resourceLocks |-> l, editablePaths |-> {p}] :
     d \in SUBSET {1}, k \in SUBSET {1}, l \in SUBSET {"db"},
     p \in {<<"src", "a">>, <<"src", "a", "x">>, <<"src", "a", "**">>}}

MCDeclarations == Shapes \union Writers

\* The agent of the last task has a contract that opens src/b.
MCContract == [t \in Id |-> IF t = Max(Id) THEN {<<"src", "b">>} ELSE {}]
==============================================================================
