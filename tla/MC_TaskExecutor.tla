--------------------------- MODULE MC_TaskExecutor ---------------------------
(* Small sets of executions for TaskExecutor.                               *)
EXTENDS TaskExecutor, TLC

CONSTANTS e1, e2, e3, a1, a2, a3, r1, r2, r3

\* Three tasks over two resources, one task needing both.
MCOwnerOf == (e1 :> a1) @@ (e2 :> a2) @@ (e3 :> a3)
MCNeedOf == (e1 :> {r1, r2}) @@ (e2 :> {r1}) @@ (e3 :> {r2})

\* Two tasks with one resource in common.
TwoOwnerOf == (e1 :> a1) @@ (e2 :> a2)
TwoNeedOf == (e1 :> {r1, r2}) @@ (e2 :> {r2, r3})

\* One task executed twice with the same task.attempt: one attempt id.
TwiceOwnerOf == (e1 :> a1) @@ (e2 :> a1)
TwiceNeedOf == (e1 :> {r1}) @@ (e2 :> {r1})
==============================================================================
