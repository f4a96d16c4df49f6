----------------------------- MODULE MC_Dispatch -----------------------------
(* Plans for Dispatch.                                                      *)
EXTENDS Dispatch

Decl(deps, conflicts, locks) ==
  [dependsOn |-> deps, conflictsWith |-> conflicts, produces |-> {}, consumes |-> {},
   resourceLocks |-> locks, editablePaths |-> {}]

Db == <<"lock", "db">>
Ui == <<"lock", "ui">>

\* A branching plan with a side task; two tasks of the branches share a lock. When
\* 3 and 5 are denied they take the two places of every pass before 7 gets one.
BranchPlan ==
  << Decl({}, {}, {}), Decl({1}, {}, {Db}), Decl({1}, {}, {}),
     Decl({1}, {}, {Db, Ui}), Decl({2}, {}, {}), Decl({}, {}, {}),
     Decl({4}, {}, {}) >>

\* Two tasks that must not run together.
ConflictPlan == << Decl({}, {2}, {}), Decl({}, {}, {}) >>
==============================================================================
