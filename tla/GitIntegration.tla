---------------------------- MODULE GitIntegration ----------------------------
(***************************************************************************)
(* The integration service: several calls of integrate over the worktrees  *)
(* of one repository. Git is called synchronously, so that everything up   *)
(* to the first verification command, and everything between two of them,  *)
(* is one step; while a command runs, other calls proceed.                 *)
(***************************************************************************)
EXTENDS Naturals, Sequences

CONSTANTS
  Integration,   \* calls of integrate
  Place, Branch, \* integration worktree paths, integration branches
  MaxCommits,    \* bound on the task commits of a call
  MaxChecks,     \* bound on its verification commands
  NoTree         \* a path with no worktree

ASSUME NoTreeAssumption == NoTree \notin [branch : Branch, by : Integration]
ASSUME MaxCommitsAssumption == MaxCommits \in Nat /\ MaxChecks \in Nat

VARIABLES
  worktrees,     \* git: what is checked out at each path, and whose merges it holds
  input,         \* the arguments of each call
  step,          \* where each call is
  merged,        \* the task commits it merged
  results        \* its verificationResults, TRUE for PASS

integrationVars == <<worktrees, input, step, merged, results>>

Input == [place : Place, branch : Branch, commits : 1..MaxCommits, checks : 0..MaxChecks,
          cleanupWorktree : BOOLEAN]
Tree == [branch : Branch, by : Integration]
Step == {"new", "verifying", "passed", "conflict", "failed", "thrown"}
Ended == {"passed", "conflict", "failed", "thrown"}

IntegrationTypeOK ==
  /\ worktrees \in [Place -> Tree \cup {NoTree}]
  /\ input \in [Integration -> Input]
  /\ step \in [Integration -> Step]
  /\ merged \in [Integration -> Nat]
  /\ results \in [Integration -> Seq(BOOLEAN)]

IntegrationInit ==
  /\ worktrees = [p \in Place |-> NoTree]
  /\ input \in [Integration -> Input]
  /\ step = [i \in Integration |-> "new"]
  /\ merged = [i \in Integration |-> 0]
  /\ results = [i \in Integration |-> <<>>]

\* Mutant: the worktree is added by force, over one that is there.
CanAddByForce(i) ==
  \A p \in Place \ {input[i].place} : worktrees[p] # NoTree => worktrees[p].branch # input[i].branch
\* Git refuses a path that is there and a branch checked out at another one;
\* -B moves a branch that is checked out nowhere.
CanAdd(i) ==
  /\ worktrees[input[i].place] = NoTree
  /\ \A p \in Place : worktrees[p] # NoTree => worktrees[p].branch # input[i].branch
Added(i) == [worktrees EXCEPT ![input[i].place] = [branch |-> input[i].branch, by |-> i]]

\* What the finally block may leave, once the worktree was set up: the exit code
\* of `git worktree remove --force` is not looked at, so that a worktree git could
\* not remove (locked, or with files it may not delete) stays without a word.
CleanedUp(trees, i) ==
  {trees} \union (IF input[i].cleanupWorktree THEN {[trees EXCEPT ![input[i].place] = NoTree]} ELSE {})

End(i, trees, outcome) ==
  /\ step' = [step EXCEPT ![i] = outcome]
  /\ worktrees' \in CleanedUp(trees, i)

\* Mutant: a call that could not set up its worktree removes what is there.
CreateFailsCleaning(i) ==
  /\ step[i] = "new"
  /\ End(i, worktrees, "thrown")
  /\ UNCHANGED <<input, merged, results>>
\* setupComplete is false: nothing is removed.
CreateFails(i) ==
  /\ step[i] = "new"
  /\ step' = [step EXCEPT ![i] = "thrown"]
  /\ UNCHANGED <<worktrees, input, merged, results>>

\* A merge that fails is aborted and no further commit is merged; there is no
\* integration commit and nothing is verified.
Conflict(i) ==
  /\ step[i] = "new" /\ CanAdd(i)
  /\ \E before \in 0..(input[i].commits - 1) : merged' = [merged EXCEPT ![i] = before]
  /\ End(i, Added(i), "conflict")
  /\ UNCHANGED <<input, results>>

\* The head or the changed files cannot be read after the merges.
HeadUnavailable(i) ==
  /\ step[i] = "new" /\ CanAdd(i)
  /\ merged' = [merged EXCEPT ![i] = input[i].commits]
  /\ End(i, Added(i), "thrown")
  /\ UNCHANGED <<input, results>>

\* Mutant: what the last verification says counts.
OutcomeOfLast(answers) == IF answers = <<>> \/ answers[Len(answers)] THEN "passed" ELSE "failed"
Outcome(answers) == IF \A n \in DOMAIN answers : answers[n] THEN "passed" ELSE "failed"

\* Every commit is merged; the first verification command is started, if any.
MergeAll(i) ==
  /\ step[i] = "new" /\ CanAdd(i)
  /\ merged' = [merged EXCEPT ![i] = input[i].commits]
  /\ IF input[i].checks = 0 THEN End(i, Added(i), Outcome(<<>>))
     ELSE /\ step' = [step EXCEPT ![i] = "verifying"]
          /\ worktrees' = Added(i)
  /\ UNCHANGED <<input, results>>

\* A command ends. The next one is started also after one that failed.
Verified(i, ok) ==
  LET answers == Append(results[i], ok)
  IN /\ step[i] = "verifying"
     /\ results' = [results EXCEPT ![i] = answers]
     /\ IF Len(answers) < input[i].checks THEN UNCHANGED <<step, worktrees>>
        ELSE End(i, worktrees, Outcome(answers))
     /\ UNCHANGED <<input, merged>>

\* runCommand itself throws.
VerifyThrows(i) ==
  /\ step[i] = "verifying"
  /\ End(i, worktrees, "thrown")
  /\ UNCHANGED <<input, merged, results>>

Proceed(i) ==
  \/ CreateFails(i) \/ Conflict(i) \/ HeadUnavailable(i) \/ MergeAll(i)
  \/ \E ok \in BOOLEAN : Verified(i, ok)
  \/ VerifyThrows(i)
IntegrationNext == \E i \in Integration : Proceed(i)

IntegrationSpec == IntegrationInit /\ [][IntegrationNext]_integrationVars

------------------------------------------------------------------------------
\* What is verified is what was merged: while the verification commands of a
\* call run, the worktree they run in is its own, on its branch, whatever other
\* calls for the same path or branch do meanwhile, fail or clean up
\* (git-integration-service.mjs:32-37, 68-72, 110-112; "Verification runs
\* against the resolved Integration Commit", docs/evidence-and-operations.md:39).
VerifiedInPlace ==
  \A i \in Integration : step[i] = "verifying" =>
    worktrees[input[i].place] = [branch |-> input[i].branch, by |-> i]

\* An integration that passed merged every commit and had an answer to every
\* verification command, all of them good; one with a conflict verified nothing
\* (git-integration-service.mjs:57-90).
PassedIsWhole ==
  \A i \in Integration :
    /\ step[i] = "passed" =>
         /\ merged[i] = input[i].commits /\ Len(results[i]) = input[i].checks
         /\ \A n \in DOMAIN results[i] : results[i][n]
    /\ step[i] = "conflict" => merged[i] < input[i].commits /\ results[i] = <<>>

\* The worktree at p belongs to a call that has ended: it was to be kept, or git
\* could not remove it.
LeftBehind(p) == worktrees[p] # NoTree /\ step[worktrees[p].by] \in Ended

\* What a call left behind stays as it is, with the merges somebody has to look
\* at, whatever later calls do and however they fail: none removes or replaces
\* it, and those for its path or its branch, retries included, merge nothing and
\* end with an exception (git-integration-service.mjs:32-37, 109-114).
LeftTreesStay ==
  [][\A p \in Place : LeftBehind(p) =>
       /\ worktrees'[p] = worktrees[p]
       /\ \A i \in Integration :
            /\ step[i] = "new"
            /\ input[i].place = p \/ input[i].branch = worktrees[p].branch
            => step'[i] \in {"new", "thrown"} /\ merged'[i] = merged[i]]_integrationVars
==============================================================================
