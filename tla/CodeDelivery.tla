----------------------------- MODULE CodeDelivery -----------------------------
(***************************************************************************)
(* How code gets from agents to the main work tree in the compatibility    *)
(* engine. Each round gives its coding agents worktrees made from HEAD,     *)
(* loaded with the code of the main tree in the later phases. When the     *)
(* gate approves a round, the work of each agent is committed, merged into *)
(* the integration branch and, if all merges went through, copied to the   *)
(* main tree. A round is repeated, in the worktrees it left, when its      *)
(* command was killed or the agents did not answer in time; agents of an   *)
(* earlier attempt are taken to have ended by then. A file is the set of   *)
(* rounds in which it was edited; nobody else edits the main tree or        *)
(* commits to HEAD meanwhile. A round is of the phase that is due: a       *)
(* forced one (next --phase) and a git status that fails are left out.     *)
(***************************************************************************)
EXTENDS Naturals

CONSTANTS
  CodeFile,       \* files under client or server
  TestFile,       \* files the patterns of the test agent allow
  MaxDeliveries,  \* bound on rounds
  MaxCutShort,    \* bound on rounds that were killed or timed out
  NoWorktree

File == CodeFile \cup TestFile
Coder == {"frontend_agent", "backend_agent", "test_agent"}
Content == [File -> SUBSET (0..MaxDeliveries)]

ASSUME DeliveryAssumption ==
  /\ CodeFile \cap TestFile = {} /\ MaxDeliveries \in Nat /\ MaxCutShort \in Nat
  /\ NoWorktree \notin Content

Unchanged == [f \in File |-> {}]

VARIABLES
  codePhase, due,   \* what the next round is for: the phase's tasks, fixes, a recheck
  owners,       \* the agents that fix the issues of the last gate
  round,
  at,         \* where the command next is
  root, branch, \* the main work tree and the integration branch
  tree,         \* the worktrees of the round
  committed,    \* what their branches have, and
  base,         \* what of it the integration branch has merged
  files,        \* the changed files of each task, once collected
  left,         \* tasks still to be integrated
  verdict,      \* what came of integrating the others
  failures

deliveryVars == <<codePhase, due, owners, round, at, root, branch, tree, committed, base,
                  files, left, verdict, failures>>
workVars == <<tree, committed, base>>
taskVars == <<codePhase, due, owners, round>>

LaterPhase == [IMPLEMENTATION |-> "TESTING", TESTING |-> "PRODUCT_ACCEPTANCE",
               PRODUCT_ACCEPTANCE |-> "USER_ACCEPTANCE"]

DeliveryTypeOK ==
  /\ codePhase \in DOMAIN LaterPhase \cup {"USER_ACCEPTANCE"}
  /\ due \in {"first", "fix", "recheck"} /\ owners \subseteq Coder /\ round \in 0..MaxDeliveries
  /\ at \in {"idle", "prepare", "work", "integrate", "copy"}
  /\ root \in Content /\ branch \in Content
  /\ tree \in [Coder -> Content \cup {NoWorktree}]
  /\ committed \in [Coder -> Content] /\ base \in [Coder -> Content]
  /\ files \in [Coder -> SUBSET File] /\ left \subseteq Coder
  /\ verdict \in {"clean", "skipped", "conflict"} /\ failures \in 0..MaxCutShort

FreshRound ==
  /\ tree' = [a \in Coder |-> NoWorktree]
  /\ committed' = [a \in Coder |-> Unchanged] /\ base' = [a \in Coder |-> Unchanged]
  /\ files' = [a \in Coder |-> {}] /\ left' = {} /\ verdict' = "clean"

DeliveryInit ==
  /\ codePhase = "IMPLEMENTATION" /\ due = "first" /\ owners = {} /\ round = 0 /\ at = "idle"
  /\ root = Unchanged /\ branch = Unchanged
  /\ tree = [a \in Coder |-> NoWorktree]
  /\ committed = [a \in Coder |-> Unchanged] /\ base = [a \in Coder |-> Unchanged]
  /\ files = [a \in Coder |-> {}] /\ left = {} /\ verdict = "clean" /\ failures = 0

\* The tasks of the round that may change code.
CodingTasks ==
  CASE due = "fix"                                  -> owners
    [] due = "first" /\ codePhase = "IMPLEMENTATION"    -> {"frontend_agent", "backend_agent"}
    [] due = "first" /\ codePhase = "TESTING"           -> {"test_agent"}
    [] OTHER                                        -> {}

\* Mutant: tests run in the worktrees of the implementation.
PreloadsAcceptance == codePhase \in {"PRODUCT_ACCEPTANCE", "USER_ACCEPTANCE"}
ShouldPreload == codePhase \in {"TESTING", "PRODUCT_ACCEPTANCE", "USER_ACCEPTANCE"}

Launch ==
  /\ at = "idle" /\ round < MaxDeliveries /\ codePhase \in DOMAIN LaterPhase
  /\ at' = "prepare" /\ left' = CodingTasks
  /\ files' = [a \in Coder |-> {}] /\ verdict' = "clean"
  /\ UNCHANGED <<taskVars, root, branch, workVars, failures>>

Preloaded(content) ==
  [f \in File |-> IF ShouldPreload /\ root[f] # {} THEN root[f] ELSE content[f]]

\* The worktree is made, or found again and kept, or reset if that is asked for.
Prepare(a) ==
  /\ at = "prepare" /\ a \in left
  /\ \/ /\ tree' = [tree EXCEPT ![a] = Preloaded(Unchanged)]
        /\ committed' = [committed EXCEPT ![a] = Unchanged]
        /\ base' = [base EXCEPT ![a] = Unchanged]
     \/ /\ tree[a] # NoWorktree
        /\ tree' = [tree EXCEPT ![a] = Preloaded(@)]
        /\ UNCHANGED <<committed, base>>
  /\ left' = left \ {a}
  /\ UNCHANGED <<taskVars, at, root, branch, files, verdict, failures>>

Prepared ==
  /\ at = "prepare" /\ left = {}
  /\ at' = "work"
  /\ UNCHANGED <<taskVars, root, branch, workVars, files, left, verdict, failures>>

Work(a, f) ==
  /\ at = "work" /\ a \in CodingTasks
  /\ tree' = [tree EXCEPT ![a][f] = @ \cup {round}]
  /\ UNCHANGED <<taskVars, at, root, branch, committed, base, files, left, verdict, failures>>

\* Uncommitted changes of a worktree.
Changed(a) == {f \in File : tree[a][f] # committed[a][f]}

\* A file that was not preloaded and that the test agent may not change.
ScopeViolated ==
  "test_agent" \in CodingTasks
    /\ \E f \in Changed("test_agent") : f \in CodeFile /\ (ShouldPreload => root[f] = {})

\* One file is changed in two worktrees of the round.
Clash == \E a, b \in CodingTasks : a # b /\ Changed(a) \cap Changed(b) # {}

\* What becomes of the workflow: to the next phase, to a recheck of what was
\* fixed, or to a fix by some agents, after a decision of the user or without.
Advances ==
  \/ /\ due = "fix"
     /\ due' = "recheck" /\ owners' = {} /\ UNCHANGED codePhase
  \/ /\ codePhase' = LaterPhase[codePhase] /\ due' = "first" /\ owners' = {}
IsSentBack ==
  /\ due' = "fix" /\ owners' \in SUBSET Coder
  /\ UNCHANGED codePhase

EndRound == at' = "idle" /\ round' = round + 1 /\ FreshRound /\ UNCHANGED failures

GateFails ==
  /\ at = "work"
  /\ EndRound /\ IsSentBack
  /\ UNCHANGED <<root, branch>>

MayPass == ~Clash /\ ~ScopeViolated

GatePasses ==
  /\ at = "work" /\ MayPass
  /\ files' = [a \in Coder |-> IF a \in CodingTasks THEN Changed(a) ELSE {}]
  /\ left' = {a \in CodingTasks : Changed(a) # {}}
  /\ at' = "integrate"
  /\ UNCHANGED <<taskVars, root, branch, workVars, verdict, failures>>

\* A task whose work is committed and not yet merged.
AwaitsMerge(a) == a \in left /\ Changed(a) = {}

\* git add and commit in the worktree of the next task; when they fail the task
\* is skipped.
Commit(a) ==
  /\ at = "integrate" /\ a \in left /\ \A b \in left : ~AwaitsMerge(b)
  /\ \/ committed' = [committed EXCEPT ![a] = tree[a]] /\ UNCHANGED <<left, verdict>>
     \/ /\ left' = left \ {a} /\ verdict' = IF verdict = "clean" THEN "skipped" ELSE verdict
        /\ UNCHANGED committed
  /\ UNCHANGED <<taskVars, at, root, branch, tree, base, files, failures>>

\* The content of a file after a merge that git finds no conflict in.
Merged(ours, common, theirs) ==
  (ours \cap theirs) \cup (ours \ common) \cup (theirs \ common)

\* Both sides changed the file, not to the same.
MayConflict(ours, common, theirs) == ours # common /\ theirs # common /\ ours # theirs

Merge(a) ==
  /\ at = "integrate" /\ AwaitsMerge(a)
  /\ \/ /\ branch' = [f \in File |-> Merged(branch[f], base[a][f], committed[a][f])]
        /\ base' = [base EXCEPT ![a] = committed[a]]
        /\ UNCHANGED verdict
     \/ /\ \E f \in File : MayConflict(branch[f], base[a][f], committed[a][f])
        /\ verdict' = "conflict"
        /\ UNCHANGED <<branch, base>>
  /\ left' = left \ {a}
  /\ UNCHANGED <<taskVars, at, root, tree, committed, files, failures>>

\* Mutant: a conflict is reported, and the files are copied all the same.
CopiesAnyway == TRUE
MayCopy == verdict = "clean"

Integrated ==
  /\ at = "integrate" /\ left = {}
  /\ IF MayCopy
     THEN /\ at' = "copy"
          /\ UNCHANGED <<taskVars, workVars, files, left, verdict, failures>>
     ELSE EndRound /\ IsSentBack
  /\ UNCHANGED <<root, branch>>

CopyFile(a, f) ==
  /\ at = "copy" /\ f \in files[a]
  /\ root' = [root EXCEPT ![f] = tree[a][f]]
  /\ files' = [files EXCEPT ![a] = @ \ {f}]
  /\ UNCHANGED <<taskVars, at, branch, workVars, left, verdict, failures>>

Copied ==
  /\ at = "copy" /\ \A a \in Coder : files[a] = {}
  /\ EndRound /\ Advances
  /\ UNCHANGED <<root, branch>>

\* The command is killed, or the agents do not answer in time.
RoundFails ==
  /\ at # "idle" /\ failures < MaxCutShort
  /\ at' = "idle" /\ failures' = failures + 1
  /\ UNCHANGED <<taskVars, root, branch, workVars, files, left, verdict>>

DeliveryNext ==
  \/ Launch \/ Prepared \/ GateFails \/ GatePasses \/ Integrated \/ Copied \/ RoundFails
  \/ \E a \in Coder :
       Prepare(a) \/ Commit(a) \/ Merge(a) \/ \E f \in File : Work(a, f) \/ CopyFile(a, f)

DeliverySpec == DeliveryInit /\ [][DeliveryNext]_deliveryVars

------------------------------------------------------------------------------
\* Code comes to the main tree by way of the integration branch only: every edit
\* it has is on the branch too, over conflicts, skipped tasks, rounds that were
\* killed while they integrated or copied, and rounds that were repeated
\* (scripts/agent-loop/README.md, the section on code integration;
\* orchestrator.mjs:186-191, code-sync.mjs:44-105).
RootIsIntegrated == \A f \in File : root[f] \subseteq branch[f]

\* From the tests on, no round takes code away from the main tree: what agents
\* change there they change on top of it (code-sync.mjs:107-132).
CodeIsKept == [][codePhase # "IMPLEMENTATION" => \A f \in File : root[f] \subseteq root'[f]]_deliveryVars
==============================================================================
