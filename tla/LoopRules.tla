------------------------------ MODULE LoopRules ------------------------------
(***************************************************************************)
(* The pure part of the compatibility engine (src/scripts/agent-loop): the *)
(* workflow state its three files hold, and decideNextState, which makes   *)
(* the next state from the result of a gate and the issues it left open.   *)
(* Projects of type existing_refactor, the only ones the command line can  *)
(* start.                                                                  *)
(***************************************************************************)
EXTENDS Naturals

MaxFailures == 3

LoopPhase == {"INTAKE", "PRD_REVIEW", "ARCHITECTURE_IMPACT_REVIEW", "UI_DESIGN",
              "DEVELOPMENT_DESIGN", "DESIGN_REVIEW", "IMPLEMENTATION", "TESTING",
              "PRODUCT_ACCEPTANCE", "USER_ACCEPTANCE", "ARCHIVE"}
PrdPhases == {"INTAKE", "PRD_REVIEW"}
GateStatus == {"DRAFT", "CHANGES_REQUESTED", "RECHECK_REQUIRED", "BLOCKED", "APPROVED"}
WorkflowStatus == {"READY", "NEEDS_FIX", "NEEDS_USER", "BLOCKED_BY_SYSTEM", "DONE"}
BlockedStatus == {"NEEDS_USER", "BLOCKED_BY_SYSTEM"}

\* What a failed gate complains about: an agent or a tool that failed, a badly
\* formed output, a flaw in the work, a question and a missing acceptance that
\* only the user can settle.
IssueType == {"engine", "format", "flaw", "question", "acceptance"}
HumanTypes == {"question", "acceptance"}
Issue == [type : IssueType, human : BOOLEAN]

\* Who owns the issues of a failed gate, as far as the rules tell them apart.
Owners == {"product", "reviewers", "others"}

\* failures: consecutive failed gates; split: failureReason is
\* state_source_split; directEdit: productPrdEditMode; issues: the content of
\* the file recentIssuesPath names.
State == [phase : LoopPhase, round : Nat, failures : Nat, gate : GateStatus,
          status : WorkflowStatus, split : BOOLEAN, directEdit : BOOLEAN,
          issues : SUBSET Issue]

WorkflowState(phase, round, failures, gate, status, split, directEdit, issues) ==
  [phase |-> phase, round |-> round, failures |-> failures, gate |-> gate,
   status |-> status, split |-> split, directEdit |-> directEdit, issues |-> issues]

GateOf(phase) ==
  CASE phase \in PrdPhases                      -> "PRD_GATE"
    [] phase = "ARCHITECTURE_IMPACT_REVIEW"     -> "ARCHITECTURE_GATE"
    [] phase = "UI_DESIGN"                      -> "UI_GATE"
    [] phase \in {"DEVELOPMENT_DESIGN", "DESIGN_REVIEW"} -> "DESIGN_GATE"
    [] phase \in {"IMPLEMENTATION", "TESTING"}  -> "TEST_GATE"
    [] phase = "PRODUCT_ACCEPTANCE"             -> "PRODUCT_ACCEPTANCE_GATE"
    [] phase = "USER_ACCEPTANCE"                -> "USER_ACCEPTANCE_GATE"
    [] OTHER                                    -> "ARCHIVE_GATE"

ApprovedNextPhase(phase) ==
  CASE phase = "INTAKE"                     -> "PRD_REVIEW"
    [] phase = "PRD_REVIEW"                 -> "ARCHITECTURE_IMPACT_REVIEW"
    [] phase = "ARCHITECTURE_IMPACT_REVIEW" -> "UI_DESIGN"
    [] phase = "UI_DESIGN"                  -> "DEVELOPMENT_DESIGN"
    [] phase = "DEVELOPMENT_DESIGN"         -> "DESIGN_REVIEW"
    [] phase = "DESIGN_REVIEW"              -> "IMPLEMENTATION"
    [] phase = "IMPLEMENTATION"             -> "TESTING"
    [] phase = "TESTING"                    -> "PRODUCT_ACCEPTANCE"
    [] phase = "PRODUCT_ACCEPTANCE"         -> "USER_ACCEPTANCE"
    [] OTHER                                -> "ARCHIVE"

\* productPrdEditMode after a write: opened for a fix of the PRD by the product
\* agent, closed by a draft or an approval, kept otherwise.
EditMode(old, phase, gate, owner) ==
  IF gate = "CHANGES_REQUESTED" /\ phase \in PrdPhases /\ owner = "product" THEN TRUE
  ELSE old /\ gate \notin {"DRAFT", "APPROVED"}

Human(issues) == {i \in issues : i.human}
\* A recheck is needed unless all that was wrong was form.
RequiresRecheck(issues) == issues = {} \/ \E i \in issues : i.human \/ i.type # "format"

\* A question a confirmed decision answers at its gate is the agents' to fix.
BuildIssues(types, phase, decided) ==
  {[type |-> t, human |-> t \in HumanTypes /\ <<GateOf(phase), t>> \notin decided] : t \in types}

\* Mutant: the number of failures is never compared with its limit.
FailedStatusEndless(s, found, failures) ==
  IF s.split \/ \E i \in found : i.type = "engine" THEN "BLOCKED_BY_SYSTEM"
  ELSE IF Human(found) # {} THEN "NEEDS_USER"
  ELSE IF found = {} THEN "BLOCKED_BY_SYSTEM"
  ELSE "NEEDS_FIX"

\* The outcome of a failed gate, in the order the classifier tests it.
FailedStatus(s, found, failures) ==
  IF s.split \/ \E i \in found : i.type = "engine" THEN "BLOCKED_BY_SYSTEM"
  ELSE IF Human(found) # {} THEN "NEEDS_USER"
  ELSE IF found = {} \/ failures >= MaxFailures THEN "BLOCKED_BY_SYSTEM"
  ELSE "NEEDS_FIX"

AfterRecheckRequest(s, round) ==
  WorkflowState(s.phase, round, 0, "RECHECK_REQUIRED", "NEEDS_FIX", FALSE,
                EditMode(s.directEdit, s.phase, "RECHECK_REQUIRED", "others"), {})

AfterApproval(s, round) ==
  IF s.phase = "ARCHIVE"
  THEN WorkflowState("ARCHIVE", round, 0, "APPROVED", "DONE", FALSE, FALSE, {})
  ELSE WorkflowState(ApprovedNextPhase(s.phase), round, 0, "DRAFT", "READY", FALSE, FALSE, {})

\* The first reason found is kept, so another system failure hides the split.
AfterBlock(s, round, status, found) ==
  WorkflowState(s.phase, round, s.failures + 1, "BLOCKED", status,
                s.split /\ ~ \E i \in found : i.type = "engine",
                EditMode(s.directEdit, s.phase, "BLOCKED", "others"), found)

AfterRework(s, round, found, owner) ==
  LET next == IF s.phase = "INTAKE" /\ owner = "reviewers" THEN "PRD_REVIEW" ELSE s.phase
  IN WorkflowState(next, round, s.failures + 1, "CHANGES_REQUESTED", "NEEDS_FIX", FALSE,
                   EditMode(s.directEdit, next, "CHANGES_REQUESTED", owner), found)

\* decideNextState and the normalisation of the state it is written with.
DecideNextState(s, round, approved, found, owner) ==
  LET status == FailedStatus(s, found, s.failures + 1)
  IN IF approved
     THEN IF s.gate = "CHANGES_REQUESTED" /\ RequiresRecheck(s.issues)
          THEN AfterRecheckRequest(s, round)
          ELSE AfterApproval(s, round)
     ELSE IF status = "NEEDS_FIX" THEN AfterRework(s, round, found, owner)
          ELSE AfterBlock(s, round, status, found)
==============================================================================
