------------------------------ MODULE GateIssues ------------------------------
(***************************************************************************)
(* How the compatibility engine reads what its agents hand in: which       *)
(* agents a state is planned for, when the row of an agent passes the      *)
(* gate, and the issues the rows that do not pass are turned into.         *)
(*                                                                         *)
(* Every planned task has one output document, whose Self Check is read,   *)
(* and one structured gate result, the report.  A JSON null for a report   *)
(* makes the gate throw; it is not among the reports here.                 *)
(***************************************************************************)
EXTENDS LoopRules, Sequences, SequencesExt

CONSTANTS
  Subject,   \* what an item of a report is about
  Topic      \* the subjects the router knows by their words

Agent == {"product", "frontend", "backend", "test", "ui", "frontend_architect",
          "backend_architect", "review", "repair", "brain"}

Verdict == {"PASS", "CHANGES_REQUESTED", "FAIL", "BLOCKED"}

\* An entry of issues[] or open_questions[] of a report. ownFile: it names no
\* target, so the report itself is taken, whose name has the round in it.
Item == [asQuestion : BOOLEAN, status : {"open", "closed", "odd"},
         decision : {"auto", "human", "none"}, owner : Agent \union {"none"},
         ownFile : BOOLEAN, subject : Subject]

GateReport == [file : {"missing", "garbled", "other", "object"}, registered : BOOLEAN,
               verdict : Verdict \union {"none"}, next : {"yes", "no", "unset"},
               countRight : BOOLEAN, reason : BOOLEAN, items : Seq(Item)]

\* What an agent leaves behind: how its task ended, its document and the Self
\* Check in it, its report, and what was wrong with the files it changed.
Result == [task : {"done", "failed", "mutated"},
           output : {"missing", "unchecked", "checked"},
           verdict : Verdict \union {"unreadable"}, next : {"yes", "no", "unreadable"},
           covers : BOOLEAN, cites : BOOLEAN, report : GateReport,
           changes : SUBSET {"conflict", "deleted", "outside"}]

----------------------------------------------------------------------------
(* The planner.                                                            *)

When(b, x) == IF b THEN <<x>> ELSE <<>>

PhaseAgents(p) ==
  CASE p \in {"INTAKE", "PRODUCT_ACCEPTANCE"} -> <<"product">>
    [] p = "PRD_REVIEW"         -> <<"frontend", "backend", "test", "ui">>
    [] p = "ARCHITECTURE_IMPACT_REVIEW" -> <<"frontend_architect", "backend_architect", "test">>
    [] p = "UI_DESIGN"          -> <<"ui">>
    [] p = "DEVELOPMENT_DESIGN" -> <<"frontend", "backend", "test">>
    [] p = "DESIGN_REVIEW"      -> <<"product", "ui", "test", "frontend_architect",
                                     "backend_architect", "review">>
    [] p = "IMPLEMENTATION"     -> <<"frontend", "backend">>
    [] p = "TESTING"            -> <<"test">>
    [] OTHER                    -> <<"brain">>

RepairAgents(p) ==
  CASE p \in PrdPhases  -> <<"product">>
    [] p = "ARCHITECTURE_IMPACT_REVIEW" -> <<"frontend_architect", "backend_architect", "test">>
    [] p = "UI_DESIGN"  -> <<"ui">>
    [] p \in {"DEVELOPMENT_DESIGN", "DESIGN_REVIEW"} ->
         <<"frontend", "backend", "test", "ui", "frontend_architect", "backend_architect">>
    [] p \in {"IMPLEMENTATION", "TESTING"} -> <<"frontend", "backend", "test", "repair">>
    [] p = "PRODUCT_ACCEPTANCE" -> <<"product", "frontend", "backend", "test">>
    [] OTHER -> <<"brain">>

RecheckAgents(p) ==
  CASE p \in PrdPhases  -> <<"frontend", "backend", "test", "ui", "review">>
    [] p = "ARCHITECTURE_IMPACT_REVIEW" ->
         <<"frontend_architect", "backend_architect", "test", "review">>
    [] p = "UI_DESIGN"  -> <<"ui", "review">>
    [] p \in {"DEVELOPMENT_DESIGN", "DESIGN_REVIEW"} ->
         <<"product", "ui", "test", "frontend_architect", "backend_architect", "review">>
    [] p \in {"IMPLEMENTATION", "TESTING"} -> <<"test", "review">>
    [] p = "PRODUCT_ACCEPTANCE" -> <<"product", "test">>
    [] OTHER -> <<"brain">>


Known(agents) == FlattenSeq([k \in DOMAIN agents |-> When(agents[k] \in Agent, agents[k])])

\* The tasks of a round, by their agents. A blocked gate is never planned: the
\* command stops at it.
PlanTasks(s, nextAgent) ==
  IF s.gate = "CHANGES_REQUESTED" THEN Known(nextAgent)
  ELSE IF s.gate = "RECHECK_REQUIRED" THEN RecheckAgents(s.phase)
  ELSE PhaseAgents(s.phase)

----------------------------------------------------------------------------
(* Problems of a row, each with the agent that is to fix it. "human" is for *)
(* the user to decide, "system" for whoever keeps the engine.               *)

NoTarget == <<"any", 0>>

Problem(kind, agent, owner, human, system, target, subject) ==
  [kind |-> kind, agent |-> agent, owner |-> owner, human |-> human, system |-> system,
   target |-> target, subject |-> subject]
ToFix(kind, a, owner, n) == Problem(kind, a, owner, FALSE, FALSE, <<a, n>>, "none")
\* Mutant: what the engine got wrong is not marked as its own.
OfEngineUnmarked(kind, a, n) == Problem(kind, a, "engine", FALSE, FALSE, <<a, n>>, "none")
\* Mostly the engine is named as the one to fix it, too.
OfEngine(kind, a, n) ==
  LET owner == IF kind \in {"task_execution_failed", "gate_result_contract_invalid"}
               THEN a ELSE "engine"
  IN Problem(kind, a, owner, FALSE, TRUE, <<a, n>>, "none")
ToDecide(kind, a, owner) == Problem(kind, a, owner, TRUE, FALSE, NoTarget, "none")

IsOpen(i) == i.status = "open"
HasOpenIssues(r) == \E k \in DOMAIN r.items : ~r.items[k].asQuestion /\ IsOpen(r.items[k])
Asks(i) == i.decision = "human" \/ (i.asQuestion /\ i.decision = "none")

\* What is wrong with the form of a report that is an object.
ContractIssues(a, r, n) ==
  LET form(b, kind) == When(b, ToFix(kind, a, a, n))
      badEntry(i) == form(~i.asQuestion /\ i.status = "odd", "gate_result_issue_status_invalid")
                     \o form(~i.asQuestion /\ IsOpen(i) /\ i.decision = "none",
                             "gate_result_issue_decision_type_missing")
  IN FlattenSeq(<<
       When(~r.registered, OfEngine("gate_result_gate_type_unregistered", a, n)),
       form(r.verdict = "none", "gate_result_conclusion_missing"),
       form(r.verdict = "PASS" /\ HasOpenIssues(r), "gate_result_pass_with_open_issues"),
       form(r.verdict = "PASS" /\ r.next = "no", "gate_result_pass_but_next_stage_false"),
       form(r.verdict \in Verdict \ {"PASS"} /\ ~HasOpenIssues(r) /\ ~r.reason,
            "gate_result_failed_without_reason"),
       form(~r.countRight, "gate_result_open_issue_count_mismatch"),
       FlattenSeq([k \in DOMAIN r.items |-> badEntry(r.items[k])])>>)

\* The kind of an item is named after the list it stands in; that the agent may
\* name another (issue_type) is left out.
ItemKinds == {"gate_result_open_question", "gate_result_open_issue"}
KindOf(i) == IF i.asQuestion THEN "gate_result_open_question" ELSE "gate_result_open_issue"

TargetOf(a, i, n) == IF i.ownFile THEN <<a, n>> ELSE NoTarget

\* The question an item puts to the user, and the flaw it reports.
Question(a, i, n) ==
  Problem(KindOf(i), a, "brain", TRUE, FALSE, TargetOf(a, i, n), i.subject)
Flaw(a, i, n) ==
  Problem(KindOf(i), a, IF i.owner = "none" THEN a ELSE i.owner, FALSE, FALSE,
          TargetOf(a, i, n), i.subject)

\* What an open item says, as far as it can be read.
StatedBy(a, i, n) ==
  LET unread(kind) == <<ToFix(kind, a, a, n)>>
  IN CASE i.status = "odd" -> unread("gate_result_issue_status_invalid")
       [] IsOpen(i) /\ Asks(i) -> <<Question(a, i, n)>>
       [] IsOpen(i) /\ i.decision = "auto" -> <<Flaw(a, i, n)>>
       [] IsOpen(i) /\ ~Asks(i) /\ i.decision = "none" ->
            unread("gate_result_issue_decision_type_missing")
       [] OTHER -> <<>>

\* Mutant: the items of a report that says PASS are not looked at.
StructuredIssuesUnlessPassed(a, r, n) ==
  IF r.verdict = "PASS" THEN <<>>
  ELSE FlattenSeq([k \in DOMAIN r.items |-> StatedBy(a, r.items[k], n)])

StructuredIssues(a, r, n) == FlattenSeq([k \in DOMAIN r.items |-> StatedBy(a, r.items[k], n)])

GateResultIssues(a, r, n) ==
  CASE r.file = "missing" -> <<ToFix("missing_gate_result_json", a, a, n)>>
    [] r.file = "garbled" -> <<OfEngine("invalid_gate_result_json", a, n)>>
    [] r.file = "other"   -> <<OfEngine("gate_result_contract_invalid", a, n)>>
    [] OTHER -> ContractIssues(a, r, n) \o StructuredIssues(a, r, n)

CitesMissing(p, r) == p \in PrdPhases /\ r.output # "missing" /\ ~r.cites
Uncovered(r) == r.output = "checked" /\ ~r.covers
Says(r, verdict) == r.output = "checked" /\ r.verdict = verdict
Denies(r) == r.output = "checked" /\ r.next = "no"

RowPassed(a, p, r, n) ==
  /\ r.task = "done" /\ Says(r, "PASS") /\ ~Denies(r) /\ ~Uncovered(r)
  /\ ~CitesMissing(p, r)
  /\ GateResultIssues(a, r.report, n) = <<>> /\ r.report.verdict = "PASS"
  /\ r.changes = {}

\* A report without complaint in a row that does not pass.
VerifierInconsistent(a, p, r, n) ==
  /\ r.report.file = "object" /\ r.report.verdict = "PASS"
  /\ GateResultIssues(a, r.report, n) = <<>>
  /\ ~RowPassed(a, p, r, n)

\* The first reason found why a row fails names a parse failure only when
\* nothing before it in the chain does.
SelfCheckUnread(r) == r.task = "done" /\ Says(r, "unreadable")
PermissionUnread(r) ==
  /\ r.task = "done" /\ r.output = "checked" /\ r.next = "unreadable"
  /\ r.verdict \in {"PASS", "CHANGES_REQUESTED"}

GateOwner(a, p) ==
  CASE p \in PrdPhases -> "product"
    [] p = "ARCHITECTURE_IMPACT_REVIEW" ->
         IF a = "backend" THEN "backend_architect" ELSE "frontend_architect"
    [] p = "UI_DESIGN" -> "ui"
    [] p \in {"DEVELOPMENT_DESIGN", "DESIGN_REVIEW"} ->
         IF a \in {"repair", "brain"} THEN "review" ELSE a
    [] p \in {"IMPLEMENTATION", "TESTING"} ->
         IF a \in {"frontend", "backend"} THEN a ELSE "repair"
    [] p = "PRODUCT_ACCEPTANCE" ->
         IF a \in {"product", "frontend", "backend"} THEN a ELSE "repair"
    [] OTHER -> "brain"

\* Who answers for a document whose Self Check fails: the owner its path
\* speaks of, else the owner of the gate. Reports of code and its repairs lie
\* in test-reports, a path that speaks of the test agent.
SelfCheckOwner(a, s) ==
  LET ofCode == \/ s.phase = "IMPLEMENTATION" /\ s.gate = "DRAFT"
                \/ s.gate = "CHANGES_REQUESTED"
  IN IF a \in {"ui", "test", "frontend_architect", "backend_architect"} THEN a
     ELSE IF a \in {"frontend", "backend", "repair"} /\ ofCode THEN "test"
     ELSE GateOwner(a, s.phase)

\* The problems of a row that did not pass, in the order they are listed.
BuildProblems(s, a, r, n) ==
  FlattenSeq(<<
    When(r.task = "mutated", OfEngine("git_mutation_blocked", a, n)),
    When(r.task = "failed", OfEngine("task_execution_failed", a, n)),
    When(SelfCheckUnread(r), OfEngine("self_check_parse_failed", a, n)),
    When(PermissionUnread(r), OfEngine("allows_next_stage_parse_failed", a, n)),
    When(r.output = "missing", ToFix("missing_output", a, a, n)),
    When(r.output = "unchecked", ToFix("missing_self_check", a, a, n)),
    When(Uncovered(r), ToFix("phase_self_check_incomplete", a, a, n)),
    When(CitesMissing(s.phase, r), ToFix("prd_review_standard_missing", a, a, n)),
    GateResultIssues(a, r.report, n),
    When("conflict" \in r.changes, ToDecide("code_integration_conflict", a, "brain")),
    When("deleted" \in r.changes, ToDecide("unsupported_code_deletion", a, "brain")),
    When(Says(r, "FAIL"), ToFix("failed_self_check", a, SelfCheckOwner(a, s), n)),
    When(Says(r, "BLOCKED"), ToFix("blocked_self_check", a, a, n)),
    When(Denies(r), ToFix("next_stage_denied", a, SelfCheckOwner(a, s), n)),
    When("outside" \in r.changes, ToDecide("disallowed_business_change", a, a))>>)

----------------------------------------------------------------------------
(* The router.                                                             *)

\* Mutant: the signature names who raised the problem, not who is to fix it.
SignatureOfAgent(gate, p, owner) ==
  IF p.subject \in Topic THEN <<gate, p.subject>>
  ELSE <<gate, p.kind, p.agent, p.target, p.subject>>

\* Two problems with one signature are one issue. A subject known by its words
\* is signed by them alone.
Signature(gate, p, owner) ==
  IF p.subject \in Topic THEN <<gate, p.subject>>
  ELSE <<gate, p.kind, owner, p.target, p.subject>>

\* A confirmed decision of this gate makes a question the agents' to settle.
IssueOf(gate, p, decided) ==
  LET owner == IF ~p.human /\ p.owner = "brain" THEN p.agent ELSE p.owner
      sig   == Signature(gate, p, owner)
  IN [kind |-> p.kind, system |-> p.system, owner |-> owner, sig |-> sig,
      subject |-> p.subject,
      human |-> p.human /\ [gate |-> gate, sig |-> sig, subject |-> p.subject] \notin decided]

\* Of the issues with one signature the first stands for all.
MergeIssues(issues) ==
  FlattenSeq([k \in DOMAIN issues |->
                When(\A j \in 1..(k - 1) : issues[j].sig # issues[k].sig, issues[k])])

BuildIssuesFromGateSummary(s, agents, results, n, decided) ==
  LET row(a) == IF RowPassed(a, s.phase, results[a], n) THEN <<>>
                ELSE BuildProblems(s, a, results[a], n)
      problems == FlattenSeq([k \in DOMAIN agents |-> row(agents[k])])
  IN MergeIssues([k \in DOMAIN problems |-> IssueOf(GateOf(s.phase), problems[k], decided)])

\* The kinds of problem whose repair needs no second look.
StructuralRecheckSkipTypes ==
  {"missing_output", "missing_self_check", "phase_self_check_incomplete",
   "missing_gate_result_json", "invalid_gate_result_json", "gate_result_conclusion_missing",
   "gate_result_issue_decision_type_missing", "gate_result_issue_status_invalid",
   "gate_result_pass_with_open_issues", "gate_result_open_issues_missing",
   "prd_review_standard_missing"}

\* An issue as the rules for the next state see it.
RuntimeIssue(i) ==
  [human |-> i.human,
   type  |-> IF i.system THEN "engine"
             ELSE IF i.human THEN "question"
             ELSE IF i.kind \in StructuralRecheckSkipTypes THEN "format" ELSE "flaw"]

\* The owners of issues, each once; the brain agent fixes nothing.
OwnerAgents(issues) ==
  LET owner(k) == issues[k].owner
  IN FlattenSeq([k \in DOMAIN issues |->
       When(owner(k) # "brain" /\ \A j \in 1..(k - 1) : owner(j) # owner(k), owner(k))])

\* What decideNextState tells the owners of a rework apart by.
OwnerClass(owners) ==
  IF "product" \in ToSet(owners) THEN "product"
  ELSE IF ToSet(owners) \subseteq {"frontend", "backend", "test", "ui"} THEN "reviewers"
  ELSE "others"
==============================================================================
