----------------------------- MODULE IssueRounds -----------------------------
(***************************************************************************)
(* Rounds of the compatibility engine, from what the agents of a phase     *)
(* hand in to the agents of the next round: the issues of each round, the  *)
(* questions the user answers, and the phase the loop moves to. The state  *)
(* files, the crashes and the other commands are AgentLoop's; here a round *)
(* ends and its state is written.                                          *)
(***************************************************************************)
EXTENDS GateIssues

CONSTANTS
  StartPhases,  \* the phases the exploration starts from, entered anew
  Results,      \* what an agent may leave behind
  Good,         \* among them, what passes
  MaxFaulty,    \* bound: results of a round that are not Good
  MaxRounds     \* bound: rounds

\* "none" is what a problem without an item is about: no words of a topic.
ASSUME ResultsAssumption ==
  /\ StartPhases \subseteq LoopPhase
  /\ Results \subseteq Result /\ Good \in Results
  /\ "none" \notin Topic
  /\ MaxFaulty \in Nat /\ MaxRounds \in Nat

VARIABLES
  loop,       \* the workflow state
  open,       \* the issues of the file recentIssuesPath names
  nextAgent,  \* the agents a rework is assigned to
  confirmed,  \* confirmed-decisions.json: gate and signature of each answer
  \* The rest records what happened, for the properties; no action reads it.
  last,       \* what the last round was handed: whether an agent did not run or
              \* could not be read, and what the questions nobody had answered
              \* were about
  answered,   \* gate, form and subject of every question answered that named its
              \* target or has a topic
  flawed      \* a flaw was reported in this phase that no recheck followed

issueVars == <<loop, open, nextAgent, confirmed, last, answered, flawed>>

Abstract(issues) == {RuntimeIssue(issues[k]) : k \in DOMAIN issues}
HumanIssues(issues) == {k \in DOMAIN issues : issues[k].human}
Decision(i) == [gate |-> i.sig[1], sig |-> i.sig, subject |-> i.subject]

\* A question is known again when it is signed by its topic or names its target:
\* by the topic in any form, else in the form it was put in.
KnownAgain(i) == i.kind \in ItemKinds /\ (Len(i.sig) = 2 \/ i.sig[4] = NoTarget)
Asked(i) == <<i.sig[1], IF Len(i.sig) = 2 THEN "topic" ELSE i.kind, i.subject>>

InPhase(p) == WorkflowState(p, 0, 0, "DRAFT", "READY", FALSE, FALSE, {})

IssueInit ==
  /\ loop \in {InPhase(p) : p \in StartPhases}
  /\ open = <<>> /\ nextAgent = <<>> /\ confirmed = {}
  /\ last = [system |-> FALSE, questions |-> {}] /\ answered = {}
  /\ flawed = FALSE

\* What makes the engine, not an agent's work, the trouble of a round.
SystemTrouble(r) == r.task # "done" \/ SelfCheckUnread(r)

\* What the questions of a report are about that are put to the user and that
\* no decision of this gate answers.
Unanswered(a, r, n) ==
  LET open_(i) == /\ IsOpen(i) /\ Asks(i)
                  /\ IssueOf(GateOf(loop.phase), Question(a, i, n), confirmed).human
  IN IF r.report.file = "object"
     THEN {i.subject : i \in {j \in ToSet(r.report.items) : open_(j)}}
     ELSE {}

\* The state after a round: what the engine itself got wrong joins the issues
\* the decision is made from, though not those that are written down.
AfterRound(agents, results, n, issues) ==
  LET row(k) == results[agents[k]]
      approved == \A k \in DOMAIN agents : RowPassed(agents[k], loop.phase, row(k), n)
      inconsistent ==
        \E k \in DOMAIN agents : VerifierInconsistent(agents[k], loop.phase, row(k), n)
      found == Abstract(issues)
               \union (IF inconsistent THEN {[type |-> "engine", human |-> FALSE]} ELSE {})
      owners == IF OwnerAgents(issues) # <<>> THEN OwnerAgents(issues)
                ELSE RepairAgents(loop.phase)
      next == DecideNextState(loop, n, approved, found, OwnerClass(owners))
  IN [state |-> [next EXCEPT !.issues = Abstract(issues)], owners |-> owners]

\* One iteration of the orchestrator.
Round(agents, results) ==
  LET n == loop.round + 1
      issues == BuildIssuesFromGateSummary(loop, agents, results, n, confirmed)
      after == AfterRound(agents, results, n, issues)
      flaws == \E k \in DOMAIN issues : RuntimeIssue(issues[k]).type = "flaw"
  IN /\ loop' = after.state /\ open' = issues
     /\ nextAgent' = IF after.state.gate = "CHANGES_REQUESTED" THEN after.owners ELSE <<>>
     /\ last' = [system    |-> \E k \in DOMAIN agents : SystemTrouble(results[agents[k]]),
                 questions |-> UNION {Unanswered(a, results[a], n) : a \in ToSet(agents)}]
     /\ flawed' = (flaws \/ (flawed /\ after.state.gate \notin {"RECHECK_REQUIRED", "DRAFT"}))
     /\ UNCHANGED <<confirmed, answered>>

\* At most MaxFaulty agents of a round hand in something that is not Good. The
\* brain agent's rounds, with the user, are those of AgentLoop.
NextRound ==
  /\ loop.status \in {"READY", "NEEDS_FIX"} /\ loop.round < MaxRounds
  /\ loop.phase \notin {"USER_ACCEPTANCE", "ARCHIVE"}
  /\ LET agents == PlanTasks(loop, nextAgent)
     IN /\ agents # <<>>
        /\ \E faulty \in {f \in SUBSET ToSet(agents) : Cardinality(f) <= MaxFaulty} :
             \E bad \in [faulty -> Results \ {Good}] :
               Round(agents, [a \in ToSet(agents) |-> IF a \in faulty THEN bad[a] ELSE Good])

\* Mutant: questions have no owner among the agents, and nobody else is sent.
RepairOwnersOfIssues == IF loop.phase \in PrdPhases THEN <<"product">> ELSE OwnerAgents(open)

\* Where the answers send the loop: all of a PRD goes to the product agent.
RepairOwners ==
  IF loop.phase \in PrdPhases THEN <<"product">>
  ELSE IF OwnerAgents(open) # <<>> THEN OwnerAgents(open) ELSE RepairAgents(loop.phase)

\* decide: an issue is settled by a decision on it or, wherever that one was
\* made, on its topic. When all are, the block is lifted. The user answers
\* when asked to.
DecideIssue(k) ==
  LET made == confirmed \union {Decision(open[k])}
      settled(j) == \E d \in made : \/ d.sig = open[j].sig
                                    \/ open[j].subject \in Topic /\ d.subject = open[j].subject
  IN /\ loop.status = "NEEDS_USER" /\ open[k].human
     /\ confirmed' = made
     /\ answered' = answered \union (IF KnownAgain(open[k]) THEN {Asked(open[k])} ELSE {})
     /\ IF \A j \in HumanIssues(open) : settled(j)
        THEN /\ loop' = WorkflowState(loop.phase, loop.round, 0, "CHANGES_REQUESTED",
                          "NEEDS_FIX", FALSE, loop.directEdit \/ loop.phase \in PrdPhases,
                          loop.issues)
             /\ nextAgent' = RepairOwners
        ELSE UNCHANGED <<loop, nextAgent>>
     /\ UNCHANGED <<open, last, flawed>>

IssueNext == NextRound \/ \E k \in DOMAIN open : DecideIssue(k)
IssueSpec == IssueInit /\ [][IssueNext]_issueVars

RoundEnds == loop'.round = loop.round + 1

----------------------------------------------------------------------------
(* Properties.                                                             *)

IssueTypeOK ==
  /\ loop \in State
  /\ \A k \in DOMAIN open : open[k].owner \in Agent \union {"engine"} /\ open[k].human \in BOOLEAN
  /\ ToSet(nextAgent) \subseteq Agent \union {"engine"}

\* An agent that did not run, or whose Self Check cannot be read, blocks the
\* loop for its keeper: neither agents nor the user are asked to repair what
\* the engine got wrong, whatever the other agents reported in that round.
SystemFailuresBlock == last.system => loop.status = "BLOCKED_BY_SYSTEM"

\* A round in which some report has an open question nobody answered stops the
\* loop: it is neither approved nor sent back to the agents, whatever else is
\* wrong with that report and with those of the others. Unless an agent was to
\* fix something on the topic of the question: then the question is merged into
\* that, and the agents go on with an issue on the topic, not the user.
QuestionsStopTheLoop ==
  [][RoundEnds => \A s \in last'.questions :
       \/ loop'.status \in BlockedStatus
       \/ s \in Topic /\ \E k \in DOMAIN open' : open'[k].subject = s /\ ~open'[k].human]_issueVars

\* The user is not asked twice: a question that names its target, or has a
\* topic, is once answered not for the user again at that gate, whichever agent
\* raises it and in whichever round; by its topic in whatever form it comes back,
\* else in the form, open question or open issue, it was answered in. (In the other
\* form it has another signature and is asked again, against state.mjs:503.)
AskedOnce ==
  [][RoundEnds => \A k \in HumanIssues(open') :
       KnownAgain(open'[k]) => Asked(open'[k]) \notin answered]_issueVars

\* As long as the loop is not stopped there is an agent to send: the owners a
\* rework is given to, or the answers lead to, include one the planner knows.
SomeoneWorks ==
  loop.status \in {"READY", "NEEDS_FIX"} => PlanTasks(loop, nextAgent) # <<>>

\* Not true of the code. A phase is not approved before what its agents called
\* flawed has been rechecked.
FlawsAreRechecked ==
  [][RoundEnds /\ loop'.gate = "DRAFT" => ~flawed]_issueVars
==============================================================================
