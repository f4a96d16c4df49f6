--------------------------- MODULE WorkflowEngine ---------------------------
(***************************************************************************)
(* One workflow driven through the workflow engine: the phase and status   *)
(* pointer, the version transitionWorkflow increments, and a history of    *)
(* the phases entered since the workflow last entered IMPLEMENTATION.      *)
(* Every call of transitionWorkflow is one TransitionWorkflow step; a call *)
(* the engine rejects throws and changes nothing.                          *)
(***************************************************************************)
EXTENDS WorkflowRules, Naturals

CONSTANTS
  InitialPhases,  \* phases in which callers create workflows
  MaxTransitions  \* bound on the number of transitions explored

ASSUME InitialPhasesAssumption ==
  InitialPhases \subseteq {"INTAKE", "PRODUCT_DESIGN", "MULTI_ROLE_REVIEW",
                           "TECHNICAL_DESIGN", "TASK_PLANNING", "IMPLEMENTATION"}
ASSUME MaxTransitionsAssumption == MaxTransitions \in Nat

VARIABLES
  phase, status, version,
  passed  \* history: phases entered since IMPLEMENTATION was last entered

workflowVars == <<phase, status, version, passed>>

\* What delivery has to pass between a piece of implementation and its release.
VerificationPhases ==
  {"REVIEW", "INTEGRATION", "SYSTEM_TEST", "PRODUCT_ACCEPTANCE", "USER_ACCEPTANCE"}

DeliveredPhases == {"RELEASE", "MAINTENANCE", "ARCHIVED"}

ClosedStatuses == {"COMPLETED", "CANCELLED", "ARCHIVED"}

WorkflowTypeOK ==
  /\ phase \in Phase
  /\ status \in Status
  /\ version \in Nat
  /\ passed \subseteq Phase

\* A stored workflow may carry any open status; maintenance seeds start later
\* than INTAKE.
WorkflowInit ==
  /\ phase \in InitialPhases
  /\ status \in {"DRAFT", "READY", "RUNNING"}
  /\ version = 0
  /\ passed = {}

PassedAfter(toPhase) ==
  IF toPhase = phase THEN passed
  ELSE IF toPhase = "IMPLEMENTATION" THEN {}
  ELSE passed \union {toPhase}

TransitionWorkflow(toPhase, toStatus) ==
  /\ TransitionAllowed(phase, status, toPhase, toStatus)
  /\ version < MaxTransitions
  /\ phase' = toPhase
  /\ status' = toStatus
  /\ version' = version + 1
  /\ passed' = PassedAfter(toPhase)

WorkflowNext == \E toPhase \in Phase, toStatus \in Status : TransitionWorkflow(toPhase, toStatus)

WorkflowSpec == WorkflowInit /\ [][WorkflowNext]_workflowVars

------------------------------------------------------------------------------

\* The delivery chain cannot be cut short. Whatever mixture of rework loops,
\* pauses and failures a workflow goes through, once it is in RELEASE or later
\* it has passed every verification phase after its last implementation work
\* (the phase table, workflow-engine.mjs:3-18).
ReleasedOnlyVerified == phase \in DeliveredPhases => VerificationPhases \subseteq passed

\* A workflow that is archived as a phase was delivered and is archived as a
\* status too, so a terminal pointer never disagrees with itself
\* (workflow-engine.mjs:64-72).
ArchivedPhaseIsClosed == phase = "ARCHIVED" => status = "ARCHIVED"

\* A completed, cancelled or archived workflow is never revived: its status
\* stays closed and its phase can only still move into ARCHIVED. A failed
\* workflow can be revived; a closed one cannot, by whatever combination of
\* phase and status change is requested (workflow-engine.mjs:20-30, 64-69).
KeepsClosed ==
  status \in ClosedStatuses => /\ status' \in ClosedStatuses
                               /\ phase' \in {phase, "ARCHIVED"}
ClosedIsForever == [][KeepsClosed]_workflowVars

\* The inductive form of ReleasedOnlyVerified: in every phase of the chain the
\* phases before it, back to IMPLEMENTATION, have been passed.
RequiredBefore(p) ==
  CASE p = "REVIEW"             -> {"REVIEW"}
    [] p = "INTEGRATION"        -> {"REVIEW", "INTEGRATION"}
    [] p = "SYSTEM_TEST"        -> {"REVIEW", "INTEGRATION", "SYSTEM_TEST"}
    [] p = "PRODUCT_ACCEPTANCE" -> VerificationPhases \ {"USER_ACCEPTANCE"}
    [] p \in {"USER_ACCEPTANCE", "RELEASE", "MAINTENANCE", "ARCHIVED"} -> VerificationPhases
    [] OTHER                    -> {}

ChainInv == RequiredBefore(phase) \subseteq passed

==============================================================================
