---------------------------- MODULE WorkflowRules ----------------------------
(***************************************************************************)
(* The transition tables of the workflow engine and the conditions under   *)
(* which transitionWorkflow accepts a request (workflow-engine.mjs).       *)
(* Constant-level: the state machines that use the engine EXTEND it.       *)
(***************************************************************************)

Phase ==
  {"INTAKE", "PRODUCT_DESIGN", "MULTI_ROLE_REVIEW", "TECHNICAL_DESIGN",
   "TASK_PLANNING", "IMPLEMENTATION", "REVIEW", "INTEGRATION", "SYSTEM_TEST",
   "PRODUCT_ACCEPTANCE", "USER_ACCEPTANCE", "RELEASE", "MAINTENANCE", "ARCHIVED"}

Status ==
  {"DRAFT", "READY", "RUNNING", "WAITING", "BLOCKED", "COMPLETED", "FAILED",
   "CANCELLED", "ARCHIVED"}

\* Mutant: product acceptance can be jumped over.
PhaseTransitionsSkippingAcceptance ==
  [INTAKE             |-> {"PRODUCT_DESIGN"},
   PRODUCT_DESIGN     |-> {"MULTI_ROLE_REVIEW"},
   MULTI_ROLE_REVIEW  |-> {"PRODUCT_DESIGN", "TECHNICAL_DESIGN"},
   TECHNICAL_DESIGN   |-> {"MULTI_ROLE_REVIEW", "TASK_PLANNING"},
   TASK_PLANNING      |-> {"TECHNICAL_DESIGN", "IMPLEMENTATION"},
   IMPLEMENTATION     |-> {"REVIEW"},
   REVIEW             |-> {"IMPLEMENTATION", "INTEGRATION"},
   INTEGRATION        |-> {"IMPLEMENTATION", "SYSTEM_TEST"},
   SYSTEM_TEST        |-> {"IMPLEMENTATION", "USER_ACCEPTANCE"},
   PRODUCT_ACCEPTANCE |-> {"IMPLEMENTATION", "USER_ACCEPTANCE"},
   USER_ACCEPTANCE    |-> {"PRODUCT_DESIGN", "TECHNICAL_DESIGN", "IMPLEMENTATION", "RELEASE"},
   RELEASE            |-> {"MAINTENANCE"},
   MAINTENANCE        |-> {"PRODUCT_DESIGN", "IMPLEMENTATION", "ARCHIVED"},
   ARCHIVED           |-> {}]

PhaseTransitions ==
  [INTAKE             |-> {"PRODUCT_DESIGN"},
   PRODUCT_DESIGN     |-> {"MULTI_ROLE_REVIEW"},
   MULTI_ROLE_REVIEW  |-> {"PRODUCT_DESIGN", "TECHNICAL_DESIGN"},
   TECHNICAL_DESIGN   |-> {"MULTI_ROLE_REVIEW", "TASK_PLANNING"},
   TASK_PLANNING      |-> {"TECHNICAL_DESIGN", "IMPLEMENTATION"},
   IMPLEMENTATION     |-> {"REVIEW"},
   REVIEW             |-> {"IMPLEMENTATION", "INTEGRATION"},
   INTEGRATION        |-> {"IMPLEMENTATION", "SYSTEM_TEST"},
   SYSTEM_TEST        |-> {"IMPLEMENTATION", "PRODUCT_ACCEPTANCE"},
   PRODUCT_ACCEPTANCE |-> {"IMPLEMENTATION", "USER_ACCEPTANCE"},
   USER_ACCEPTANCE    |-> {"PRODUCT_DESIGN", "TECHNICAL_DESIGN", "IMPLEMENTATION", "RELEASE"},
   RELEASE            |-> {"MAINTENANCE"},
   MAINTENANCE        |-> {"PRODUCT_DESIGN", "IMPLEMENTATION", "ARCHIVED"},
   ARCHIVED           |-> {}]

StatusTransitions ==
  [DRAFT     |-> {"READY", "CANCELLED"},
   READY     |-> {"RUNNING", "BLOCKED", "CANCELLED"},
   RUNNING   |-> {"WAITING", "BLOCKED", "COMPLETED", "FAILED", "CANCELLED"},
   WAITING   |-> {"RUNNING", "BLOCKED", "CANCELLED"},
   BLOCKED   |-> {"READY", "RUNNING", "FAILED", "CANCELLED"},
   COMPLETED |-> {"ARCHIVED"},
   FAILED    |-> {"READY", "CANCELLED", "ARCHIVED"},
   CANCELLED |-> {"ARCHIVED"},
   ARCHIVED  |-> {}]

\* The statuses in which a workflow may enter phase p.
EntryStatuses(p) ==
  IF p = "ARCHIVED" THEN {"ARCHIVED"} ELSE {"RUNNING", "READY", "WAITING"}

\* transitionWorkflow returns for this request instead of throwing.
TransitionAllowed(phase, status, toPhase, toStatus) ==
  /\ toPhase # phase \/ toStatus # status
  /\ toPhase # phase => /\ toPhase \in PhaseTransitions[phase]
                        /\ toStatus \in EntryStatuses(toPhase)
  /\ toStatus # status => toStatus \in StatusTransitions[status]
  /\ toPhase = "ARCHIVED" => toStatus = "ARCHIVED"
==============================================================================
