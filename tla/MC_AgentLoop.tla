---------------------------- MODULE MC_AgentLoop ----------------------------
(* A workflow at its start and one that is about to be accepted.           *)
EXTENDS AgentLoop

Fresh(phase, round) == WorkflowState(phase, round, 0, "DRAFT", "READY", FALSE, FALSE, {})
Rework == WorkflowState("TESTING", 8, 2, "CHANGES_REQUESTED", "NEEDS_FIX", FALSE, FALSE,
                        {[type |-> "flaw", human |-> FALSE]})
MCInitialStates == {Fresh("INTAKE", 0), Rework, Fresh("USER_ACCEPTANCE", 9)}
MCForcedPhases == {"TESTING"}
MCReverifiedStates == {Fresh("PRODUCT_ACCEPTANCE", 9)}
MCFoundSets == {{}, {"engine"}, {"format"}, {"flaw"}, {"flaw", "question"}, {"acceptance"}}
==============================================================================
