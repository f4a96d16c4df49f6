-------------------------- MODULE ExclusiveExecution --------------------------
(***************************************************************************)
(* What the execution plane promises: an agent works on a task only while  *)
(* no agent works on a task that needs one of the same resources, and each *)
(* execution hands its task to an agent at most once.                      *)
(***************************************************************************)
CONSTANTS
  Exec,   \* executions
  NeedOf  \* [Exec -> SUBSET resources] what each execution must have alone

VARIABLES
  active,  \* executions whose agent is at work
  ended    \* executions whose agent will not work any more

Init == active = {} /\ ended = {}

Begin(e) ==
  /\ e \notin active \union ended
  /\ \A f \in active : NeedOf[e] \intersect NeedOf[f] = {}
  /\ active' = active \union {e}
  /\ UNCHANGED ended

End(e) ==
  /\ e \in active
  /\ active' = active \ {e}
  /\ ended' = ended \union {e}

\* The execution is over without its agent having worked.
Forgo(e) ==
  /\ e \notin active \union ended
  /\ ended' = ended \union {e}
  /\ UNCHANGED active

Next == \E e \in Exec : Begin(e) \/ End(e) \/ Forgo(e)

Spec == Init /\ [][Next]_<<active, ended>>
==============================================================================
