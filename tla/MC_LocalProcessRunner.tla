------------------------- MODULE MC_LocalProcessRunner -------------------------
(* Calls for LocalProcessRunner: two that use one id, the second with a timeout. *)
EXTENDS LocalProcessRunner, TLC

OneId == [c \in Call |-> "run"]
===============================================================================
