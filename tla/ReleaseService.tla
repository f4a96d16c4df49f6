---------------------------- MODULE ReleaseService ----------------------------
(***************************************************************************)
(* The release service: one call of release, which runs the migration,     *)
(* release and health check commands one after another and, when one fails *)
(* after side effects, the rollback commands. Calls share no state, so one *)
(* is modelled; the commit they release is compared with the accepted one  *)
(* before anything runs.                                                   *)
(***************************************************************************)
EXTENDS Naturals, Sequences

CONSTANT MaxCommands   \* bound on the commands of each kind

ASSUME MaxCommandsAssumption == MaxCommands \in Nat

VARIABLES
  plan,             \* the commands of each kind and autoRollback
  stage,            \* where the call is: what it awaits, or how it ended
  commandResults,   \* the results of each kind of commands, TRUE for PASS
  sideEffectsStarted,
  failureStage,     \* "none" where the code has null
  rollbackFailed    \* rollbackFailure is set

releaseVars == <<plan, stage, commandResults, sideEffectsStarted, failureStage, rollbackFailed>>

\* The kinds of commands, in the order they run.
Kinds == <<"MIGRATION", "RELEASE", "HEALTH_CHECK">>
Kind == {"MIGRATION", "RELEASE", "HEALTH_CHECK", "ROLLBACK"}
ReleaseStatus == {"RELEASED", "FAILED", "ROLLED_BACK"}

ReleaseTypeOK ==
  /\ plan \in [commands : [Kind -> 0..MaxCommands], autoRollback : BOOLEAN]
  /\ stage \in {"new", "refused"} \cup Kind \cup ReleaseStatus
  /\ commandResults \in [Kind -> Seq(BOOLEAN)]
  /\ sideEffectsStarted \in BOOLEAN /\ rollbackFailed \in BOOLEAN
  /\ failureStage \in {"none", "MIGRATION", "RELEASE", "HEALTH_CHECK", "SYSTEM"}

ReleaseInit ==
  /\ plan \in [commands : [Kind -> 0..MaxCommands], autoRollback : BOOLEAN]
  /\ stage = "new"
  /\ commandResults = [k \in Kind |-> <<>>]
  /\ sideEffectsStarted = FALSE /\ rollbackFailed = FALSE
  /\ failureStage = "none"

CausesEffect(kind) == kind \in {"MIGRATION", "RELEASE"}

\* The command of kind is started.
Await(kind) ==
  /\ stage' = kind
  /\ sideEffectsStarted' = (sideEffectsStarted \/ CausesEffect(kind))

\* Mutant: no rollback command failed, as there is none.
RolledBackIfNoneFailed(failed) == ~failed
RolledBack(failed) == ~failed /\ plan.commands["ROLLBACK"] > 0

\* The status at the end, once the rollback commands that are to run have run.
Finish(failed) == stage' = IF RolledBack(failed) THEN "ROLLED_BACK" ELSE "FAILED"

\* A command failed, or could not be run.
Fail(failed) ==
  /\ failureStage' = failed
  /\ IF plan.autoRollback /\ sideEffectsStarted
     THEN IF plan.commands["ROLLBACK"] > 0 THEN Await("ROLLBACK")
          ELSE Finish(FALSE) /\ UNCHANGED sideEffectsStarted
     ELSE stage' = "FAILED" /\ UNCHANGED sideEffectsStarted
  /\ UNCHANGED rollbackFailed

\* The kinds from the n-th on that have commands to run.
Remaining(n) == {m \in n..Len(Kinds) : plan.commands[Kinds[m]] > 0}

\* The first command of the n-th kind, or of the next that has any.
Advance(n) ==
  /\ IF Remaining(n) = {} THEN stage' = "RELEASED" /\ UNCHANGED sideEffectsStarted
     ELSE \E m \in Remaining(n) : (\A k \in Remaining(n) : m <= k) /\ Await(Kinds[m])
  /\ UNCHANGED <<failureStage, rollbackFailed>>

\* The user did not accept this commit, or a high risk is not approved.
Refuse ==
  /\ stage = "new"
  /\ stage' = "refused"
  /\ UNCHANGED <<plan, commandResults, sideEffectsStarted, failureStage, rollbackFailed>>

Begin ==
  /\ stage = "new"
  /\ Advance(1)
  /\ UNCHANGED <<plan, commandResults>>

Told(ok) == commandResults' = [commandResults EXCEPT ![stage] = Append(@, ok)]

\* Mutant: the next command runs whatever the last one said.
GoesOnAnyway(n, ok) == Len(commandResults'[Kinds[n]]) < plan.commands[Kinds[n]]
\* The loop over the commands of one kind goes on.
GoesOn(n, ok) == ok /\ Len(commandResults'[Kinds[n]]) < plan.commands[Kinds[n]]

\* A command of the n-th kind ends.
CommandEnds(n, ok) ==
  /\ stage = Kinds[n]
  /\ Told(ok)
  /\ IF GoesOn(n, ok) THEN UNCHANGED <<stage, sideEffectsStarted, failureStage, rollbackFailed>>
     ELSE IF ok THEN Advance(n + 1) ELSE Fail(Kinds[n])
  /\ UNCHANGED plan

\* The command is malformed or runCommand throws.
CommandThrows(n) ==
  /\ stage = Kinds[n]
  /\ Fail("SYSTEM")
  /\ UNCHANGED <<plan, commandResults>>

\* A rollback command ends; the first that fails ends the rollback.
RollbackEnds(ok) ==
  /\ stage = "ROLLBACK"
  /\ Told(ok)
  /\ rollbackFailed' = ~ok
  /\ IF ok /\ Len(commandResults'["ROLLBACK"]) < plan.commands["ROLLBACK"] THEN UNCHANGED stage
     ELSE Finish(~ok)
  /\ UNCHANGED <<plan, sideEffectsStarted, failureStage>>

RollbackThrows ==
  /\ stage = "ROLLBACK"
  /\ rollbackFailed' = TRUE
  /\ Finish(TRUE)
  /\ UNCHANGED <<plan, commandResults, sideEffectsStarted, failureStage>>

ReleaseNext ==
  \/ Refuse \/ Begin
  \/ \E n \in DOMAIN Kinds : CommandThrows(n) \/ \E ok \in BOOLEAN : CommandEnds(n, ok)
  \/ RollbackThrows \/ \E ok \in BOOLEAN : RollbackEnds(ok)

ReleaseSpec == ReleaseInit /\ [][ReleaseNext]_releaseVars

------------------------------------------------------------------------------
\* All commands of a kind ran and passed.
AllPassed(kind) ==
  /\ Len(commandResults[kind]) = plan.commands[kind]
  /\ \A n \in DOMAIN commandResults[kind] : commandResults[kind][n]

\* Nothing runs past a failure: a command of one kind has run only if every
\* command of every earlier kind passed, and the release is RELEASED only if
\* every command passed (release-service.mjs:38-79).
NothingPastFailure ==
  /\ \A m, n \in DOMAIN Kinds :
       m < n /\ (commandResults[Kinds[n]] # <<>> \/ stage = Kinds[n]) => AllPassed(Kinds[m])
  /\ \A n \in DOMAIN Kinds, k \in 1..MaxCommands :
       k < Len(commandResults[Kinds[n]]) => commandResults[Kinds[n]][k]
  /\ stage = "RELEASED" => \A n \in DOMAIN Kinds : AllPassed(Kinds[n])

\* A release is said to be rolled back only when there were rollback commands
\* and all of them passed, so that its incident counts as mitigated only then;
\* rollback commands run only after a failure, and only if a migration or
\* release command was started (release-service.mjs:81-96, 123-134).
RollbackIsTrue ==
  /\ stage = "ROLLED_BACK" => plan.commands["ROLLBACK"] > 0 /\ AllPassed("ROLLBACK")
  /\ stage = "ROLLBACK" \/ commandResults["ROLLBACK"] # <<>> =>
       /\ failureStage # "none"
       /\ \E kind \in Kind : CausesEffect(kind) /\ plan.commands[kind] > 0
==============================================================================
