------------------------------- MODULE MC_Parts -------------------------------
(***************************************************************************)
(* The parts that keep a state of their own, share none of it and never    *)
(* call one another: the workflow engine, the lock manager, the validator  *)
(* of task plans, the records of the OS runtime, the registries of the     *)
(* evidence plane, the file store, integration, release, the state         *)
(* sources, the delivery of code, the attempts at a round and its issues.  *)
(* Each is explored with the others left as they start, on one input of    *)
(* theirs.                                                                 *)
(***************************************************************************)
EXTENDS WorkflowEngine, LockManager, MC_TaskPlan, OsRuntime,
        ArtifactRegistry, TraceRegistry, GitIntegration, ReleaseService,
        JsonFileStore, StateSources, CodeDelivery, Attempts,
        MC_IssueRounds

RunsAlike == Permutations(RunId)

\* A workflow is created in INTAKE or in a phase of a maintenance route.
MCInitialPhases == {"INTAKE", "PRODUCT_DESIGN", "TECHNICAL_DESIGN", "IMPLEMENTATION"}

\* Workflows of the runtime go back and forth between design and planning, and
\* through a pause.
Designing == {<<"TECHNICAL_DESIGN", "RUNNING">>}
DesignLoop ==
  {<<"TECHNICAL_DESIGN", "RUNNING">>, <<"TASK_PLANNING", "RUNNING">>, <<"TASK_PLANNING", "WAITING">>}
AcceptAndRelease == {"acceptance.recorded", "release.completed"}

\* The runtime with seven events in its store, those of the creation and of six
\* acceptances of one workflow: the numbers of the next go from one digit to two.
Early == CHOOSE w \in Workflow : TRUE
RuntimeUnderway ==
  LET creation == Change(NoTask, <<>>, <<"TECHNICAL_DESIGN", "RUNNING">>, 0)
  IN  /\ clock = 0
      /\ workflows = [w \in {Early} |->
                        [phase |-> "TECHNICAL_DESIGN", status |-> "RUNNING", version |-> 0]]
      /\ tasks = [w \in {Early} |-> <<>>]
      /\ gates = <<>>
      /\ log = [i \in 1..7 |->
                  IF i = 1 THEN Event(<<>>, Early, "workflow.created", creation)
                  ELSE Event([j \in 1..(i - 1) |-> j], Early, "acceptance.recorded", Nothing)]
      /\ inFlight = [w \in Workflow |-> [t \in Task |-> 0]]

SomeInput == [place |-> CHOOSE p \in Place : TRUE, branch |-> CHOOSE b \in Branch : TRUE,
              commits |-> 1, checks |-> 0, cleanupWorktree |-> FALSE]
SomePlan == [commands |-> [k \in Kind |-> 0], autoRollback |-> FALSE]
SomeMoments == CHOOSE m \in [Call -> Moment] :
                 \A n \in Moment : Cardinality({c \in Call : m[c] = n}) <= PerMoment

VARIABLE part  \* the part that is explored; the others keep one initial state

MCInit ==
  /\ part \in {"workflow", "locks", "plans", "runtime", "artifacts", "traces",
               "integration", "release", "store", "sources", "delivery",
               "attempts", "issues"}
  /\ part = "workflow" \/ (phase = "INTAKE" /\ status = "DRAFT")
  /\ part = "integration" \/ input = [i \in Integration |-> SomeInput]
  /\ part = "release" \/ plan = SomePlan
  /\ part = "store" \/ (moment = SomeMoments /\ immutable = {})
  /\ part = "sources" \/ (view = [s \in Source |-> "ready"] /\ taskTrees = {})
  /\ part = "issues" \/ loop = InPhase("TESTING")
  /\ WorkflowInit /\ LockInit /\ PlanInit
  /\ IF part = "runtime" THEN RuntimeUnderway ELSE Init
  /\ RegistryInit /\ TraceInit /\ IntegrationInit /\ ReleaseInit
  /\ StoreInit /\ SourcesInit /\ DeliveryInit /\ AttemptsInit
  /\ IssueInit
  /\ view["context"] = view["workflow"]  \* the markdown may disagree from the start

MCNext ==
  \/ /\ part = "workflow" /\ WorkflowNext
     /\ UNCHANGED <<part, lockVars, planVars, vars, registryVars, traceVars,
                   integrationVars, releaseVars, storeVars, sourceVars,
                   deliveryVars, attemptVars, issueVars>>
  \/ /\ part = "locks" /\ LockNext
     /\ UNCHANGED <<part, workflowVars, planVars, vars, registryVars,
                   traceVars, integrationVars, releaseVars, storeVars,
                   sourceVars, deliveryVars, attemptVars, issueVars>>
  \/ /\ part = "plans" /\ PlanNext
     /\ UNCHANGED <<part, workflowVars, lockVars, vars, registryVars,
                   traceVars, integrationVars, releaseVars, storeVars,
                   sourceVars, deliveryVars, attemptVars, issueVars>>
  \/ /\ part = "runtime" /\ Next
     /\ UNCHANGED <<part, workflowVars, lockVars, planVars, registryVars,
                   traceVars, integrationVars, releaseVars, storeVars,
                   sourceVars, deliveryVars, attemptVars, issueVars>>
  \/ /\ part = "artifacts" /\ RegistryNext
     /\ UNCHANGED <<part, workflowVars, lockVars, planVars, vars, traceVars,
                   integrationVars, releaseVars, storeVars, sourceVars,
                   deliveryVars, attemptVars, issueVars>>
  \/ /\ part = "traces" /\ TraceNext
     /\ UNCHANGED <<part, workflowVars, lockVars, planVars, vars,
                   registryVars, integrationVars, releaseVars, storeVars,
                   sourceVars, deliveryVars, attemptVars, issueVars>>
  \/ /\ part = "integration" /\ IntegrationNext
     /\ UNCHANGED <<part, workflowVars, lockVars, planVars, vars,
                   registryVars, traceVars, releaseVars, storeVars,
                   sourceVars, deliveryVars, attemptVars, issueVars>>
  \/ /\ part = "release" /\ ReleaseNext
     /\ UNCHANGED <<part, workflowVars, lockVars, planVars, vars,
                   registryVars, traceVars, integrationVars, storeVars,
                   sourceVars, deliveryVars, attemptVars, issueVars>>
  \/ /\ part = "store" /\ StoreNext
     /\ UNCHANGED <<part, workflowVars, lockVars, planVars, vars,
                   registryVars, traceVars, integrationVars, releaseVars,
                   sourceVars, deliveryVars, attemptVars, issueVars>>
  \/ /\ part = "sources" /\ SourcesNext
     /\ UNCHANGED <<part, workflowVars, lockVars, planVars, vars,
                   registryVars, traceVars, integrationVars, releaseVars,
                   storeVars, deliveryVars, attemptVars, issueVars>>
  \/ /\ part = "delivery" /\ DeliveryNext
     /\ UNCHANGED <<part, workflowVars, lockVars, planVars, vars,
                   registryVars, traceVars, integrationVars, releaseVars,
                   storeVars, sourceVars, attemptVars, issueVars>>
  \/ /\ part = "attempts" /\ AttemptsNext
     /\ UNCHANGED <<part, workflowVars, lockVars, planVars, vars,
                   registryVars, traceVars, integrationVars, releaseVars,
                   storeVars, sourceVars, deliveryVars, issueVars>>
  \/ /\ part = "issues" /\ IssueNext
     /\ UNCHANGED <<part, workflowVars, lockVars, planVars, vars,
                   registryVars, traceVars, integrationVars, releaseVars,
                   storeVars, sourceVars, deliveryVars, attemptVars>>

MCSpec ==
  MCInit /\ [][MCNext]_<<part, workflowVars, lockVars, planVars, vars,
                          registryVars, traceVars, integrationVars,
                          releaseVars, storeVars, sourceVars, deliveryVars,
                          attemptVars, issueVars>>
==============================================================================
