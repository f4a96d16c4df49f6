------------------------- MODULE ControlPlane_proofs -------------------------
(***************************************************************************)
(* Proofs about the state of the control plane: the workflow engine, for   *)
(* every set of initial phases up to IMPLEMENTATION, the lock manager, for *)
(* every finite set of resources, every set of owners and lease lengths,   *)
(* and the reconciliation of the state sources, for any runs and tasks.    *)
(***************************************************************************)
EXTENDS WorkflowEngine, LockManager, StateSources, FiniteSetTheorems, TLAPS

\* Every reachable pointer is a phase, a status and a natural version.
THEOREM WorkflowTyped == WorkflowSpec => []WorkflowTypeOK
<1>1. WorkflowInit => WorkflowTypeOK
  BY InitialPhasesAssumption DEF WorkflowInit, WorkflowTypeOK, Phase, Status
<1>2. WorkflowTypeOK /\ [WorkflowNext]_workflowVars => WorkflowTypeOK'
  BY DEF WorkflowTypeOK, WorkflowNext, workflowVars, TransitionWorkflow, PassedAfter
<1>3. QED
  BY <1>1, <1>2, PTL DEF WorkflowSpec

\* In every phase of the chain, the phases before it have been passed.
LEMMA ChainInvariant == WorkflowSpec => [](WorkflowTypeOK /\ ChainInv)
<1>1. WorkflowInit => ChainInv
  BY InitialPhasesAssumption DEF WorkflowInit, ChainInv, RequiredBefore
<1>2. WorkflowTypeOK /\ ChainInv /\ [WorkflowNext]_workflowVars => ChainInv'
  <2> SUFFICES ASSUME WorkflowTypeOK, ChainInv, [WorkflowNext]_workflowVars
               PROVE  ChainInv'
    OBVIOUS
  <2>1. CASE UNCHANGED workflowVars
    BY <2>1 DEF workflowVars, ChainInv
  <2>2. ASSUME NEW toPhase \in Phase, NEW toStatus \in Status,
               TransitionWorkflow(toPhase, toStatus)
        PROVE  ChainInv'
    <3>1. CASE toPhase = phase
      BY <2>2, <3>1 DEF TransitionWorkflow, PassedAfter, ChainInv
    <3>2. CASE toPhase # phase /\ toPhase = "IMPLEMENTATION"
      BY <2>2, <3>2 DEF TransitionWorkflow, ChainInv, RequiredBefore
    <3>3. CASE toPhase # phase /\ toPhase # "IMPLEMENTATION"
      <4>1. /\ phase' = toPhase
            /\ passed' = passed \union {toPhase}
            /\ toPhase \in PhaseTransitions[phase]
        BY <2>2, <3>3 DEF TransitionWorkflow, PassedAfter, TransitionAllowed
      <4>2. RequiredBefore(toPhase) \subseteq RequiredBefore(phase) \union {toPhase}
        BY <4>1, <3>3 DEF WorkflowTypeOK, Phase, PhaseTransitions, RequiredBefore,
           VerificationPhases
      <4>3. QED
        BY <4>1, <4>2 DEF ChainInv
    <3>4. QED
      BY <3>1, <3>2, <3>3
  <2>3. QED
    BY <2>1, <2>2 DEF WorkflowNext
<1>3. QED
  BY WorkflowTyped, <1>1, <1>2, PTL DEF WorkflowSpec

\* Nothing is released without review, integration, system test and both
\* acceptances after its last implementation.
THEOREM ReleaseIsVerified == WorkflowSpec => []ReleasedOnlyVerified
<1>1. WorkflowTypeOK /\ ChainInv => ReleasedOnlyVerified
  BY DEF ChainInv, RequiredBefore, ReleasedOnlyVerified, DeliveredPhases
<1>2. QED
  BY ChainInvariant, <1>1, PTL

\* The ARCHIVED phase is entered, and stayed in, with the ARCHIVED status only.
THEOREM ArchivedPhaseClosed == WorkflowSpec => []ArchivedPhaseIsClosed
<1>1. WorkflowInit => ArchivedPhaseIsClosed
  BY InitialPhasesAssumption DEF WorkflowInit, ArchivedPhaseIsClosed
<1>2. ArchivedPhaseIsClosed /\ [WorkflowNext]_workflowVars => ArchivedPhaseIsClosed'
  BY DEF ArchivedPhaseIsClosed, WorkflowNext, workflowVars, TransitionWorkflow, TransitionAllowed
<1>3. QED
  BY <1>1, <1>2, PTL DEF WorkflowSpec

\* No step revives a completed, cancelled or archived workflow.
THEOREM ClosedStaysClosed == WorkflowSpec => ClosedIsForever
<1>1. [WorkflowNext]_workflowVars => [KeepsClosed]_workflowVars
  BY DEF WorkflowNext, workflowVars, TransitionWorkflow, TransitionAllowed, KeepsClosed,
         ClosedStatuses, StatusTransitions, EntryStatuses
<1>2. QED
  BY <1>1, PTL DEF WorkflowSpec, ClosedIsForever

------------------------------------------------------------------------------
\* What the table operators return: a table.
LEMMA TableTypes ==
  ASSUME NEW table \in LockTableType, NEW o \in Owner, NEW chosen \in SUBSET Resource,
         NEW t \in Nat, NEW leaseMs \in Nat
  PROVE  /\ Reaped(table, t) \in LockTableType
         /\ Acquired(table, o, chosen, t, leaseMs) \in LockTableType
         /\ Extended(table, o, chosen, t, leaseMs) \in LockTableType
         /\ Released(table, o, chosen) \in LockTableType
<1>1. ASSUME NEW other \in LockTableType, NEW until \in Nat, NEW some \in SUBSET Resource
      PROVE  Granted(other, o, some, until) \in LockTableType
  BY <1>1 DEF Granted, LockTableType, Lease
<1>2. Reaped(table, t) \in LockTableType
  BY DEF Reaped, LockTableType
<1>3. t + leaseMs \in Nat
  OBVIOUS
<1>4. Acquired(table, o, chosen, t, leaseMs) \in LockTableType
  BY <1>1, <1>2, <1>3 DEF Acquired
<1>5. Extended(table, o, chosen, t, leaseMs) \in LockTableType
  <2> DEFINE held == {r \in chosen : Holds(Reaped(table, t), o, r)}
  <2>1. held \in SUBSET Resource
    OBVIOUS
  <2>2. Granted(Reaped(table, t), o, held, t + leaseMs) \in LockTableType
    BY <1>1, <1>2, <1>3, <2>1
  <2>3. QED
    BY <2>2 DEF Extended
<1>6. Released(table, o, chosen) \in LockTableType
  BY DEF Released, LockTableType
<1>7. QED
  BY <1>2, <1>4, <1>5, <1>6

\* The number of resources newly leased by an acquire is a natural number.
LEMMA NewLeasesCounted ==
  ASSUME NEW new \in SUBSET Resource
  PROVE  Cardinality(new) \in Nat
BY ResourceAssumption, FS_Subset, FS_CardinalityType

\* Every reachable state has the types the manager's fields declare.
THEOREM LocksTyped == LockSpec => []LocksTypeOK
<1>1. LockInit => LocksTypeOK
  BY DEF LockInit, LocksTypeOK, EmptyTable, LockTableType
<1>2. LocksTypeOK /\ [LockNext]_lockVars => LocksTypeOK'
  <2> SUFFICES ASSUME LocksTypeOK, [LockNext]_lockVars
               PROVE  LocksTypeOK'
    OBVIOUS
  <2> USE LeaseLengthsAssumption
  <2>1. ASSUME NEW o \in Owner, NEW chosen \in SUBSET Resource, NEW leaseMs \in LeaseLengths,
               AcquireGranted(o, chosen, leaseMs)
        PROVE  LocksTypeOK'
    <3> DEFINE new == {r \in chosen : Reaped(locks, now)[r] = NoLock}
    <3>1. Cardinality(new) \in Nat
      BY NewLeasesCounted
    <3>2. locks' \in LockTableType /\ now' \in Nat
      BY <2>1, TableTypes DEF AcquireGranted, LocksTypeOK
    <3>3. told' \in [Owner -> [Resource -> Nat]]
      BY <2>1 DEF AcquireGranted, LocksTypeOK, Tell
    <3>4. PICK f \in FreshIds(new) :
             /\ leaseId' = [r \in Resource |-> IF r \in new THEN f[r] ELSE leaseId[r]]
             /\ issued' = issued \union {[id |-> f[r], owner |-> o, resource |-> r] : r \in new}
      BY <2>1 DEF AcquireGranted
    <3>5. \A r \in new : f[r] \in Nat
      BY <3>1, <3>4 DEF FreshIds, LocksTypeOK
    <3>6. leaseId' \in [Resource -> Nat] /\ issued' \subseteq Holding
      BY <3>4, <3>5 DEF LocksTypeOK, Holding
    <3>7. lastLease' \in Nat
      BY <2>1, <3>1 DEF AcquireGranted, LocksTypeOK
    <3>8. QED
      BY <3>2, <3>3, <3>6, <3>7 DEF LocksTypeOK
  <2>2. ASSUME NEW o \in Owner, NEW chosen \in SUBSET Resource, NEW leaseMs \in LeaseLengths,
               AcquireRefused(o, chosen, leaseMs)
        PROVE  LocksTypeOK'
    BY <2>2, TableTypes DEF AcquireRefused, LocksTypeOK
  <2>3. ASSUME NEW o \in Owner, NEW chosen \in SUBSET Resource, NEW leaseMs \in LeaseLengths,
               Heartbeat(o, chosen, leaseMs)
        PROVE  LocksTypeOK'
    <3>1. locks' \in LockTableType
      BY <2>3, TableTypes DEF Heartbeat, LocksTypeOK
    <3>2. told' \in [Owner -> [Resource -> Nat]]
      BY <2>3 DEF Heartbeat, LocksTypeOK, Tell
    <3>3. QED
      BY <2>3, <3>1, <3>2 DEF Heartbeat, LocksTypeOK
  <2>4. ASSUME NEW o \in Owner, NEW chosen \in SUBSET Resource, Release(o, chosen)
        PROVE  LocksTypeOK'
    <3>1. locks' \in LockTableType
      BY <2>4, TableTypes DEF Release, LocksTypeOK
    <3>2. QED
      BY <2>4, <3>1 DEF Release, LocksTypeOK, Tell
  <2>5. CASE ReapExpired
    <3>1. locks' \in LockTableType
      BY <2>5 DEF ReapExpired, LocksTypeOK, Reaped, LockTableType
    <3>2. QED
      BY <2>5, <3>1 DEF ReapExpired, LocksTypeOK
  <2>6. CASE LockTick
    BY <2>6 DEF LockTick, LocksTypeOK
  <2>7. CASE UNCHANGED lockVars
    BY <2>7 DEF lockVars, LocksTypeOK
  <2>8. QED
    BY <2>1, <2>2, <2>3, <2>4, <2>5, <2>6, <2>7 DEF LockNext
<1>3. QED
  BY <1>1, <1>2, PTL DEF LockSpec

\* A client's unexpired lease is on the table, whatever the others do.
THEOREM TrustIsJustified == LockSpec => []ToldIsHeld
<1>1. LockInit => ToldIsHeld
  BY DEF LockInit, ToldIsHeld
<1>2. LocksTypeOK /\ ToldIsHeld /\ [LockNext]_lockVars => ToldIsHeld'
  <2> SUFFICES ASSUME LocksTypeOK, ToldIsHeld, [LockNext]_lockVars,
                      NEW p \in Owner, NEW r \in Resource, told'[p][r] > now'
               PROVE  Holds(locks', p, r) /\ locks'[r].leaseUntil = told'[p][r]
    BY DEF ToldIsHeld
  <2> USE LeaseLengthsAssumption
  <2>0. told[p][r] > now => /\ Holds(locks, p, r) /\ locks[r].leaseUntil = told[p][r]
                            /\ Reaped(locks, now)[r] = locks[r]
    BY DEF ToldIsHeld, Reaped, Holds, LocksTypeOK, LockTableType, Lease
  <2>1. ASSUME NEW o \in Owner, NEW chosen \in SUBSET Resource, NEW leaseMs \in LeaseLengths,
               AcquireGranted(o, chosen, leaseMs)
        PROVE  Holds(locks', p, r) /\ locks'[r].leaseUntil = told'[p][r]
    <3>1. locks' = Granted(Reaped(locks, now), o, chosen, now + leaseMs)
      BY <2>1 DEF AcquireGranted, Acquired
    <3>2. CASE p = o /\ r \in chosen
      BY <2>1, <3>1, <3>2, NoLockAssumption
         DEF AcquireGranted, Granted, Holds, Tell, LocksTypeOK, Lease
    <3>3. CASE ~(p = o /\ r \in chosen)
      <4>1. told'[p][r] = told[p][r] /\ told[p][r] > now
        BY <2>1, <3>3 DEF AcquireGranted, Tell, LocksTypeOK
      <4>2. r \notin chosen
        BY <2>0, <2>1, <3>3, <4>1 DEF AcquireGranted, CanAcquire, Conflicts, Holds
      <4>3. QED
        BY <2>0, <3>1, <4>1, <4>2 DEF Granted, Holds
    <3>4. QED
      BY <3>2, <3>3
  <2>2. ASSUME NEW o \in Owner, NEW chosen \in SUBSET Resource, NEW leaseMs \in LeaseLengths,
               AcquireRefused(o, chosen, leaseMs)
        PROVE  Holds(locks', p, r) /\ locks'[r].leaseUntil = told'[p][r]
    BY <2>0, <2>2 DEF AcquireRefused, Acquired, Holds
  <2>3. ASSUME NEW o \in Owner, NEW chosen \in SUBSET Resource, NEW leaseMs \in LeaseLengths,
               Heartbeat(o, chosen, leaseMs)
        PROVE  Holds(locks', p, r) /\ locks'[r].leaseUntil = told'[p][r]
    <3> DEFINE live == Reaped(locks, now)
               held == {s \in chosen : Holds(live, o, s)}
    <3>1. locks' = Granted(live, o, held, now + leaseMs)
      BY <2>3 DEF Heartbeat, Extended
    <3>2. CASE p = o /\ r \in held
      <4>1. locks'[r] = [owner |-> o, leaseUntil |-> now + leaseMs]
        BY <3>1, <3>2 DEF Granted
      <4>2. told'[p][r] = now + leaseMs
        BY <2>3, <3>2 DEF Heartbeat, Tell, LocksTypeOK
      <4>3. locks'[r] \in Lease
        BY <4>1 DEF Lease, LocksTypeOK
      <4>4. QED
        BY <3>2, <4>1, <4>2, <4>3, NoLockAssumption DEF Holds
    <3>3. CASE ~(p = o /\ r \in held)
      <4>1. told'[p][r] = told[p][r] /\ told[p][r] > now
        BY <2>3, <3>3 DEF Heartbeat, Tell, LocksTypeOK
      <4>2. r \notin held
        BY <2>0, <3>3, <4>1 DEF Holds
      <4>3. QED
        BY <2>0, <3>1, <4>1, <4>2 DEF Granted, Holds
    <3>4. QED
      BY <3>2, <3>3
  <2>4. ASSUME NEW o \in Owner, NEW chosen \in SUBSET Resource, Release(o, chosen)
        PROVE  Holds(locks', p, r) /\ locks'[r].leaseUntil = told'[p][r]
    BY <2>0, <2>4 DEF Release, Released, Holds, Tell, LocksTypeOK
  <2>5. CASE ReapExpired
    BY <2>0, <2>5 DEF ReapExpired, Holds
  <2>6. CASE LockTick
    BY <2>0, <2>6 DEF LockTick, Holds, LocksTypeOK
  <2>7. CASE UNCHANGED lockVars
    BY <2>0, <2>7 DEF lockVars, Holds
  <2>8. QED
    BY <2>1, <2>2, <2>3, <2>4, <2>5, <2>6, <2>7 DEF LockNext
<1>3. QED
  BY LocksTyped, <1>1, <1>2, PTL DEF LockSpec

\* Mutual exclusion of the leases clients trust.
THEOREM TrustIsExclusive == LockSpec => []NoOverlappingTrust
<1>1. ToldIsHeld => NoOverlappingTrust
  BY DEF ToldIsHeld, NoOverlappingTrust, Holds
<1>2. QED
  BY TrustIsJustified, <1>1, PTL

\* Lease ids are fencing tokens: no id is issued for two holdings.
THEOREM LeaseIdsAreUnique == LockSpec => []LeaseIdNamesOneHolding
<1> DEFINE IInv == LeaseIdNamesOneHolding /\ IssuedBelowCounter
<1>1. LockInit => IInv
  BY DEF LockInit, LeaseIdNamesOneHolding, IssuedBelowCounter
<1>2. LocksTypeOK /\ IInv /\ [LockNext]_lockVars => IInv'
  <2> SUFFICES ASSUME LocksTypeOK, LeaseIdNamesOneHolding, IssuedBelowCounter, [LockNext]_lockVars
               PROVE  IInv'
    OBVIOUS
  <2>1. ASSUME NEW o \in Owner, NEW chosen \in SUBSET Resource, NEW leaseMs \in LeaseLengths,
               AcquireGranted(o, chosen, leaseMs)
        PROVE  IInv'
    <3> DEFINE new == {r \in chosen : Reaped(locks, now)[r] = NoLock}
               added(f) == {[id |-> f[r], owner |-> o, resource |-> r] : r \in new}
    <3>1. Cardinality(new) \in Nat /\ lastLease' = lastLease + Cardinality(new)
      BY <2>1, NewLeasesCounted DEF AcquireGranted
    <3>2. PICK f \in FreshIds(new) : issued' = issued \union added(f)
      BY <2>1 DEF AcquireGranted
    <3>3. \A a \in added(f) : a.id > lastLease /\ a.id <= lastLease'
      BY <3>1, <3>2 DEF FreshIds, LocksTypeOK
    <3>4. \A a \in issued : a.id <= lastLease /\ a.id \in Nat
      BY DEF IssuedBelowCounter, LocksTypeOK, Holding
    <3>5. \A a, b \in added(f) : a.id = b.id => a = b
      BY <3>2 DEF FreshIds
    <3>6. LeaseIdNamesOneHolding'
      <4> SUFFICES ASSUME NEW a \in issued', NEW b \in issued', a.id = b.id
                   PROVE  a = b
        BY DEF LeaseIdNamesOneHolding
      <4>1. CASE a \in issued /\ b \in issued
        BY <4>1 DEF LeaseIdNamesOneHolding
      <4>2. CASE a \in added(f) /\ b \in added(f)
        BY <3>5, <4>2
      <4>3. CASE a \in added(f) /\ b \in issued
        BY <3>3, <3>4, <4>3 DEF LocksTypeOK
      <4>4. CASE a \in issued /\ b \in added(f)
        BY <3>3, <3>4, <4>4 DEF LocksTypeOK
      <4>5. QED
        BY <3>2, <4>1, <4>2, <4>3, <4>4
    <3>7. IssuedBelowCounter'
      BY <3>1, <3>2, <3>3, <3>4 DEF IssuedBelowCounter, LocksTypeOK
    <3>8. QED
      BY <3>6, <3>7
  <2>2. CASE UNCHANGED <<issued, lastLease>>
    BY <2>2 DEF LeaseIdNamesOneHolding, IssuedBelowCounter
  <2>3. QED
    BY <2>1, <2>2 DEF LockNext, AcquireRefused, Heartbeat, Release, ReapExpired, LockTick,
       lockVars
<1>3. QED
  BY LocksTyped, <1>1, <1>2, PTL DEF LockSpec

------------------------------------------------------------------------------
\* The commands of a reconciliation by what they do.
Archiving == {"archiveRun", "archiveTasks", "archiveEvents"}
Blocking == {"blockWorkflow", "blockContext", "blockMarkdown"}
Reopening == {"readyWorkflow", "readyContext", "readyMarkdown"}

\* What a reconciliation still has to clear it has kept.
KeptBeforeCleared ==
  /\ command \in {"archiveTasks", "archiveEvents", "idleRun"} \cup Blocking => Kept("run", run)
  /\ command \in {"archiveEvents", "idleRun", "idleTasks"} \cup Blocking => Kept("tasks", listed)
  /\ command \in {"idleRun", "idleTasks", "idleEvents"} \cup Blocking => Kept("events", events)

\* What orchestrate goes on from: its run, and the pointer it wrote.
RunUnderway ==
  /\ command \in {"startRun", "startTasks", "startEvents", "execute", "finishRun"} => doing \in Lists
  /\ command \in {"startTasks", "startEvents", "execute", "finishRun"} => run \in Runs

\* The workflow is blocked before a pointer is cleared, and stays so until the
\* tasks are.
ClearedIsBlocked ==
  /\ command \in {"blockContext", "blockMarkdown", "idleRun", "idleTasks"} =>
       view["workflow"] = "blocked"
  /\ command \in {"idleEvents", "clean", "check"} \cup Reopening => listed = Idle
  /\ run = Idle /\ listed \in Lists => view["workflow"] \in {"blocked", Torn}

\* The inductive invariant of the state sources.
SourcesInv == SourcesTypeOK /\ KeptBeforeCleared /\ RunUnderway /\ ClearedIsBlocked

\* Every write, every crash and every deletion preserves it.
LEMMA SourcesStep == SourcesInv /\ [SourcesNext]_sourceVars => SourcesInv'
<1> SUFFICES ASSUME SourcesInv, [SourcesNext]_sourceVars
             PROVE  SourcesInv'
  OBVIOUS
<1> USE PointerAssumption DEF SourcesInv, SourcesTypeOK, KeptBeforeCleared, RunUnderway,
        ClearedIsBlocked, Archiving, Blocking, Reopening, Source, View, After, Kept
<1>1. CASE Reconcile
  BY <1>1 DEF Reconcile
<1>2. CASE ArchivePointer
  BY <1>2 DEF ArchivePointer, Goes, Copy, RunOf
<1>3. CASE WriteSource
  BY <1>3 DEF WriteSource, Goes, WriteView
<1>4. CASE WriteIdle
  BY <1>4 DEF WriteIdle, Goes
<1>5. CASE CleanUp
  BY <1>5 DEF CleanUp, Goes, Orphans
<1>6. CASE Check
  BY <1>6 DEF Check
<1>7. ASSUME NEW r \in RunId, NEW tasks \in SUBSET TaskName, Orchestrate(r, tasks)
      PROVE SourcesInv'
  BY <1>7 DEF Orchestrate, Lists
<1>8. CASE StartRun
  <2>1. CASE command = "startRun"
    <3>3. run' = [id |-> doing.id, phase |-> PhaseOf(view["workflow"]), ended |-> FALSE]
      BY <1>8, <2>1 DEF StartRun, Goes
    <3>4. doing \in Lists
      BY <2>1
    <3>5. doing.id \in RunId
      BY <3>4 DEF Lists
    <3>6. PhaseOf(view["workflow"]) \in {"INTAKE", "IMPLEMENTATION"}
      BY DEF PhaseOf
    <3>1. run' \in Runs
      BY <3>3, <3>5, <3>6 DEF Runs
    <3>2. QED
      BY <1>8, <2>1, <3>1 DEF StartRun, Goes
  <2>2. CASE command = "startTasks"
    BY <1>8, <2>2 DEF StartRun, Goes
  <2>3. CASE command = "startEvents"
    BY <1>8, <2>3 DEF StartRun, Goes, Lists
  <2>4. QED
    BY <1>8, <2>1, <2>2, <2>3 DEF StartRun, Goes
<1>9. ASSUME NEW t \in TaskName, ExecuteTask(t) PROVE SourcesInv'
  BY <1>9 DEF ExecuteTask, Lists
<1>10. CASE TasksDone
  BY <1>10 DEF TasksDone
<1>11. CASE FinishRun
  BY <1>11 DEF FinishRun, Goes, Runs
<1>12. CASE Crash
  BY <1>12 DEF Crash, Tear
<1>13. ASSUME NEW t \in TaskName, DeleteDirectory(t) PROVE SourcesInv'
  BY <1>13 DEF DeleteDirectory
<1>14. CASE UNCHANGED sourceVars
  BY <1>14 DEF sourceVars, RunOf
<1> QED BY <1>1, <1>2, <1>3, <1>4, <1>5, <1>6, <1>7, <1>8, <1>9, <1>10, <1>11, <1>12, <1>13,
           <1>14 DEF SourcesNext

\* With it, what the workflow file says of the pointers can be trusted.
LEMMA ReadyFollows == SourcesInv => ReadyIsSettled
BY DEF SourcesInv, ClearedIsBlocked, ReadyIsSettled, SplitDetected, Source

\* The step PointersPreserved speaks of.
ClearsKept == command \notin {"startRun", "startTasks", "startEvents", "execute", "finishRun"} =>
       /\ Clears(run, run') => Kept("run", run)
       /\ Clears(listed, listed') => Kept("tasks", listed)
       /\ Clears(events, events') => Kept("events", events)
\* Only what was kept is cleared: by reconciliation, and by nothing but it.
LEMMA PointersStep == SourcesInv /\ [SourcesNext]_sourceVars => ClearsKept
<1> SUFFICES ASSUME SourcesInv, [SourcesNext]_sourceVars
             PROVE  ClearsKept
  OBVIOUS
<1> USE DEF SourcesInv, KeptBeforeCleared, ClearsKept, Clears, Kept, After, Blocking
<1>1. CASE Crash
  BY <1>1 DEF Crash, Tear
<1>2. CASE WriteIdle
  BY <1>2 DEF WriteIdle, Goes
<1>3. CASE StartRun
  BY <1>3 DEF StartRun, Goes
<1>4. CASE FinishRun
  BY <1>4 DEF FinishRun, Goes
<1> QED BY <1>1, <1>2, <1>3, <1>4 DEF SourcesNext, sourceVars, Reconcile, ArchivePointer,
           WriteSource, CleanUp, Check, Orchestrate, TasksDone, ExecuteTask, DeleteDirectory

\* The invariant holds from the start on.
LEMMA SourcesInvariant == SourcesSpec => []SourcesInv
<1>1. SourcesInit => SourcesInv
  BY PointerAssumption
  DEF SourcesInit, SourcesInv, SourcesTypeOK, KeptBeforeCleared, RunUnderway, ClearedIsBlocked,
      After, Blocking, Reopening, Source, View
<1> QED
  BY <1>1, SourcesStep, PTL DEF SourcesSpec

\* A reconciliation that was killed half way is never taken for done.
THEOREM ReadyMeansSettled == SourcesSpec => []ReadyIsSettled
BY SourcesInvariant, ReadyFollows, PTL

\* No pointer is cleared of which no copy was archived, wherever commands were
\* killed before.
THEOREM PointersArePreserved == SourcesSpec => PointersPreserved
<1>1. SourcesInv /\ [SourcesNext]_sourceVars => [ClearsKept]_sourceVars
  BY PointersStep
<1> QED
  BY <1>1, SourcesInvariant, PTL DEF SourcesSpec, PointersPreserved, ClearsKept
==============================================================================
