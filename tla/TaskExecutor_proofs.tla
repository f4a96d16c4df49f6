------------------------- MODULE TaskExecutor_proofs -------------------------
(***************************************************************************)
(* Proofs about TaskExecutor, for every set of calls, owners and           *)
(* resources and every choice of lease length, heartbeat period and        *)
(* bounds, under the three conditions on callers and environment that      *)
(* TaskExecutor names.                                                     *)
(***************************************************************************)
EXTENDS TaskExecutor, TLAPS

USE ExecutorAssumption

\* What the table operators return: a table.
LEMMA TableTypes ==
  ASSUME NEW table \in LockTableType, NEW o \in Owner, NEW chosen \in SUBSET Resource,
         NEW t \in Nat
  PROVE  /\ Reaped(table, t) \in LockTableType
         /\ Acquired(table, o, chosen, t, LeaseMs) \in LockTableType
         /\ Extended(table, o, chosen, t, LeaseMs) \in LockTableType
         /\ Released(table, o, chosen) \in LockTableType
<1>1. ASSUME NEW other \in LockTableType, NEW some \in SUBSET Resource
      PROVE  Granted(other, o, some, t + LeaseMs) \in LockTableType
  BY <1>1 DEF Granted, LockTableType, Lease
<1>2. Reaped(table, t) \in LockTableType
  BY DEF Reaped, LockTableType
<1>3. Acquired(table, o, chosen, t, LeaseMs) \in LockTableType
  BY <1>1, <1>2 DEF Acquired
<1>4. Extended(table, o, chosen, t, LeaseMs) \in LockTableType
  <2> DEFINE held == {r \in chosen : Holds(Reaped(table, t), o, r)}
  <2>1. held \in SUBSET Resource
    OBVIOUS
  <2>2. Granted(Reaped(table, t), o, held, t + LeaseMs) \in LockTableType
    BY <1>1, <1>2, <2>1
  <2>3. QED
    BY <2>2 DEF Extended
<1>5. Released(table, o, chosen) \in LockTableType
  BY DEF Released, LockTableType
<1>6. QED
  BY <1>2, <1>3, <1>4, <1>5

\* No heartbeat or release of another owner, and no reaping, touches a live lease.
LEMMA LiveLeaseIsLeftAlone ==
  ASSUME NEW table \in LockTableType, NEW o \in Owner, NEW p \in Owner, o # p,
         NEW chosen \in SUBSET Resource, NEW t \in Nat, NEW r \in Resource,
         Holds(table, p, r), table[r].leaseUntil > t
  PROVE  /\ Reaped(table, t)[r] = table[r]
         /\ Extended(table, o, chosen, t, LeaseMs)[r] = table[r]
         /\ Released(table, o, chosen)[r] = table[r]
<1>1. Reaped(table, t)[r] = table[r]
  BY DEF Reaped, Holds, LockTableType, Lease
<1>2. Extended(table, o, chosen, t, LeaseMs)[r] = table[r]
  <2>1. ~Holds(Reaped(table, t), o, r)
    BY <1>1 DEF Holds
  <2>2. QED
    BY <1>1, <2>1 DEF Extended, Granted
<1>3. Released(table, o, chosen)[r] = table[r]
  BY DEF Released, Holds
<1>4. QED
  BY <1>1, <1>2, <1>3

\* An owner that holds a live lease and heartbeats has it extended.
LEMMA HeartbeatExtends ==
  ASSUME NEW table \in LockTableType, NEW o \in Owner, NEW t \in Nat, NEW r \in Resource,
         Holds(table, o, r), table[r].leaseUntil > t
  PROVE  /\ Holds(Extended(table, o, Resource, t, LeaseMs), o, r)
         /\ Extended(table, o, Resource, t, LeaseMs)[r].leaseUntil = t + LeaseMs
<1>1. Reaped(table, t)[r] = table[r]
  BY DEF Reaped, Holds, LockTableType, Lease
<1>2. Extended(table, o, Resource, t, LeaseMs)[r] = [owner |-> o, leaseUntil |-> t + LeaseMs]
  BY <1>1 DEF Extended, Granted, Holds
<1>3. [owner |-> o, leaseUntil |-> t + LeaseMs] \in Lease
  BY DEF Lease
<1>4. QED
  BY <1>2, <1>3, NoLockAssumption DEF Holds

\* A granted request is on the table with the full lease.
LEMMA AcquireGrants ==
  ASSUME NEW table \in LockTableType, NEW o \in Owner, NEW chosen \in SUBSET Resource,
         NEW t \in Nat, CanAcquire(table, o, chosen, t), NEW r \in chosen
  PROVE  /\ Holds(Acquired(table, o, chosen, t, LeaseMs), o, r)
         /\ Acquired(table, o, chosen, t, LeaseMs)[r].leaseUntil = t + LeaseMs
<1>1. Acquired(table, o, chosen, t, LeaseMs)[r] = [owner |-> o, leaseUntil |-> t + LeaseMs]
  BY DEF Acquired, Granted
<1>2. [owner |-> o, leaseUntil |-> t + LeaseMs] \in Lease
  BY DEF Lease
<1>3. QED
  BY <1>1, <1>2, NoLockAssumption DEF Holds

\* Every reachable state of the executor has the declared types.
THEOREM TypeCorrect == Spec => []TypeOK
<1>1. Init => TypeOK
  BY DEF Init, TypeOK, EmptyTable, LockTableType, Stage, WorkspaceStatus, SessionStatus,
     RunOutcome
<1>2. TypeOK /\ [Next]_vars => TypeOK'
  <2> SUFFICES ASSUME TypeOK, [Next]_vars
               PROVE  TypeOK'
    OBVIOUS
  <2>1. ASSUME NEW e \in Exec, Reject(e)
        PROVE  TypeOK'
    BY <2>1 DEF TypeOK, GoTo, Reject, Stage
  <2>2. ASSUME NEW e \in Exec, RefuseLocked(e)
        PROVE  TypeOK'
    BY <2>2, TableTypes DEF TypeOK, GoTo, RefuseLocked, Stage, RunOutcome
  <2>3. ASSUME NEW e \in Exec, Start(e)
        PROVE  TypeOK'
    BY <2>3, TableTypes DEF TypeOK, GoTo, Start, TakeLocks, Stage, WorkspaceStatus
  <2>4. ASSUME NEW e \in Exec, StartWithoutProvider(e)
        PROVE  TypeOK'
    BY <2>4, TableTypes DEF TypeOK, GoTo, StartWithoutProvider, TakeLocks, Stage, RunOutcome
  <2>5. ASSUME NEW e \in Exec, Heartbeat(e)
        PROVE  TypeOK'
    <3>1. locks' \in LockTableType
      BY <2>5, TableTypes DEF TypeOK, GoTo, Heartbeat
    <3>2. session' \in [Exec -> SessionStatus]
      BY <2>5 DEF TypeOK, Heartbeat, SessionStatus
    <3>3. nextBeat' \in [Exec -> Nat]
      BY <2>5 DEF TypeOK, Heartbeat, TimerFires
    <3>4. QED
      BY <2>5, <3>1, <3>2, <3>3 DEF TypeOK, Heartbeat
  <2>6. ASSUME NEW e \in Exec, HeartbeatFails(e)
        PROVE  TypeOK'
    BY <2>6 DEF TypeOK, GoTo, HeartbeatFails, TimerFires
  <2>7. ASSUME NEW e \in Exec, CreateFails(e)
        PROVE  TypeOK'
    BY <2>7 DEF TypeOK, GoTo, CreateFails, Stage, RunOutcome, WorkspaceStatus
  <2>8. ASSUME NEW e \in Exec, NEW s \in Exec, BeginRun(e, s)
        PROVE  TypeOK'
    BY <2>8 DEF TypeOK, GoTo, BeginRun, Stage, WorkspaceStatus, SessionStatus
  <2>9. ASSUME NEW e \in Exec, NEW s \in Exec, ResumeFails(e, s)
        PROVE  TypeOK'
    BY <2>9 DEF TypeOK, GoTo, ResumeFails, Stage, WorkspaceStatus, RunOutcome
  <2>10. ASSUME NEW e \in Exec, NEW o \in RunOutcome, RunnerSettles(e, o)
         PROVE  TypeOK'
    BY <2>10 DEF TypeOK, GoTo, RunnerSettles, Stage
  <2>11. ASSUME NEW e \in Exec, ResultUnreadable(e)
         PROVE  TypeOK'
    BY <2>11 DEF TypeOK, GoTo, ResultUnreadable, Stage
  <2>12. ASSUME NEW e \in Exec, NEW valid \in BOOLEAN, NEW retain \in BOOLEAN,
                NEW close \in {FALSE, CloseAllowed}, BeginRelease(e, valid, close, retain)
         PROVE  TypeOK'
    <3>1. session' \in [Exec -> SessionStatus]
      BY <2>12 DEF TypeOK, GoTo, BeginRelease, SettleSession, SessionStatus
    <3>2. QED
      BY <2>12, <3>1 DEF TypeOK, GoTo, BeginRelease, RunStatusAfter, Stage, WorkspaceStatus,
         RunOutcome
  <2>13. ASSUME NEW e \in Exec, NEW valid \in BOOLEAN, NEW retain \in BOOLEAN,
                NEW close \in {FALSE, CloseAllowed}, EndWithoutRelease(e, valid, close, retain)
         PROVE  TypeOK'
    <3>1. session' \in [Exec -> SessionStatus]
      BY <2>13 DEF TypeOK, GoTo, EndWithoutRelease, SettleSession, SessionStatus
    <3>2. locks' \in LockTableType
      BY <2>13, TableTypes DEF TypeOK, GoTo, EndWithoutRelease, ReleaseLocks
    <3>3. QED
      BY <2>13, <3>1, <3>2 DEF TypeOK, GoTo, EndWithoutRelease, RunStatusAfter, Stage,
         WorkspaceStatus, RunOutcome
  <2>14. ASSUME NEW e \in Exec, EndRelease(e)
         PROVE  TypeOK'
    <3>1. locks' \in LockTableType
      BY <2>14, TableTypes DEF TypeOK, GoTo, EndRelease, ReleaseLocks
    <3>2. QED
      BY <2>14, <3>1 DEF TypeOK, GoTo, EndRelease, Stage, WorkspaceStatus
  <2>15. ASSUME NEW e \in Exec, ReleaseFails(e)
         PROVE  TypeOK'
    <3>1. locks' \in LockTableType
      BY <2>15, TableTypes DEF TypeOK, GoTo, ReleaseFails, ReleaseLocks
    <3>2. QED
      BY <2>15, <3>1 DEF TypeOK, GoTo, ReleaseFails, Stage, WorkspaceStatus, RunOutcome
  <2>16. CASE ReapExpired
    <3>1. locks' \in LockTableType
      BY <2>16 DEF TypeOK, GoTo, ReapExpired, Reaped, LockTableType
    <3>2. QED
      BY <2>16, <3>1 DEF TypeOK, GoTo, ReapExpired
  <2>17. CASE Tick
    BY <2>17 DEF TypeOK, GoTo, Tick
  <2>18. CASE UNCHANGED vars
    BY <2>18 DEF TypeOK, GoTo, vars
  <2>19. ASSUME NEW e \in Exec, Proceed(e)
         PROVE  TypeOK'
    BY <2>7, <2>8, <2>9, <2>10, <2>11, <2>12, <2>13, <2>14, <2>15, <2>19 DEF Proceed
  <2>20. QED
    BY <2>1, <2>2, <2>3, <2>4, <2>5, <2>6, <2>16, <2>17, <2>18, <2>19 DEF Next
<1>3. QED
  BY <1>1, <1>2, PTL DEF Spec

-----------------------------------------------------------------------------

\* Under NoCloseUnderReuse no session a running call uses is closed under it:
\* SessionsApart is kept by every step.
LEMMA SessionsStayApart ==
  ASSUME TypeOK, SessionsApart, [Next]_vars
  PROVE  SessionsApart'
<1>1. ASSUME NEW e \in Exec, NEW s \in Exec, BeginRun(e, s)
      PROVE  SessionsApart'
  BY <1>1 DEF SessionsApart, BeginRun, Wanted, TypeOK
<1>2. ASSUME NEW e \in Exec, Heartbeat(e)
      PROVE  SessionsApart'
  BY <1>2 DEF SessionsApart, Heartbeat, TypeOK
<1>3. ASSUME NEW e \in Exec, NEW close \in {FALSE, CloseAllowed}, SettleSession(e, close),
             UNCHANGED using
      PROVE  SessionsApart'
  <2>1. CASE CloseAllowed
    BY <1>3, <2>1 DEF SessionsApart
  <2>2. CASE ~CloseAllowed
    <3>1. close = FALSE
      BY <1>3, <2>2
    <3>2. \A g \in Exec : session'[g] = "CLOSED" => session[g] = "CLOSED"
      BY <1>3, <3>1 DEF SettleSession, TypeOK
    <3>3. QED
      BY <1>3, <2>2, <3>2 DEF SessionsApart
  <2>3. QED
    BY <2>1, <2>2
<1>4. CASE UNCHANGED <<using, session>>
  BY <1>4 DEF SessionsApart
<1>5. ASSUME NEW e \in Exec, Proceed(e)
      PROVE  SessionsApart'
  BY <1>1, <1>3, <1>4, <1>5
     DEF Proceed, CreateFails, ResumeFails, RunnerSettles, ResultUnreadable, BeginRelease,
         EndWithoutRelease, EndRelease, ReleaseFails
<1>6. QED
  BY <1>2, <1>4, <1>5
     DEF Next, vars, Reject, RefuseLocked, Start, StartWithoutProvider, HeartbeatFails,
         ReapExpired, Tick, TakeLocks

\* A secured call stays secured when another call takes a step, provided the
\* step leaves the session of a running call open.
LEMMA OthersStaySecured ==
  ASSUME TypeOK, DistinctAttempts, TimelyEnvironment,
         NEW e \in Exec, NEW g \in Exec, g # e, Secured(g),
         now' = now, pc'[g] = pc[g], acquiredAt'[g] = acquiredAt[g],
         nextBeat'[g] = nextBeat[g], using'[g] = using[g],
         pc[g] = "running" => session'[using[g]] # "CLOSED",
         \/ locks' = locks
         \/ locks' = Reaped(locks, now)
         \/ locks' = Acquired(locks, OwnerOf[e], NeedOf[e], now, LeaseMs)
         \/ locks' = Extended(locks, OwnerOf[e], Resource, now, LeaseMs)
         \/ locks' = Released(locks, OwnerOf[e], Resource)
  PROVE  Secured(g)'
<1>1. OwnerOf[e] # OwnerOf[g] /\ OwnerOf[e] \in Owner /\ OwnerOf[g] \in Owner
      /\ NeedOf[e] \in SUBSET Resource /\ NeedOf[g] \in SUBSET Resource
  BY DEF DistinctAttempts
<1>2. /\ now \in Nat /\ locks \in LockTableType /\ acquiredAt[g] \in Nat /\ nextBeat[g] \in Nat
  BY DEF TypeOK
<1>3. ASSUME NEW r \in NeedOf[g], Holds(locks, OwnerOf[g], r), locks[r].leaseUntil > now
      PROVE  locks'[r] = locks[r] /\ Holds(locks', OwnerOf[g], r)
  <2>1. r \in Resource /\ Resource \in SUBSET Resource
    BY <1>1
  <2>2. Reaped(locks, now)[r] = locks[r]
    BY <1>2, <1>3, <2>1 DEF Reaped, Holds, LockTableType, Lease
  <2>3. /\ Acquired(locks, OwnerOf[e], NeedOf[e], now, LeaseMs)[r] = locks[r]
        /\ Extended(locks, OwnerOf[e], Resource, now, LeaseMs)[r] = locks[r]
        /\ Released(locks, OwnerOf[e], Resource)[r] = locks[r]
    <3>1. Acquired(locks, OwnerOf[e], NeedOf[e], now, LeaseMs)[r] = locks[r]
      <4>1. CASE CanAcquire(locks, OwnerOf[e], NeedOf[e], now)
        <5>1. r \notin NeedOf[e]
          BY <1>1, <1>3, <2>2, <4>1 DEF CanAcquire, Conflicts, Holds
        <5>2. QED
          BY <2>1, <2>2, <4>1, <5>1 DEF Acquired, Granted
      <4>2. CASE ~CanAcquire(locks, OwnerOf[e], NeedOf[e], now)
        BY <2>2, <4>2 DEF Acquired
      <4>3. QED
        BY <4>1, <4>2
    <3>2. /\ Extended(locks, OwnerOf[e], Resource, now, LeaseMs)[r] = locks[r]
          /\ Released(locks, OwnerOf[e], Resource)[r] = locks[r]
      BY <1>1, <1>2, <1>3, <2>1, LiveLeaseIsLeftAlone
    <3>3. QED
      BY <1>1, <3>1, <3>2
  <2>4. locks'[r] = locks[r]
    BY <2>2, <2>3
  <2>5. QED
    BY <1>3, <2>4 DEF Holds
<1>4. ASSUME pc[g] = "creating", NEW r \in NeedOf[g]
      PROVE  Holds(locks, OwnerOf[g], r) /\ locks[r].leaseUntil > now
  <2>1. Holds(locks, OwnerOf[g], r) /\ locks[r].leaseUntil >= acquiredAt[g] + LeaseMs
        /\ now <= acquiredAt[g] + MaxCreate
    BY <1>4 DEF Secured
  <2>2. locks[r].leaseUntil \in Nat
    BY <1>1, <1>2, <2>1 DEF Holds, LockTableType, Lease
  <2>3. QED
    BY <1>2, <2>1, <2>2 DEF TimelyEnvironment
<1>5. ASSUME pc[g] = "running", NEW r \in NeedOf[g]
      PROVE  Holds(locks, OwnerOf[g], r) /\ locks[r].leaseUntil > now
  <2>1. Holds(locks, OwnerOf[g], r) /\ locks[r].leaseUntil > nextBeat[g] + TimerSlack
        /\ now <= nextBeat[g] + TimerSlack
    BY <1>5 DEF Secured
  <2>2. locks[r].leaseUntil \in Nat
    BY <1>1, <1>2, <2>1 DEF Holds, LockTableType, Lease
  <2>3. QED
    BY <1>2, <2>1, <2>2
<1>6. QED
  BY <1>3, <1>4, <1>5 DEF Secured

\* The inductive step: no step of any call or of time leaves a working call
\* without its lease.
LEMMA SecuredRunsKept ==
  ASSUME DistinctAttempts, TimelyEnvironment, NoCloseUnderReuse, TypeOK, SecuredRuns, [Next]_vars
  PROVE  SecuredRuns'
<1>1. SessionsApart'
  BY SessionsStayApart DEF SecuredRuns
<1>2. SUFFICES ASSUME NEW g \in Exec
               PROVE  Secured(g)'
  BY <1>1 DEF SecuredRuns
<1>3. Secured(g)
  BY DEF SecuredRuns
<1>4. ASSUME NEW e \in Exec, NEW close \in {FALSE, CloseAllowed}, g # e, pc[g] = "running",
             pc[e] = "validating", SettleSession(e, close)
      PROVE  session'[using[g]] # "CLOSED"
  <2>1. using[g] \in Exec /\ session[using[g]] # "CLOSED"
    BY <1>3, <1>4 DEF Secured
  <2>2. CASE ~CloseAllowed
    <3>1. close = FALSE
      BY <1>4, <2>2
    <3>2. QED
      BY <1>4, <2>1, <3>1 DEF SettleSession, TypeOK
  <2>3. CASE ~ReuseAllowed
    <3>1. using[g] # using[e]
      <4>1. SessionsApart
        BY Zenon DEF SecuredRuns
      <4>2. \A f \in Exec : ~ReuseAllowed => using[f] \in {f, NoSession}
        BY <4>1, Zenon DEF SessionsApart
      <4>3. \A f \in Exec : using[f] \in {f, NoSession}
        BY <2>3, <4>2, Zenon
      <4>4. QED
        BY <1>4, <2>1, <4>3
    <3>2. QED
      BY <1>4, <2>1, <3>1 DEF SettleSession, TypeOK
  <2>4. QED
    BY <2>2, <2>3 DEF NoCloseUnderReuse
<1>5. ASSUME NEW e \in Exec, Reject(e)
      PROVE  Secured(g)'
  BY <1>3, <1>5 DEF Reject, GoTo, TypeOK, Secured
<1>6. ASSUME NEW e \in Exec, RefuseLocked(e)
      PROVE  Secured(g)'
  <2>1. CASE g # e
    BY <1>3, <1>6, <2>1, OthersStaySecured DEF RefuseLocked, GoTo, TypeOK, Secured
  <2>2. CASE g = e
    BY <1>6, <2>2 DEF RefuseLocked, GoTo, TypeOK, Secured
  <2>3. QED
    BY <2>1, <2>2
<1>7. ASSUME NEW e \in Exec, Start(e)
      PROVE  Secured(g)'
  <2>1. CASE g # e
    BY <1>3, <1>7, <2>1, OthersStaySecured DEF Start, TakeLocks, GoTo, TypeOK, Secured
  <2>2. CASE g = e
    <3>1. pc'[g] = "creating" /\ acquiredAt'[g] = now /\ now' = now /\ now \in Nat
      BY <1>7, <2>2 DEF Start, GoTo, TypeOK
    <3>2. \A r \in NeedOf[g] : /\ Holds(locks', OwnerOf[g], r)
                               /\ locks'[r].leaseUntil = now + LeaseMs
      BY <1>7, <2>2, AcquireGrants DEF Start, TakeLocks, TypeOK
    <3>3. QED
      BY <3>1, <3>2 DEF Secured
  <2>3. QED
    BY <2>1, <2>2
<1>8. ASSUME NEW e \in Exec, StartWithoutProvider(e)
      PROVE  Secured(g)'
  <2>1. CASE g # e
    BY <1>3, <1>8, <2>1, OthersStaySecured DEF StartWithoutProvider, TakeLocks, GoTo, TypeOK,
       Secured
  <2>2. CASE g = e
    BY <1>8, <2>2 DEF StartWithoutProvider, GoTo, TypeOK, Secured
  <2>3. QED
    BY <2>1, <2>2
<1>9. ASSUME NEW e \in Exec, Heartbeat(e)
      PROVE  Secured(g)'
  <2>0. session'[using[e]] = "ACTIVE" \/ using[e] \notin Exec
    BY <1>9 DEF Heartbeat, TypeOK
  <2>1. CASE g # e
    <3>1. pc[g] = "running" => session'[using[g]] # "CLOSED"
      BY <1>3, <1>9 DEF Heartbeat, TypeOK, Secured
    <3>2. nextBeat'[g] = nextBeat[g]
      BY <1>9, <2>1 DEF Heartbeat, TimerFires, TypeOK
    <3>3. QED
      BY <1>3, <1>9, <2>1, <3>1, <3>2, OthersStaySecured DEF Heartbeat
  <2>2. CASE g = e
    <3>1. /\ pc'[g] = "running" /\ pc[g] = "running" /\ now' = now /\ now \in Nat
          /\ nextBeat'[g] = now + HeartbeatInterval /\ using'[g] = using[g]
          /\ locks' = Extended(locks, OwnerOf[g], Resource, now, LeaseMs)
      BY <1>9, <2>2 DEF Heartbeat, TimerFires, TypeOK
    <3>2. using[g] \in Exec /\ session'[using[g]] # "CLOSED"
      BY <1>3, <2>0, <2>2, <3>1 DEF Secured
    <3>3. ASSUME NEW r \in NeedOf[g]
          PROVE  Holds(locks', OwnerOf[g], r) /\ locks'[r].leaseUntil = now + LeaseMs
      <4>1. /\ Holds(locks, OwnerOf[g], r) /\ locks[r].leaseUntil > nextBeat[g] + TimerSlack
            /\ now <= nextBeat[g] + TimerSlack
        BY <1>3, <3>1 DEF Secured
      <4>2. locks[r].leaseUntil \in Nat /\ nextBeat[g] \in Nat /\ locks \in LockTableType
        BY <4>1 DEF Holds, LockTableType, Lease, TypeOK
      <4>3. locks[r].leaseUntil > now
        BY <3>1, <4>1, <4>2
      <4>4. QED
        BY <3>1, <4>1, <4>2, <4>3, HeartbeatExtends
    <3>4. QED
      BY <3>1, <3>2, <3>3 DEF Secured, TimelyEnvironment
  <2>3. QED
    BY <2>1, <2>2
<1>10. ASSUME NEW e \in Exec, HeartbeatFails(e)
       PROVE  Secured(g)'
  <2>1. g # e
    BY <1>3, <1>10 DEF HeartbeatFails, TimerFires, Secured
  <2>2. nextBeat'[g] = nextBeat[g]
    BY <1>10, <2>1 DEF HeartbeatFails, TimerFires, TypeOK
  <2>3. QED
    BY <1>3, <1>10, <2>2 DEF HeartbeatFails, Secured
<1>11. ASSUME NEW e \in Exec, CreateFails(e)
       PROVE  Secured(g)'
  BY <1>3, <1>11 DEF CreateFails, GoTo, TypeOK, Secured
<1>12. ASSUME NEW e \in Exec, NEW s \in Exec, BeginRun(e, s)
       PROVE  Secured(g)'
  <2>1. CASE g # e
    <3>1. pc[g] = "running" => session'[using[g]] # "CLOSED"
      BY <1>3, <1>12 DEF BeginRun, TypeOK, Secured
    <3>2. /\ pc'[g] = pc[g] /\ nextBeat'[g] = nextBeat[g] /\ acquiredAt'[g] = acquiredAt[g]
          /\ using'[g] = using[g]
      BY <1>12, <2>1 DEF BeginRun, GoTo, TypeOK
    <3>3. QED
      BY <1>3, <1>12, <2>1, <3>1, <3>2, OthersStaySecured DEF BeginRun
  <2>2. CASE g = e
    <3>1. /\ pc[g] = "creating" /\ pc'[g] = "running" /\ now' = now /\ locks' = locks
          /\ nextBeat'[g] = now + HeartbeatInterval /\ using'[g] = s /\ session'[s] = "ACTIVE"
          /\ now \in Nat /\ acquiredAt[g] \in Nat
      BY <1>12, <2>2 DEF BeginRun, GoTo, TypeOK
    <3>2. ASSUME NEW r \in NeedOf[g]
          PROVE  Holds(locks', OwnerOf[g], r) /\ locks'[r].leaseUntil > nextBeat'[g] + TimerSlack
      <4>1. /\ Holds(locks, OwnerOf[g], r) /\ locks[r].leaseUntil >= acquiredAt[g] + LeaseMs
            /\ now <= acquiredAt[g] + MaxCreate
        BY <1>3, <3>1 DEF Secured
      <4>2. locks[r].leaseUntil \in Nat
        BY <4>1 DEF Holds, LockTableType, Lease, TypeOK
      <4>3. QED
        BY <3>1, <4>1, <4>2 DEF TimelyEnvironment
    <3>3. QED
      BY <3>1, <3>2 DEF Secured
  <2>3. QED
    BY <2>1, <2>2
<1>13. ASSUME NEW e \in Exec, NEW s \in Exec, ResumeFails(e, s)
       PROVE  Secured(g)'
  BY <1>3, <1>13 DEF ResumeFails, GoTo, TypeOK, Secured
<1>14. ASSUME NEW e \in Exec, NEW o \in RunOutcome, RunnerSettles(e, o)
       PROVE  Secured(g)'
  BY <1>3, <1>14 DEF RunnerSettles, GoTo, TypeOK, Secured
<1>15. ASSUME NEW e \in Exec, ResultUnreadable(e)
       PROVE  Secured(g)'
  BY <1>3, <1>15 DEF ResultUnreadable, GoTo, TypeOK, Secured
<1>16. ASSUME NEW e \in Exec, NEW valid \in BOOLEAN, NEW retain \in BOOLEAN,
              NEW close \in {FALSE, CloseAllowed},
              BeginRelease(e, valid, close, retain) \/ EndWithoutRelease(e, valid, close, retain)
       PROVE  Secured(g)'
  <2>0. /\ pc[e] = "validating" /\ pc'[e] \in {"releasing", "finished"}
        /\ SettleSession(e, close) /\ now' = now
        /\ acquiredAt' = acquiredAt /\ nextBeat' = nextBeat /\ using' = using
        /\ locks' = locks \/ locks' = Released(locks, OwnerOf[e], Resource)
        /\ g # e => pc'[g] = pc[g]
    BY <1>16 DEF BeginRelease, EndWithoutRelease, GoTo, TypeOK, ReleaseLocks
  <2>1. CASE g # e
    <3>1. pc[g] = "running" => session'[using[g]] # "CLOSED"
      BY <1>4, <2>0, <2>1
    <3>2. QED
      BY <1>3, <2>0, <2>1, <3>1, OthersStaySecured
  <2>2. CASE g = e
    BY <2>0, <2>2 DEF Secured
  <2>3. QED
    BY <2>1, <2>2
<1>17. ASSUME NEW e \in Exec, EndRelease(e) \/ ReleaseFails(e)
       PROVE  Secured(g)'
  <2>0. /\ pc'[e] = "finished" /\ now' = now /\ session' = session
        /\ acquiredAt' = acquiredAt /\ nextBeat' = nextBeat /\ using' = using
        /\ locks' = Released(locks, OwnerOf[e], Resource)
        /\ g # e => pc'[g] = pc[g]
    BY <1>17 DEF EndRelease, ReleaseFails, GoTo, TypeOK, ReleaseLocks
  <2>1. CASE g # e
    <3>1. pc[g] = "running" => session'[using[g]] # "CLOSED"
      BY <1>3, <2>0 DEF Secured
    <3>2. QED
      BY <1>3, <2>0, <2>1, <3>1, OthersStaySecured
  <2>2. CASE g = e
    BY <2>0, <2>2 DEF Secured
  <2>3. QED
    BY <2>1, <2>2
<1>18. CASE ReapExpired
  <2>1. ASSUME NEW r \in NeedOf[g], pc[g] \in {"creating", "running"}
        PROVE  locks'[r] = locks[r]
    <3>1. Holds(locks, OwnerOf[g], r) /\ locks[r].leaseUntil > now
      <4>1. locks[r].leaseUntil \in Nat \/ ~Holds(locks, OwnerOf[g], r)
        BY DEF Holds, LockTableType, Lease, TypeOK
      <4>2. now \in Nat /\ acquiredAt[g] \in Nat /\ nextBeat[g] \in Nat
        BY DEF TypeOK
      <4>3. QED
        BY <1>3, <2>1, <4>1, <4>2 DEF Secured, TimelyEnvironment
    <3>2. locks[r].leaseUntil \in Nat /\ now \in Nat
      BY <3>1 DEF Holds, LockTableType, Lease, TypeOK
    <3>3. QED
      BY <1>18, <3>1, <3>2 DEF ReapExpired, Reaped
  <2>2. UNCHANGED <<now, pc, acquiredAt, nextBeat, session, using>>
    BY <1>18 DEF ReapExpired
  <2>3. QED
    BY <1>3, <2>1, <2>2 DEF Secured, Holds
<1>19. CASE Tick
  <2>1. /\ now' = now + 1 /\ now \in Nat /\ acquiredAt[g] \in Nat /\ nextBeat[g] \in Nat
        /\ pc[g] = "creating" => now < acquiredAt[g] + MaxCreate
        /\ pc[g] = "running" => now < nextBeat[g] + TimerSlack
        /\ UNCHANGED <<locks, pc, acquiredAt, nextBeat, session, using>>
    BY <1>19 DEF Tick, TypeOK
  <2>2. QED
    BY <1>3, <2>1 DEF Secured
<1>20. CASE UNCHANGED vars
  BY <1>3, <1>20 DEF vars, Secured
<1>21. ASSUME NEW e \in Exec, Proceed(e)
       PROVE  Secured(g)'
  BY <1>11, <1>12, <1>13, <1>14, <1>15, <1>16, <1>17, <1>21 DEF Proceed
<1>22. QED
  BY <1>5, <1>6, <1>7, <1>8, <1>9, <1>10, <1>18, <1>19, <1>20, <1>21 DEF Next

\* Under the three conditions calls are secured all the time.
LEMMA SecuredRunsInvariant ==
  ASSUME DistinctAttempts, TimelyEnvironment, NoCloseUnderReuse
  PROVE  Spec => []SecuredRuns
<1>1. Init => SecuredRuns
  BY DEF Init, SecuredRuns, SessionsApart, Secured
<1>2. TypeOK /\ SecuredRuns /\ [Next]_vars => SecuredRuns'
  BY SecuredRunsKept
<1>3. QED
  BY TypeCorrect, <1>1, <1>2, PTL DEF Spec

\* While an agent works its task's resources are leased to it, for every
\* number of calls and every timing the conditions allow.
THEOREM LeaseAlwaysCoversRun ==
  ASSUME DistinctAttempts, TimelyEnvironment, NoCloseUnderReuse
  PROVE  Spec => []LeaseCoversRun
<1>1. TypeOK /\ SecuredRuns => LeaseCoversRun
  <2> SUFFICES ASSUME TypeOK, SecuredRuns, NEW e \in Exec, pc[e] = "running", NEW r \in NeedOf[e]
               PROVE  Holds(locks, OwnerOf[e], r) /\ locks[r].leaseUntil > now
    BY DEF LeaseCoversRun
  <2>1. /\ Holds(locks, OwnerOf[e], r) /\ locks[r].leaseUntil > nextBeat[e] + TimerSlack
        /\ now <= nextBeat[e] + TimerSlack
    BY DEF SecuredRuns, Secured
  <2>2. locks[r].leaseUntil \in Nat /\ now \in Nat /\ nextBeat[e] \in Nat
    BY <2>1 DEF Holds, LockTableType, Lease, TypeOK
  <2>3. QED
    BY <2>1, <2>2
<1>2. QED
  BY TypeCorrect, SecuredRunsInvariant, <1>1, PTL

\* Two agents never work on tasks with a common resource at the same time.
THEOREM AgentsExcludeEachOther ==
  ASSUME DistinctAttempts, TimelyEnvironment, NoCloseUnderReuse
  PROVE  Spec => []MutualExclusion
<1>1. LeaseCoversRun => MutualExclusion
  BY DEF LeaseCoversRun, MutualExclusion, Holds, DistinctAttempts
<1>2. QED
  BY LeaseAlwaysCoversRun, <1>1, PTL

------------------------------------------------------------------------------

\* What a table operation does with the holdings of another owner: it adds none.
LEMMA OthersGrantNothing ==
  ASSUME NEW table \in LockTableType, NEW o \in Owner, NEW p \in Owner, o # p,
         NEW chosen \in SUBSET Resource, NEW t \in Nat, NEW r \in Resource
  PROVE  /\ Holds(Reaped(table, t), p, r) <=> Holds(table, p, r) /\ table[r].leaseUntil > t
         /\ Holds(Acquired(table, o, chosen, t, LeaseMs), p, r) => Holds(Reaped(table, t), p, r)
         /\ Holds(Extended(table, o, chosen, t, LeaseMs), p, r) => Holds(Reaped(table, t), p, r)
         /\ Holds(Released(table, o, chosen), p, r) <=> Holds(table, p, r)
<1> USE NoLockAssumption
<1>1. Holds(Reaped(table, t), p, r) <=> Holds(table, p, r) /\ table[r].leaseUntil > t
  BY DEF Reaped, Holds, LockTableType, Lease
<1>2. ASSUME NEW other \in LockTableType, NEW some \in SUBSET Resource,
             Holds(Granted(other, o, some, t + LeaseMs), p, r)
      PROVE  Holds(other, p, r)
  BY <1>2 DEF Granted, Holds, Lease
<1>3. Reaped(table, t) \in LockTableType
  BY TableTypes
<1>4. Holds(Acquired(table, o, chosen, t, LeaseMs), p, r) => Holds(Reaped(table, t), p, r)
  BY <1>2, <1>3 DEF Acquired
<1>5. Holds(Extended(table, o, chosen, t, LeaseMs), p, r) => Holds(Reaped(table, t), p, r)
  <2> {q \in chosen : Holds(Reaped(table, t), o, q)} \in SUBSET Resource
    OBVIOUS
  <2> QED BY <1>2, <1>3 DEF Extended
<1>6. Holds(Released(table, o, chosen), p, r) <=> Holds(table, p, r)
  BY DEF Released, Holds, LockTableType, Lease
<1> QED BY <1>1, <1>4, <1>5, <1>6


\* The table after a step of another call, by reading or by reaping.
ForeignTable(g) ==
  \/ locks' = locks
  \/ locks' = Reaped(locks, now)
  \/ \E e \in Exec \ {g} :
       \/ locks' = Acquired(locks, OwnerOf[e], NeedOf[e], now, LeaseMs)
       \/ locks' = Extended(locks, OwnerOf[e], Resource, now, LeaseMs)
       \/ locks' = Released(locks, OwnerOf[e], Resource)

\* What a step is to a call: a step of others, of time, or one of its own, with
\* what that does to the lock table.
LEMMA StepOf ==
  ASSUME TypeOK, [Next]_vars, NEW g \in Exec
  PROVE  \/ pc'[g] = pc[g] /\ now' = now /\ ForeignTable(g)
         \/ pc'[g] = pc[g] /\ now' = now + 1 /\ locks' = locks
         \/ /\ pc[g] = "idle" /\ pc'[g] \in {"rejected", "refused"} /\ now' = now
            /\ locks' \in {locks, Reaped(locks, now)}
         \/ /\ pc[g] = "idle" /\ pc'[g] \in {"creating", "validating"} /\ now' = now
            /\ TakeLocks(g)
         \/ /\ pc[g] = "running" /\ pc'[g] = "running" /\ now' = now
            /\ locks' = Extended(locks, OwnerOf[g], Resource, now, LeaseMs)
         \/ /\ pc[g] \in {"creating", "running", "validating"}
            /\ pc'[g] \in {"running", "validating", "releasing", "crashed"} /\ now' = now
            /\ locks' = locks
         \/ pc'[g] = "finished" /\ now' = now /\ locks' = Released(locks, OwnerOf[g], Resource)
<1>1. ASSUME NEW e \in Exec, NEW from \in Stage, NEW to \in Stage, GoTo(e, from, to)
      PROVE  pc[e] = from /\ pc'[e] = to /\ (e # g => pc'[g] = pc[g])
  BY <1>1 DEF GoTo, TypeOK
<1>2. ASSUME NEW e \in Exec, Reject(e) \/ RefuseLocked(e) \/ Start(e) \/ StartWithoutProvider(e)
      PROVE  \/ pc'[g] = pc[g] /\ now' = now /\ ForeignTable(g)
             \/ /\ pc[g] = "idle" /\ pc'[g] \in {"rejected", "refused"} /\ now' = now
                /\ locks' \in {locks, Reaped(locks, now)}
             \/ /\ pc[g] = "idle" /\ pc'[g] \in {"creating", "validating"} /\ now' = now
                /\ TakeLocks(g)
  BY <1>1, <1>2
  DEF Reject, RefuseLocked, Start, StartWithoutProvider, TakeLocks, ForeignTable, Acquired, Stage
<1>3. ASSUME NEW e \in Exec, Heartbeat(e) \/ HeartbeatFails(e)
      PROVE  \/ pc'[g] = pc[g] /\ now' = now /\ ForeignTable(g)
             \/ /\ pc[g] = "running" /\ pc'[g] = "running" /\ now' = now
                /\ locks' = Extended(locks, OwnerOf[g], Resource, now, LeaseMs)
  BY <1>3 DEF Heartbeat, HeartbeatFails, TimerFires, ForeignTable
<1>4. ASSUME NEW e \in Exec, Proceed(e)
      PROVE  \/ pc'[g] = pc[g] /\ now' = now /\ ForeignTable(g)
             \/ /\ pc[g] \in {"creating", "running", "validating"}
                /\ pc'[g] \in {"running", "validating", "releasing", "crashed"} /\ now' = now
                /\ locks' = locks
             \/ pc'[g] = "finished" /\ now' = now /\ locks' = Released(locks, OwnerOf[g], Resource)
  <2>1. \/ /\ now' = now /\ locks' = locks
           /\ \E from \in {"creating", "running", "validating"},
                 to \in {"running", "validating", "releasing", "crashed"} : GoTo(e, from, to)
        \/ /\ now' = now /\ locks' = Released(locks, OwnerOf[e], Resource)
           /\ \E from \in {"validating", "releasing"} : GoTo(e, from, "finished")
    BY <1>4
    DEF Proceed, CreateFails, BeginRun, ResumeFails, RunnerSettles, ResultUnreadable, BeginRelease,
        EndWithoutRelease, EndRelease, ReleaseFails, ReleaseLocks
  <2> QED BY <1>1, <2>1 DEF ForeignTable, Stage
<1> QED
  BY <1>2, <1>3, <1>4 DEF Next, vars, ReapExpired, Tick, ForeignTable

\* A step of another call gives this one nothing, and takes from it no lease
\* that has not run out.
LEMMA ForeignStep ==
  ASSUME TypeOK, DistinctAttempts, NEW g \in Exec, ForeignTable(g), NEW r \in Resource
  PROVE  /\ Holds(locks', OwnerOf[g], r) => Holds(locks, OwnerOf[g], r) /\ locks'[r] = locks[r]
         /\ Holds(locks, OwnerOf[g], r) /\ locks[r].leaseUntil > now => locks'[r] = locks[r]
<1>1. locks \in LockTableType /\ now \in Nat /\ OwnerOf[g] \in Owner
  BY DEF TypeOK
<1>2. CASE locks' = locks
  BY <1>2
<1>3. CASE locks' = Reaped(locks, now)
  BY <1>1, <1>3 DEF Reaped, Holds, LockTableType, Lease
<1>4. ASSUME NEW e \in Exec \ {g},
             \/ locks' = Acquired(locks, OwnerOf[e], NeedOf[e], now, LeaseMs)
             \/ locks' = Extended(locks, OwnerOf[e], Resource, now, LeaseMs)
             \/ locks' = Released(locks, OwnerOf[e], Resource)
      PROVE  /\ Holds(locks', OwnerOf[g], r) => Holds(locks, OwnerOf[g], r) /\ locks'[r] = locks[r]
             /\ Holds(locks, OwnerOf[g], r) /\ locks[r].leaseUntil > now => locks'[r] = locks[r]
  <2> DEFINE o == OwnerOf[e]
             live == Reaped(locks, now)
  <2>1. o \in Owner /\ o # OwnerOf[g] /\ NeedOf[e] \in SUBSET Resource
    BY DEF DistinctAttempts
  <2>2. live[r] = locks[r] \/ live[r] = NoLock
    BY DEF Reaped
  <2>3. Holds(locks, OwnerOf[g], r) /\ locks[r].leaseUntil > now => live[r] = locks[r]
    BY <1>1 DEF Reaped, Holds, LockTableType, Lease
  <2>4. ASSUME NEW wanted \in SUBSET Resource, \A q \in wanted : ~Holds(live, OwnerOf[g], q),
               locks' = Granted(live, o, wanted, now + LeaseMs)
        PROVE  /\ Holds(locks', OwnerOf[g], r) => Holds(locks, OwnerOf[g], r) /\ locks'[r] = locks[r]
               /\ Holds(locks, OwnerOf[g], r) /\ locks[r].leaseUntil > now => locks'[r] = locks[r]
    <3>1. locks'[r] = IF r \in wanted THEN [owner |-> o, leaseUntil |-> now + LeaseMs] ELSE live[r]
      BY <2>4 DEF Granted
    <3> QED BY <2>1, <2>2, <2>3, <2>4, <3>1 DEF Holds
  <2>5. CASE locks' = Acquired(locks, o, NeedOf[e], now, LeaseMs)
    <3>1. CASE CanAcquire(locks, o, NeedOf[e], now)
      <4>1. \A q \in NeedOf[e] : ~Holds(live, OwnerOf[g], q)
        BY <2>1, <3>1 DEF CanAcquire, Conflicts, Holds
      <4> QED BY <2>1, <2>4, <2>5, <3>1, <4>1 DEF Acquired
    <3>2. CASE ~CanAcquire(locks, o, NeedOf[e], now)
      BY <2>2, <2>3, <2>5, <3>2 DEF Acquired, Holds
    <3> QED BY <3>1, <3>2
  <2>6. CASE locks' = Extended(locks, o, Resource, now, LeaseMs)
    <3> DEFINE wanted == {q \in Resource : Holds(live, o, q)}
    <3>1. wanted \in SUBSET Resource /\ \A q \in wanted : ~Holds(live, OwnerOf[g], q)
      BY <2>1 DEF Holds
    <3>2. locks' = Granted(live, o, wanted, now + LeaseMs)
      BY <2>6 DEF Extended
    <3> HIDE DEF wanted
    <3> QED BY <2>4, <3>1, <3>2
  <2>7. CASE locks' = Released(locks, o, Resource)
    BY <2>1, <2>7 DEF Released, Holds
  <2> QED BY <1>4, <2>5, <2>6, <2>7
<1> QED BY <1>2, <1>3, <1>4 DEF ForeignTable

\* A call that has not started, or is over, holds nothing.
OutsideHoldsNothing ==
  \A e \in Exec : pc[e] \in {"idle", "finished", "refused", "rejected"} =>
    \A r \in Resource : ~Holds(locks, OwnerOf[e], r)

\* Locks are taken when a call starts and given back by the step that ends it.
LEMMA OutsideStep ==
  ASSUME TypeOK, DistinctAttempts, OutsideHoldsNothing, [Next]_vars
  PROVE  OutsideHoldsNothing'
<1> SUFFICES ASSUME NEW g \in Exec, pc'[g] \in {"idle", "finished", "refused", "rejected"}, NEW r \in Resource
             PROVE  ~Holds(locks', OwnerOf[g], r)
  BY DEF OutsideHoldsNothing
<1>1. CASE pc'[g] = pc[g] /\ ForeignTable(g)
  BY <1>1, ForeignStep DEF OutsideHoldsNothing
<1>2. CASE pc'[g] = pc[g] /\ locks' = locks
  BY <1>2 DEF OutsideHoldsNothing
<1>3. CASE pc[g] = "idle" /\ locks' \in {locks, Reaped(locks, now)}
  BY <1>3 DEF OutsideHoldsNothing, Reaped, Holds
<1>4. CASE locks' = Released(locks, OwnerOf[g], Resource)
  BY <1>4 DEF Released, Holds
<1> QED BY <1>1, <1>2, <1>3, <1>4, StepOf

\* A call that is over leaves no lock behind, on whatever path it ended.
THEOREM EndedHoldNothing ==
  ASSUME DistinctAttempts
  PROVE  Spec => []EndedHoldsNothing
<1>1. Init => OutsideHoldsNothing
  BY DEF Init, OutsideHoldsNothing, EmptyTable, Holds
<1>2. OutsideHoldsNothing => EndedHoldsNothing
  BY DEF OutsideHoldsNothing, EndedHoldsNothing
<1>3. TypeOK /\ OutsideHoldsNothing /\ [Next]_vars => OutsideHoldsNothing'
  BY OutsideStep
<1> QED
  BY TypeCorrect, <1>1, <1>2, <1>3, PTL DEF Spec

\* A call whose agent is not at work, because it hangs, threw or is over, renews
\* no lock: what it holds it holds for one lease at most.
THEOREM OnlyRunsRenewLocks ==
  ASSUME DistinctAttempts
  PROVE  Spec => OnlyRunsRenew
<1>1. ASSUME TypeOK, [Next]_vars, NEW g \in Exec, pc[g] \notin {"idle", "running"},
             NEW r \in Resource, Holds(locks', OwnerOf[g], r)
      PROVE  locks'[r] = locks[r]
  <2>1. CASE ForeignTable(g)
    BY <1>1, <2>1, ForeignStep
  <2>2. CASE locks' = locks
    BY <2>2
  <2>3. CASE locks' = Released(locks, OwnerOf[g], Resource)
    BY <1>1, <2>3 DEF Released, Holds
  <2> QED BY <1>1, <2>1, <2>2, <2>3, StepOf
<1>2. TypeOK /\ [Next]_vars => RenewedByRunsAlone
  BY <1>1 DEF RenewedByRunsAlone
<1> QED
  BY TypeCorrect, <1>2, PTL DEF Spec, OnlyRunsRenew

\* The leases of a call in progress that are still its own end together; before
\* they end it has all of them.
EndTogether(e) ==
  \E until \in Nat :
    /\ \A r \in NeedOf[e] : Holds(locks, OwnerOf[e], r) => locks[r].leaseUntil = until
    /\ until <= now \/ \A r \in NeedOf[e] : Holds(locks, OwnerOf[e], r)

LeasesEndTogether ==
  \A e \in Exec : pc[e] \in {"creating", "running", "validating", "releasing"} => EndTogether(e)

\* Locks are taken at once and renewed at once, so that their ends agree.
LEMMA TogetherStep ==
  ASSUME TypeOK, DistinctAttempts, LeasesEndTogether, [Next]_vars
  PROVE  LeasesEndTogether'
<1> SUFFICES ASSUME NEW g \in Exec, pc'[g] \in {"creating", "running", "validating", "releasing"}
             PROVE  EndTogether(g)'
  BY DEF LeasesEndTogether
<1>0. /\ now \in Nat /\ locks \in LockTableType /\ LeaseMs \in Nat
      /\ NeedOf[g] \in SUBSET Resource /\ OwnerOf[g] \in Owner
  BY DEF TypeOK
<1>1. CASE pc'[g] = pc[g] /\ now' = now /\ ForeignTable(g)
  <2>1. PICK until \in Nat :
          /\ \A r \in NeedOf[g] : Holds(locks, OwnerOf[g], r) => locks[r].leaseUntil = until
          /\ until <= now \/ \A r \in NeedOf[g] : Holds(locks, OwnerOf[g], r)
    BY <1>1 DEF LeasesEndTogether, EndTogether
  <2>2. \A r \in NeedOf[g] : Holds(locks', OwnerOf[g], r) => locks'[r].leaseUntil = until
    BY <1>0, <1>1, <2>1, ForeignStep
  <2>3. CASE until <= now
    BY <1>1, <2>2, <2>3 DEF EndTogether
  <2>4. CASE ~(until <= now)
    <3>1. ASSUME NEW r \in NeedOf[g] PROVE Holds(locks', OwnerOf[g], r)
      <4>1. Holds(locks, OwnerOf[g], r) /\ locks[r].leaseUntil > now
        BY <1>0, <2>1, <2>4
      <4> QED BY <1>0, <1>1, <4>1, ForeignStep DEF Holds
    <3> QED BY <2>2, <3>1 DEF EndTogether
  <2> QED BY <2>3, <2>4
<1>2. CASE pc'[g] = pc[g] /\ now' = now + 1 /\ locks' = locks
  BY <1>0, <1>2 DEF LeasesEndTogether, EndTogether
<1>3. CASE TakeLocks(g) /\ now' = now
  <2>1. \A r \in NeedOf[g] : Holds(locks', OwnerOf[g], r) /\ locks'[r].leaseUntil = now + LeaseMs
    BY <1>0, <1>3, AcquireGrants DEF TakeLocks
  <2> QED BY <1>0, <2>1 DEF EndTogether
<1>4. CASE /\ pc[g] = "running" /\ now' = now
           /\ locks' = Extended(locks, OwnerOf[g], Resource, now, LeaseMs)
  <2>1. PICK until \in Nat :
          /\ \A r \in NeedOf[g] : Holds(locks, OwnerOf[g], r) => locks[r].leaseUntil = until
          /\ until <= now \/ \A r \in NeedOf[g] : Holds(locks, OwnerOf[g], r)
    BY <1>4 DEF LeasesEndTogether, EndTogether
  <2>2. CASE until <= now
    <3>1. ASSUME NEW r \in NeedOf[g] PROVE ~Holds(locks', OwnerOf[g], r)
      <4>1. ~Holds(Reaped(locks, now), OwnerOf[g], r)
        BY <1>0, <2>1, <2>2 DEF Reaped, Holds
      <4> QED BY <1>0, <1>4, <4>1 DEF Extended, Granted, Holds
    <3> QED BY <1>4, <2>2, <3>1 DEF EndTogether
  <2>3. CASE ~(until <= now)
    <3>1. ASSUME NEW r \in NeedOf[g]
          PROVE  Holds(locks', OwnerOf[g], r) /\ locks'[r].leaseUntil = now + LeaseMs
      <4>1. r \in Resource /\ Holds(locks, OwnerOf[g], r) /\ locks[r].leaseUntil > now
        BY <1>0, <2>1, <2>3
      <4> QED BY <1>0, <1>4, <4>1, HeartbeatExtends
    <3> QED BY <1>0, <3>1 DEF EndTogether
  <2> QED BY <2>2, <2>3
<1>5. CASE /\ pc[g] \in {"creating", "running", "validating"} /\ now' = now /\ locks' = locks
  BY <1>5 DEF LeasesEndTogether, EndTogether
<1> QED BY <1>1, <1>2, <1>3, <1>4, <1>5, StepOf

\* The locks of a call in progress are all there or all lost, whatever the
\* lengths of leases, heartbeats and creation are.
THEOREM LocksAllOrNothing ==
  ASSUME DistinctAttempts
  PROVE  Spec => []AllOrNothing
<1>1. Init => LeasesEndTogether
  BY DEF Init, LeasesEndTogether
<1>2. TypeOK /\ LeasesEndTogether => AllOrNothing
  <2> SUFFICES ASSUME TypeOK, LeasesEndTogether, NEW e \in Exec,
                      pc[e] \in {"creating", "running", "validating", "releasing"}
               PROVE  LET mine == {r \in NeedOf[e] : Holds(Reaped(locks, now), OwnerOf[e], r)}
                      IN  mine = {} \/ mine = NeedOf[e]
    BY DEF AllOrNothing
  <2>1. PICK until \in Nat :
          /\ \A r \in NeedOf[e] : Holds(locks, OwnerOf[e], r) => locks[r].leaseUntil = until
          /\ until <= now \/ \A r \in NeedOf[e] : Holds(locks, OwnerOf[e], r)
    BY DEF LeasesEndTogether, EndTogether
  <2>2. now \in Nat /\ locks \in LockTableType /\ NeedOf[e] \in SUBSET Resource
    BY DEF TypeOK
  <2>3. CASE until <= now
    <3>1. \A r \in NeedOf[e] : ~Holds(Reaped(locks, now), OwnerOf[e], r)
      BY <2>1, <2>2, <2>3 DEF Reaped, Holds
    <3> QED BY <3>1
  <2>4. CASE ~(until <= now)
    <3>1. \A r \in NeedOf[e] : Holds(Reaped(locks, now), OwnerOf[e], r)
      BY <2>1, <2>2, <2>4 DEF Reaped, Holds
    <3> QED BY <3>1
  <2> QED BY <2>3, <2>4
<1>3. TypeOK /\ LeasesEndTogether /\ [Next]_vars => LeasesEndTogether'
  BY TogetherStep
<1> QED
  BY TypeCorrect, <1>1, <1>2, <1>3, PTL DEF Spec

------------------------------------------------------------------------------

\* The workspace of a call at each of its stages, and what the outcome says of it.
WorkspaceAtStage ==
  \A e \in Exec :
    /\ pc[e] \in {"idle", "refused", "rejected"} => workspace[e] = "NONE"
    /\ pc[e] = "running" => workspace[e] = "IN_USE"
    /\ pc[e] = "validating" =>
         /\ workspace[e] \in {"NONE", "FAILED", "IN_USE"}
         /\ workspace[e] # "IN_USE" => outcome[e] = "FAILED"
    /\ pc[e] = "finished" =>
         /\ workspace[e] \in {"NONE", "STALE", "RELEASED", "FAILED"}
         /\ outcome[e] = "SUCCEEDED" => workspace[e] = "RELEASED"

\* An active session is in use by a call that has not settled it.
ActiveIsUsed ==
  \A s \in Exec : session[s] = "ACTIVE" =>
    \E e \in Exec : using[e] = s /\ pc[e] \in {"running", "validating", "crashed"}

\* Every stage settles workspace and session before it reports.
LEMMA ResultStep ==
  ASSUME TypeOK, WorkspaceAtStage, ActiveIsUsed, [Next]_vars
  PROVE  WorkspaceAtStage' /\ ActiveIsUsed'
<1> USE DEF WorkspaceAtStage
<1>1. ASSUME NEW e \in Exec, Reject(e) \/ RefuseLocked(e) \/ Start(e) \/ StartWithoutProvider(e)
      PROVE  WorkspaceAtStage' /\ ActiveIsUsed'
  <2>1. WorkspaceAtStage'
    BY <1>1 DEF Reject, RefuseLocked, Start, StartWithoutProvider, GoTo, TypeOK
  <2>2. /\ UNCHANGED <<session, using>> /\ pc[e] = "idle"
        /\ \A g \in Exec : g # e => pc'[g] = pc[g]
    BY <1>1 DEF Reject, RefuseLocked, Start, StartWithoutProvider, GoTo, TypeOK
  <2>3. ActiveIsUsed'
    BY <2>2 DEF ActiveIsUsed
  <2> QED BY <2>1, <2>3
<1>2. ASSUME NEW e \in Exec, Heartbeat(e) \/ HeartbeatFails(e)
      PROVE  WorkspaceAtStage' /\ ActiveIsUsed'
  <2>1. WorkspaceAtStage'
    BY <1>2 DEF Heartbeat, HeartbeatFails, TimerFires
  <2>2. /\ UNCHANGED <<pc, using>> /\ pc[e] = "running"
        /\ \A s \in Exec : s # using[e] => session'[s] = session[s]
    BY <1>2 DEF Heartbeat, HeartbeatFails, TimerFires, TypeOK
  <2>3. ActiveIsUsed'
    BY <2>2 DEF ActiveIsUsed
  <2> QED BY <2>1, <2>3
<1>3. ASSUME NEW e \in Exec, NEW s \in Exec, BeginRun(e, s)
      PROVE  WorkspaceAtStage' /\ ActiveIsUsed'
  <2>1. WorkspaceAtStage'
    BY <1>3 DEF BeginRun, GoTo, TypeOK
  <2>2. /\ pc[e] = "creating" /\ pc'[e] = "running" /\ using'[e] = s
        /\ \A g \in Exec : g # e => pc'[g] = pc[g] /\ using'[g] = using[g]
        /\ \A t \in Exec : t # s => session'[t] = session[t]
    BY <1>3 DEF BeginRun, GoTo, TypeOK
  <2>3. ActiveIsUsed'
    BY <2>2 DEF ActiveIsUsed
  <2> QED BY <2>1, <2>3
<1>4. ASSUME NEW e \in Exec,
             \/ CreateFails(e) \/ \E s \in Exec : ResumeFails(e, s)
             \/ \E o \in RunOutcome : RunnerSettles(e, o)
             \/ ResultUnreadable(e)
      PROVE  WorkspaceAtStage' /\ ActiveIsUsed'
  <2>1. WorkspaceAtStage'
    BY <1>4 DEF CreateFails, ResumeFails, RunnerSettles, ResultUnreadable, GoTo, TypeOK
  <2>2. /\ UNCHANGED <<session, using>>
        /\ pc[e] = "creating" \/ pc'[e] \in {"validating", "crashed"}
        /\ \A g \in Exec : g # e => pc'[g] = pc[g]
    BY <1>4 DEF CreateFails, ResumeFails, RunnerSettles, ResultUnreadable, GoTo, TypeOK
  <2>3. ActiveIsUsed'
    BY <2>2 DEF ActiveIsUsed
  <2> QED BY <2>1, <2>3
<1>5. ASSUME NEW e \in Exec, NEW valid \in BOOLEAN, NEW retain \in BOOLEAN, NEW close \in {FALSE, CloseAllowed},
             BeginRelease(e, valid, close, retain) \/ EndWithoutRelease(e, valid, close, retain)
      PROVE  WorkspaceAtStage' /\ ActiveIsUsed'
  <2>1. WorkspaceAtStage'
    BY <1>5 DEF BeginRelease, EndWithoutRelease, RunStatusAfter, GoTo, TypeOK, RunOutcome
  <2>2. /\ UNCHANGED using /\ SettleSession(e, close)
        /\ \A g \in Exec : g # e => pc'[g] = pc[g]
    BY <1>5 DEF BeginRelease, EndWithoutRelease, GoTo, TypeOK
  <2>3. ASSUME NEW s \in Exec, session'[s] = "ACTIVE"
        PROVE  session[s] = "ACTIVE" /\ s # using[e]
    BY <2>2, <2>3 DEF SettleSession, TypeOK
  <2>4. ActiveIsUsed'
    BY <2>2, <2>3 DEF ActiveIsUsed
  <2> QED BY <2>1, <2>4
<1>6. ASSUME NEW e \in Exec, EndRelease(e) \/ ReleaseFails(e)
      PROVE  WorkspaceAtStage' /\ ActiveIsUsed'
  <2>1. WorkspaceAtStage'
    BY <1>6 DEF EndRelease, ReleaseFails, GoTo, TypeOK
  <2>2. /\ UNCHANGED <<session, using>> /\ pc[e] = "releasing"
        /\ \A g \in Exec : g # e => pc'[g] = pc[g]
    BY <1>6 DEF EndRelease, ReleaseFails, GoTo, TypeOK
  <2>3. ActiveIsUsed'
    BY <2>2 DEF ActiveIsUsed
  <2> QED BY <2>1, <2>3
<1>7. CASE ReapExpired \/ Tick \/ UNCHANGED vars
  BY <1>7 DEF ReapExpired, Tick, vars, ActiveIsUsed
<1> QED BY <1>1, <1>2, <1>3, <1>4, <1>5, <1>6, <1>7 DEF Next, Proceed

\* A result tells the truth about workspace and session, whatever failed.
THEOREM ResultsMatchWorkspaces == Spec => []ResultMatchesWorkspace
<1>1. Init => WorkspaceAtStage /\ ActiveIsUsed
  BY DEF Init, WorkspaceAtStage, ActiveIsUsed
<1>2. WorkspaceAtStage /\ ActiveIsUsed => ResultMatchesWorkspace
  BY DEF WorkspaceAtStage, ActiveIsUsed, ResultMatchesWorkspace
<1>3. TypeOK /\ WorkspaceAtStage /\ ActiveIsUsed /\ [Next]_vars => WorkspaceAtStage' /\ ActiveIsUsed'
  BY ResultStep
<1> QED
  BY TypeCorrect, <1>1, <1>2, <1>3, PTL DEF Spec

------------------------------------------------------------------------------

\* The calls whose agent works, and those whose agent will not work any more.
Active == {e \in Exec : pc[e] = "running"}
Ended == {e \in Exec : pc[e] \notin {"idle", "creating", "running"}}

\* A call that goes from one stage to another, as the abstract specification
\* sees it.
LEMMA StageChange ==
  ASSUME TypeOK, MutualExclusion', NEW e \in Exec,
         \/ GoTo(e, "creating", "running")
         \/ \E to \in {"validating", "crashed"} : GoTo(e, "running", to)
         \/ \E to \in {"validating", "rejected", "refused"} : GoTo(e, "idle", to)
         \/ GoTo(e, "creating", "validating")
         \/ GoTo(e, "idle", "creating")
         \/ \E to \in {"releasing", "finished"} : GoTo(e, "validating", to)
         \/ GoTo(e, "releasing", "finished")
  PROVE  [Abstract!Next]_<<Active, Ended>>
<1> USE DEF Active, Ended, GoTo, TypeOK
<1>1. CASE GoTo(e, "creating", "running")
  <2>1. Abstract!Begin(e)
    <3>1. e \notin Active \union Ended /\ Active' = Active \union {e} /\ Ended' = Ended
      BY <1>1
    <3>2. \A f \in Active : NeedOf[e] \intersect NeedOf[f] = {}
      BY <1>1, <3>1 DEF MutualExclusion
    <3> QED BY <3>1, <3>2 DEF Abstract!Begin
  <2> QED BY <2>1 DEF Abstract!Next
<1>2. CASE \E to \in {"validating", "crashed"} : GoTo(e, "running", to)
  <2>1. e \in Active /\ Active' = Active \ {e} /\ Ended' = Ended \union {e}
    BY <1>2
  <2> QED BY <2>1 DEF Abstract!End, Abstract!Next
<1>3. CASE \/ \E to \in {"validating", "rejected", "refused"} : GoTo(e, "idle", to)
           \/ GoTo(e, "creating", "validating")
  <2>1. e \notin Active \union Ended /\ Active' = Active /\ Ended' = Ended \union {e}
    BY <1>3
  <2> QED BY <2>1 DEF Abstract!Forgo, Abstract!Next
<1>4. CASE \/ GoTo(e, "idle", "creating")
           \/ \E to \in {"releasing", "finished"} : GoTo(e, "validating", to)
           \/ GoTo(e, "releasing", "finished")
  <2>1. Active' = Active /\ Ended' = Ended
    BY <1>4
  <2> QED BY <2>1
<1> QED BY <1>1, <1>2, <1>3, <1>4

\* Every step of the executor is a step of exclusive execution, or none.
LEMMA StepRefines ==
  ASSUME TypeOK, MutualExclusion', [Next]_vars
  PROVE  [Abstract!Next]_<<Active, Ended>>
<1>1. CASE UNCHANGED pc
  BY <1>1 DEF Active, Ended
<1>2. ASSUME NEW e \in Exec, Reject(e) \/ RefuseLocked(e) \/ Start(e) \/ StartWithoutProvider(e)
      PROVE  [Abstract!Next]_<<Active, Ended>>
  BY <1>2, StageChange DEF Reject, RefuseLocked, Start, StartWithoutProvider
<1>3. ASSUME NEW e \in Exec, Proceed(e)
      PROVE  [Abstract!Next]_<<Active, Ended>>
  BY <1>3, StageChange
  DEF Proceed, CreateFails, BeginRun, ResumeFails, RunnerSettles, ResultUnreadable, BeginRelease,
      EndWithoutRelease, EndRelease, ReleaseFails
<1> QED BY <1>1, <1>2, <1>3 DEF Next, vars, Heartbeat, HeartbeatFails, ReapExpired, Tick

\* The executor implements exclusive execution, under the same conditions.
THEOREM Implementation ==
  ASSUME DistinctAttempts, TimelyEnvironment, NoCloseUnderReuse
  PROVE  Spec => ImplementsExclusiveExecution
<1>1. Init => Abstract!Init
  BY DEF Init, Abstract!Init
<1>2. TypeOK /\ MutualExclusion' /\ [Next]_vars => [Abstract!Next]_<<Active, Ended>>
  BY StepRefines
<1> QED
  BY TypeCorrect, AgentsExcludeEachOther, <1>1, <1>2, PTL
  DEF Spec, ImplementsExclusiveExecution, Abstract!Spec, Active, Ended
==============================================================================
