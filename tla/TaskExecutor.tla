----------------------------- MODULE TaskExecutor -----------------------------
(***************************************************************************)
(* The task executor and the managers it drives: the lock table, one       *)
(* workspace per execution, and the agent sessions. Each member of Exec is *)
(* one call of execute(); between two awaits a call runs without           *)
(* interruption, so every action below is the code from one await to the   *)
(* next. The heartbeat is a timer of its own, armed while the runner works.*)
(*                                                                         *)
(* Time is the clock the lock manager reads. MaxCreate and TimerSlack bound *)
(* what the environment does with it: how long a workspace provider takes  *)
(* and how late the event loop fires a timer. Neither is bounded by the    *)
(* code; a configuration shows what each value of them leads to.           *)
(***************************************************************************)
EXTENDS LockTable

CONSTANTS
  Exec,               \* calls of execute
  OwnerOf,            \* [Exec -> Owner]: attempt-<taskId>-<task.attempt + 1>
  NeedOf,             \* [Exec -> SUBSET Resource]: resourceLocks or task:<taskId>
  LeaseMs, HeartbeatInterval,
  MaxCreate, TimerSlack,
  MaxTime,            \* bound on the clock
  ReuseAllowed,       \* callers pass reuseSessionId
  CloseAllowed,       \* callers pass closeSession
  MalformedAllowed,   \* runners may return parsedOutput whose lists are no lists
  NoSession

ASSUME ExecutorAssumption ==
  /\ OwnerOf \in [Exec -> Owner]
  /\ NeedOf \in [Exec -> SUBSET Resource]
  /\ LeaseMs \in Nat /\ HeartbeatInterval \in Nat \ {0} /\ HeartbeatInterval <= LeaseMs
  /\ MaxCreate \in Nat /\ TimerSlack \in Nat /\ MaxTime \in Nat
  /\ {ReuseAllowed, CloseAllowed, MalformedAllowed} \subseteq BOOLEAN
  /\ NoSession \notin Exec

VARIABLES
  now, locks,
  pc,         \* the await each call is at
  acquiredAt, \* when the call got its locks, while it creates its workspace
  nextBeat,   \* when its heartbeat timer is due, while its runner works
  workspace,  \* status of the workspace made for the call
  session,    \* status of the session the call created
  using,      \* the session the call runs in, named by the call that created it
  outcome     \* run status so far

vars == <<now, locks, pc, acquiredAt, nextBeat, workspace, session, using, outcome>>

Stage == {"idle", "creating", "running", "validating", "releasing",
          "finished",   \* returned a result
          "refused",    \* returned lock_conflict
          "rejected",   \* threw before taking a lock
          "crashed"}    \* threw while building the agent result
WorkspaceStatus == {"NONE", "CREATING", "IN_USE", "STALE", "RELEASING", "RELEASED", "FAILED"}
SessionStatus == {"NONE", "ACTIVE", "IDLE", "CLOSED"}
\* CANCELLED and TIMED_OUT are treated as FAILED is everywhere in the executor.
RunOutcome == {"SUCCEEDED", "FAILED"}

TypeOK ==
  /\ now \in Nat
  /\ locks \in LockTableType
  /\ pc \in [Exec -> Stage]
  /\ acquiredAt \in [Exec -> Nat]
  /\ nextBeat \in [Exec -> Nat]
  /\ workspace \in [Exec -> WorkspaceStatus]
  /\ session \in [Exec -> SessionStatus]
  /\ using \in [Exec -> Exec \union {NoSession}]
  /\ outcome \in [Exec -> RunOutcome \union {"NONE"}]

Init ==
  /\ now = 0
  /\ locks = EmptyTable
  /\ pc = [e \in Exec |-> "idle"]
  /\ acquiredAt = [e \in Exec |-> 0]
  /\ nextBeat = [e \in Exec |-> 0]
  /\ workspace = [e \in Exec |-> "NONE"]
  /\ session = [e \in Exec |-> "NONE"]
  /\ using = [e \in Exec |-> NoSession]
  /\ outcome = [e \in Exec |-> "NONE"]

GoTo(e, from, to) == pc[e] = from /\ pc' = [pc EXCEPT ![e] = to]

\* A missing argument, the task policy or the runner registry makes execute
\* throw before it touches anything.
Reject(e) ==
  /\ GoTo(e, "idle", "rejected")
  /\ UNCHANGED <<now, locks, acquiredAt, nextBeat, workspace, session, using, outcome>>

RefuseLocked(e) ==
  /\ ~CanAcquire(locks, OwnerOf[e], NeedOf[e], now)
  /\ GoTo(e, "idle", "refused")
  /\ locks' = Acquired(locks, OwnerOf[e], NeedOf[e], now, LeaseMs)
  /\ outcome' = [outcome EXCEPT ![e] = "FAILED"]
  /\ UNCHANGED <<now, acquiredAt, nextBeat, workspace, session, using>>

TakeLocks(e) ==
  /\ CanAcquire(locks, OwnerOf[e], NeedOf[e], now)
  /\ locks' = Acquired(locks, OwnerOf[e], NeedOf[e], now, LeaseMs)

\* The call up to the await of the provider: locks taken, workspace CREATING.
Start(e) ==
  /\ TakeLocks(e)
  /\ GoTo(e, "idle", "creating")
  /\ workspace' = [workspace EXCEPT ![e] = "CREATING"]
  /\ acquiredAt' = [acquiredAt EXCEPT ![e] = now]
  /\ UNCHANGED <<now, nextBeat, session, using, outcome>>

\* The workspace provider is not registered: create throws before it records
\* a workspace, and the failure goes on to validation.
StartWithoutProvider(e) ==
  /\ TakeLocks(e)
  /\ GoTo(e, "idle", "validating")
  /\ outcome' = [outcome EXCEPT ![e] = "FAILED"]
  /\ UNCHANGED <<now, acquiredAt, nextBeat, workspace, session, using>>

\* The provider fails: the workspace record is FAILED and the call has none.
CreateFails(e) ==
  /\ GoTo(e, "creating", "validating")
  /\ workspace' = [workspace EXCEPT ![e] = "FAILED"]
  /\ outcome' = [outcome EXCEPT ![e] = "FAILED"]
  /\ acquiredAt' = [acquiredAt EXCEPT ![e] = 0]
  /\ UNCHANGED <<now, locks, nextBeat, session, using>>

\* The sessions the call may ask for: a new one of its own, or an old one.
Wanted(e) == {e} \union {s \in Exec : ReuseAllowed /\ session[s] # "NONE"}

Usable(e, s) == s = e \/ session[s] # "CLOSED"

\* Workspace IN_USE, session created or resumed, heartbeat armed, runner called.
BeginRun(e, s) ==
  /\ s \in Wanted(e) /\ Usable(e, s)
  /\ GoTo(e, "creating", "running")
  /\ workspace' = [workspace EXCEPT ![e] = "IN_USE"]
  /\ session' = [session EXCEPT ![s] = "ACTIVE"]
  /\ using' = [using EXCEPT ![e] = s]
  /\ nextBeat' = [nextBeat EXCEPT ![e] = now + HeartbeatInterval]
  /\ acquiredAt' = [acquiredAt EXCEPT ![e] = 0]
  /\ UNCHANGED <<now, locks, outcome>>

\* resume throws on a closed session: the runner is never called.
ResumeFails(e, s) ==
  /\ s \in Wanted(e) /\ ~Usable(e, s)
  /\ GoTo(e, "creating", "validating")
  /\ workspace' = [workspace EXCEPT ![e] = "IN_USE"]
  /\ outcome' = [outcome EXCEPT ![e] = "FAILED"]
  /\ acquiredAt' = [acquiredAt EXCEPT ![e] = 0]
  /\ UNCHANGED <<now, locks, nextBeat, session, using>>

\* Mutant: the timer is not cleared when the call throws.
TimerFiresAfterCrash(e) ==
  /\ pc[e] \in {"running", "crashed"} /\ now >= nextBeat[e]
  /\ nextBeat' = [nextBeat EXCEPT ![e] = now + HeartbeatInterval]

TimerFires(e) ==
  /\ pc[e] = "running" /\ now >= nextBeat[e]
  /\ nextBeat' = [nextBeat EXCEPT ![e] = now + HeartbeatInterval]

\* The result of the lock heartbeat is ignored: a lost lease stays unnoticed.
Heartbeat(e) ==
  /\ TimerFires(e)
  /\ session[using[e]] # "CLOSED"
  /\ session' = [session EXCEPT ![using[e]] = "ACTIVE"]
  /\ locks' = Extended(locks, OwnerOf[e], Resource, now, LeaseMs)
  /\ UNCHANGED <<now, pc, acquiredAt, workspace, using, outcome>>

\* The session heartbeat throws, so the lock heartbeat after it is skipped.
HeartbeatFails(e) ==
  /\ TimerFires(e)
  /\ session[using[e]] = "CLOSED"
  /\ UNCHANGED <<now, locks, pc, acquiredAt, workspace, session, using, outcome>>

\* The runner resolves (or throws, which counts as FAILED); the timer is
\* cleared and the agent result is handed to the validator.
RunnerSettles(e, o) ==
  /\ GoTo(e, "running", "validating")
  /\ outcome' = [outcome EXCEPT ![e] = o]
  /\ nextBeat' = [nextBeat EXCEPT ![e] = 0]
  /\ UNCHANGED <<now, locks, acquiredAt, workspace, session, using>>

\* Spreading a parsedOutput field that is not iterable throws outside every
\* try: execute rejects and nothing is cleaned up.
ResultUnreadable(e) ==
  /\ MalformedAllowed
  /\ GoTo(e, "running", "crashed")
  /\ nextBeat' = [nextBeat EXCEPT ![e] = 0]
  /\ UNCHANGED <<now, locks, acquiredAt, workspace, session, using, outcome>>

SettleSession(e, close) ==
  session' = IF using[e] = NoSession \/ session[using[e]] = "CLOSED" THEN session
             ELSE [session EXCEPT ![using[e]] = IF close THEN "CLOSED" ELSE "IDLE"]

RunStatusAfter(e, valid) == IF valid THEN outcome[e] ELSE "FAILED"

ReleaseLocks(e) == locks' = Released(locks, OwnerOf[e], Resource)

\* Validation is over and the workspace is to go: await its release.
BeginRelease(e, valid, close, retain) ==
  /\ workspace[e] = "IN_USE"
  /\ RunStatusAfter(e, valid) = "SUCCEEDED" \/ ~retain
  /\ GoTo(e, "validating", "releasing")
  /\ SettleSession(e, close)
  /\ workspace' = [workspace EXCEPT ![e] = "RELEASING"]
  /\ outcome' = [outcome EXCEPT ![e] = RunStatusAfter(e, valid)]
  /\ UNCHANGED <<now, locks, acquiredAt, nextBeat, using>>

\* Mutant: the locks stay taken when the workspace is kept.
EndWithoutReleaseLeaking(e, valid, close, retain) ==
  /\ \/ workspace[e] # "IN_USE"
     \/ RunStatusAfter(e, valid) # "SUCCEEDED" /\ retain
  /\ GoTo(e, "validating", "finished")
  /\ SettleSession(e, close)
  /\ workspace' = [workspace EXCEPT ![e] = IF @ = "IN_USE" THEN "STALE" ELSE @]
  /\ outcome' = [outcome EXCEPT ![e] = RunStatusAfter(e, valid)]
  /\ UNCHANGED <<now, locks, acquiredAt, nextBeat, using>>

\* The workspace is kept for repair, or there is none: the call ends here.
EndWithoutRelease(e, valid, close, retain) ==
  /\ \/ workspace[e] # "IN_USE"
     \/ RunStatusAfter(e, valid) # "SUCCEEDED" /\ retain
  /\ GoTo(e, "validating", "finished")
  /\ SettleSession(e, close)
  /\ workspace' = [workspace EXCEPT ![e] = IF @ = "IN_USE" THEN "STALE" ELSE @]
  /\ ReleaseLocks(e)
  /\ outcome' = [outcome EXCEPT ![e] = RunStatusAfter(e, valid)]
  /\ UNCHANGED <<now, acquiredAt, nextBeat, using>>

EndRelease(e) ==
  /\ GoTo(e, "releasing", "finished")
  /\ workspace' = [workspace EXCEPT ![e] = "RELEASED"]
  /\ ReleaseLocks(e)
  /\ UNCHANGED <<now, acquiredAt, nextBeat, session, using, outcome>>

\* Mutant: a provider error is not reported.
ReleaseFailsUnreported(e) ==
  /\ GoTo(e, "releasing", "finished")
  /\ workspace' = [workspace EXCEPT ![e] = "FAILED"]
  /\ ReleaseLocks(e)
  /\ UNCHANGED <<now, acquiredAt, nextBeat, session, using, outcome>>

\* The provider fails to release: a success becomes cleanup_failed.
ReleaseFails(e) ==
  /\ GoTo(e, "releasing", "finished")
  /\ workspace' = [workspace EXCEPT ![e] = "FAILED"]
  /\ ReleaseLocks(e)
  /\ outcome' = [outcome EXCEPT ![e] = IF @ = "SUCCEEDED" THEN "FAILED" ELSE @]
  /\ UNCHANGED <<now, acquiredAt, nextBeat, session, using>>

\* ownerOf, snapshot and reapExpired, called by anyone.
ReapExpired ==
  /\ locks' = Reaped(locks, now)
  /\ UNCHANGED <<now, pc, acquiredAt, nextBeat, workspace, session, using, outcome>>

Tick ==
  /\ now < MaxTime
  /\ \A e \in Exec : /\ pc[e] = "creating" => now < acquiredAt[e] + MaxCreate
                     /\ pc[e] = "running" => now < nextBeat[e] + TimerSlack
  /\ now' = now + 1
  /\ UNCHANGED <<locks, pc, acquiredAt, nextBeat, workspace, session, using, outcome>>

\* The steps a call takes once it has started.
Proceed(e) ==
  \/ CreateFails(e)
  \/ \E s \in Exec : BeginRun(e, s) \/ ResumeFails(e, s)
  \/ \E o \in RunOutcome : RunnerSettles(e, o)
  \/ ResultUnreadable(e)
  \/ \E valid, retain \in BOOLEAN, close \in {FALSE, CloseAllowed} :
       BeginRelease(e, valid, close, retain) \/ EndWithoutRelease(e, valid, close, retain)
  \/ EndRelease(e)
  \/ ReleaseFails(e)

Next ==
  \/ \E e \in Exec : \/ Reject(e) \/ RefuseLocked(e) \/ Start(e) \/ StartWithoutProvider(e)
                     \/ Heartbeat(e) \/ HeartbeatFails(e)
                     \/ Proceed(e)
  \/ ReapExpired
  \/ Tick

Spec == Init /\ [][Next]_vars

------------------------------------------------------------------------------
\* Conditions on callers and environment, constant-level.

\* No two calls are given the same attempt of the same task.
DistinctAttempts == \A e, f \in Exec : OwnerOf[e] = OwnerOf[f] => e = f

\* Workspace creation and one heartbeat period fit in a lease.
TimelyEnvironment == MaxCreate + HeartbeatInterval + TimerSlack < LeaseMs

\* Callers that reuse sessions do not close them.
NoCloseUnderReuse == ~ReuseAllowed \/ ~CloseAllowed

\* Why the conditions suffice: the inductive invariant behind MutualExclusion.
\* A call that makes its workspace is inside its first lease; one whose agent
\* works has a lease that outlasts its next heartbeat, and a session open to
\* that heartbeat.
Secured(e) ==
  /\ pc[e] = "creating" =>
       /\ acquiredAt[e] <= now /\ now <= acquiredAt[e] + MaxCreate
       /\ \A r \in NeedOf[e] : /\ Holds(locks, OwnerOf[e], r)
                               /\ locks[r].leaseUntil >= acquiredAt[e] + LeaseMs
  /\ pc[e] = "running" =>
       /\ now <= nextBeat[e] + TimerSlack
       /\ \A r \in NeedOf[e] : /\ Holds(locks, OwnerOf[e], r)
                               /\ locks[r].leaseUntil > nextBeat[e] + TimerSlack
       /\ using[e] \in Exec /\ session[using[e]] # "CLOSED"

SessionsApart ==
  \A e \in Exec : /\ ~ReuseAllowed => using[e] \in {e, NoSession}
                  /\ ~CloseAllowed => session[e] # "CLOSED"

SecuredRuns == SessionsApart /\ \A e \in Exec : Secured(e)

------------------------------------------------------------------------------

\* While an agent works, the lock table holds every resource of its task for
\* it under a lease that has not run out, although nothing renews the lease
\* while the workspace is made and the heartbeat never looks at the answer
\* (task-executor.mjs:61-114).
LeaseCoversRun ==
  \A e \in Exec : pc[e] = "running" =>
    \A r \in NeedOf[e] : Holds(locks, OwnerOf[e], r) /\ locks[r].leaseUntil > now

\* Two agents never work at the same time on tasks that need a common resource.
MutualExclusion ==
  \A e, f \in Exec : e # f /\ pc[e] = "running" /\ pc[f] = "running" =>
    NeedOf[e] \intersect NeedOf[f] = {}

\* "A multi-resource lock acquisition is atomic", and stays so: at no time does
\* a call in progress have some of its resources and not the others, however
\* its lease is extended, expires or is taken over by another call.
AllOrNothing ==
  \A e \in Exec : pc[e] \in {"creating", "running", "validating", "releasing"} =>
    LET mine == {r \in NeedOf[e] : Holds(Reaped(locks, now), OwnerOf[e], r)}
    IN  mine = {} \/ mine = NeedOf[e]

\* A call that has returned, or threw before it took a lock, leaves no lock
\* behind, on every path through creation, run, validation and cleanup
\* failures (task-executor.mjs:67-79, 171-190).
EndedHoldsNothing ==
  \A e \in Exec : pc[e] \in {"finished", "refused", "rejected"} =>
    \A r \in Resource : ~Holds(locks, OwnerOf[e], r)

\* A success is reported only for an execution whose workspace was released
\* and whose session is no longer ACTIVE on its account; a failed one leaves a
\* workspace that is stale, failed or released, never one in use
\* (task-executor.mjs:170-199).
ResultMatchesWorkspace ==
  \A e \in Exec : pc[e] = "finished" =>
    /\ workspace[e] \in {"NONE", "STALE", "RELEASED", "FAILED"}
    /\ outcome[e] = "SUCCEEDED" => workspace[e] = "RELEASED"
    /\ session[e] = "ACTIVE" => \E f \in Exec : using[f] = e /\ pc[f] # "finished"

\* Whatever never ends holds no lock for good: only while its agent works are the
\* locks of a call renewed. One that threw over an unreadable result and cleaned
\* nothing up, or waits for a provider or a validator that never answers, has
\* others kept off its resources until the lease it has runs out, and no longer
\* (task-executor.mjs:88-129, 146-150, 163-164).
RenewedByRunsAlone ==
  \A e \in Exec : pc[e] \notin {"idle", "running"} =>
    \A r \in Resource : Holds(locks', OwnerOf[e], r) => locks'[r] = locks[r]
OnlyRunsRenew == [][RenewedByRunsAlone]_vars

\* The executor implements exclusive execution.
Abstract == INSTANCE ExclusiveExecution WITH
  active <- {e \in Exec : pc[e] = "running"},
  ended  <- {e \in Exec : pc[e] \notin {"idle", "creating", "running"}}
ImplementsExclusiveExecution == Abstract!Spec
==============================================================================
