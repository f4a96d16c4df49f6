----------------------------- MODULE LockManager -----------------------------
(***************************************************************************)
(* The lock manager under arbitrary clients and a clock that moves on.     *)
(* `told` is what the clients know: told[o][r] is the end of the last      *)
(* lease on r the manager returned to o, 0 when it returned none or o has  *)
(* released r. `leaseId` and `lastLease` are the ids acquire hands out and *)
(* the counter behind them; `issued` is the history of the holdings each   *)
(* id was given to.                                                        *)
(***************************************************************************)
EXTENDS LockTable, FiniteSets

CONSTANTS
  LeaseLengths,  \* the leaseMs values clients pass
  MaxTime,       \* bound on the clock
  MaxLeases      \* bound on the lease ids issued

ASSUME ResourceAssumption == IsFiniteSet(Resource)
ASSUME LeaseLengthsAssumption == LeaseLengths \subseteq Nat \ {0}
ASSUME BoundsAssumption == MaxTime \in Nat /\ MaxLeases \in Nat

VARIABLES now, locks, told, leaseId, lastLease, issued

lockVars == <<now, locks, told, leaseId, lastLease, issued>>

Holding == [id : Nat, owner : Owner, resource : Resource]

LocksTypeOK ==
  /\ now \in Nat
  /\ locks \in LockTableType
  /\ told \in [Owner -> [Resource -> Nat]]
  /\ leaseId \in [Resource -> Nat]
  /\ lastLease \in Nat
  /\ issued \subseteq Holding

LockInit ==
  /\ now = 0
  /\ locks = EmptyTable
  /\ told = [o \in Owner |-> [r \in Resource |-> 0]]
  /\ leaseId = [r \in Resource |-> 0]
  /\ lastLease = 0
  /\ issued = {}

Tell(o, told_o) == told' = [told EXCEPT ![o] = told_o]

\* Mutant: one id is drawn for the whole request.
FreshIdsPerRequest(new) == [new -> {lastLease + 1}]

\* Fresh ids for the resources in `new`, numbered on from lastLease.
FreshIds(new) ==
  {f \in [new -> (lastLease + 1)..(lastLease + Cardinality(new))] :
     \A r, s \in new : f[r] = f[s] => r = s}

\* A successful acquire. A resource the owner already holds keeps its lease id
\* and gets the new, possibly earlier, end.
AcquireGranted(o, wanted, leaseMs) ==
  LET live == Reaped(locks, now)
      new  == {r \in wanted : live[r] = NoLock}
  IN  /\ wanted # {}
      /\ CanAcquire(locks, o, wanted, now)
      /\ lastLease + Cardinality(new) <= MaxLeases
      /\ locks' = Acquired(locks, o, wanted, now, leaseMs)
      /\ Tell(o, [r \in Resource |-> IF r \in wanted THEN now + leaseMs ELSE told[o][r]])
      /\ \E f \in FreshIds(new) :
           /\ leaseId' = [r \in Resource |-> IF r \in new THEN f[r] ELSE leaseId[r]]
           /\ issued' = issued \union {[id |-> f[r], owner |-> o, resource |-> r] : r \in new}
      /\ lastLease' = lastLease + Cardinality(new)
      /\ UNCHANGED now

\* A refused acquire: expired leases are reaped all the same.
AcquireRefused(o, wanted, leaseMs) ==
  /\ wanted # {}
  /\ ~CanAcquire(locks, o, wanted, now)
  /\ locks' = Acquired(locks, o, wanted, now, leaseMs)
  /\ UNCHANGED <<now, told, leaseId, lastLease, issued>>

Heartbeat(o, chosen, leaseMs) ==
  /\ locks' = Extended(locks, o, chosen, now, leaseMs)
  /\ Tell(o, [r \in Resource |-> IF r \in chosen /\ Holds(Reaped(locks, now), o, r)
                                 THEN now + leaseMs ELSE told[o][r]])
  /\ UNCHANGED <<now, leaseId, lastLease, issued>>

Release(o, chosen) ==
  /\ locks' = Released(locks, o, chosen)
  /\ Tell(o, [r \in Resource |-> IF r \in chosen THEN 0 ELSE told[o][r]])
  /\ UNCHANGED <<now, leaseId, lastLease, issued>>

\* reapExpired, ownerOf and snapshot: all three reap, none changes a live lease.
ReapExpired ==
  /\ locks' = Reaped(locks, now)
  /\ UNCHANGED <<now, told, leaseId, lastLease, issued>>

LockTick ==
  /\ now < MaxTime
  /\ now' = now + 1
  /\ UNCHANGED <<locks, told, leaseId, lastLease, issued>>

LockNext ==
  \/ \E o \in Owner, chosen \in SUBSET Resource, leaseMs \in LeaseLengths :
       \/ AcquireGranted(o, chosen, leaseMs)
       \/ AcquireRefused(o, chosen, leaseMs)
       \/ Heartbeat(o, chosen, leaseMs)
  \/ \E o \in Owner, chosen \in SUBSET Resource : Release(o, chosen)
  \/ ReapExpired
  \/ LockTick

LockSpec == LockInit /\ [][LockNext]_lockVars

------------------------------------------------------------------------------

\* What a client may rely on: while the last lease the manager returned to it
\* has not run out, the manager holds the resource for it, whatever the other
\* clients did meanwhile (locks.mjs:6-68).
ToldIsHeld ==
  \A o \in Owner, r \in Resource :
    told[o][r] > now => Holds(locks, o, r) /\ locks[r].leaseUntil = told[o][r]

\* Two clients never both trust an unexpired lease on the same resource.
NoOverlappingTrust ==
  \A o, p \in Owner, r \in Resource :
    told[o][r] > now /\ told[p][r] > now => o = p

\* A lease id names one holding: it is never handed out again, to another
\* owner or for another resource, after an expiry, a release or a refused
\* request (locks.mjs:32, existing?.leaseId || `lease-${++version}`).
LeaseIdNamesOneHolding == \A a, b \in issued : a.id = b.id => a = b

\* The inductive part of LeaseIdNamesOneHolding.
IssuedBelowCounter == \A a \in issued : a.id <= lastLease

==============================================================================
