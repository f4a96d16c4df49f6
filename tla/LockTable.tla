------------------------------ MODULE LockTable ------------------------------
(***************************************************************************)
(* The lock table of locks.mjs: a map from resource to the lease that      *)
(* holds it. An absent entry is NoLock. Every public operation of the      *)
(* manager first reaps the leases that have run out, so the operators      *)
(* below are written over a table and the time of the call.                *)
(***************************************************************************)
EXTENDS Naturals

CONSTANTS
  Resource,  \* lockable names: declared resource locks and "task:<id>"
  Owner,     \* owner identities: attempt ids
  NoLock     \* marks a resource without a lease

Lease == [owner : Owner, leaseUntil : Nat]

ASSUME NoLockAssumption == NoLock \notin Lease

LockTableType == [Resource -> Lease \union {NoLock}]

EmptyTable == [r \in Resource |-> NoLock]

\* reapExpiredInternal: a lease is gone from the millisecond it ends.
Reaped(table, now) ==
  [r \in Resource |-> IF table[r] # NoLock /\ table[r].leaseUntil <= now
                      THEN NoLock ELSE table[r]]

Holds(table, o, r) == table[r] # NoLock /\ table[r].owner = o

\* The requested resources another owner holds. An owner never conflicts with
\* itself: acquire is re-entrant.
Conflicts(table, o, wanted) ==
  {r \in wanted : table[r] # NoLock /\ table[r].owner # o}

Granted(table, o, wanted, until) ==
  [r \in Resource |-> IF r \in wanted THEN [owner |-> o, leaseUntil |-> until]
                      ELSE table[r]]

\* Mutant: one free resource is enough.
CanAcquireSome(table, o, wanted, now) == Conflicts(Reaped(table, now), o, wanted) # wanted

\* acquire is all or nothing over the requested resources.
CanAcquire(table, o, wanted, now) == Conflicts(Reaped(table, now), o, wanted) = {}

Acquired(table, o, wanted, now, leaseMs) ==
  IF CanAcquire(table, o, wanted, now)
  THEN Granted(Reaped(table, now), o, wanted, now + leaseMs)
  ELSE Reaped(table, now)

\* Mutants: any owner's lease is extended; the loop stops at the first resource.
ExtendedForAnyone(table, o, chosen, now, leaseMs) ==
  LET live == Reaped(table, now) IN
  Granted(live, o, {r \in chosen : live[r] # NoLock}, now + leaseMs)

ExtendedOnce(table, o, chosen, now, leaseMs) ==
  LET live == Reaped(table, now)
      held == {r \in chosen : Holds(live, o, r)}
  IN  IF held = {} THEN live ELSE Granted(live, o, {CHOOSE r \in held : TRUE}, now + leaseMs)

\* heartbeat extends what the owner still holds; a lease already reaped stays lost.
Extended(table, o, chosen, now, leaseMs) ==
  LET live == Reaped(table, now) IN
  Granted(live, o, {r \in chosen : Holds(live, o, r)}, now + leaseMs)

\* release deletes the owner's entries, expired or not, and reaps nothing.
Released(table, o, chosen) ==
  [r \in Resource |-> IF r \in chosen /\ Holds(table, o, r) THEN NoLock ELSE table[r]]
==============================================================================
