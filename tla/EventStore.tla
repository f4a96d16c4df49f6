------------------------------ MODULE EventStore ------------------------------
(***************************************************************************)
(* append of the event store (event-store.mjs) on a log, a sequence of     *)
(* events with an `id` and an idempotency `key`.                           *)
(***************************************************************************)
EXTENDS Sequences, Naturals

Ids(log) == {log[i].id : i \in DOMAIN log}

Keys(log) == {log[i].key : i \in DOMAIN log}

\* An event known by id or by key is not stored again: it is answered as a
\* duplicate, or refused when it collides.
Appended(log, event) ==
  IF event.id \in Ids(log) \/ event.key \in Keys(log) THEN log ELSE Append(log, event)
===============================================================================
