-------------------------- MODULE LocalProcessRunner --------------------------
(***************************************************************************)
(* The local process runner (local-process-runner.mjs). A member of Call   *)
(* is one call of execute(), which spawns one child process; timeout,      *)
(* cancellation, abort, output and the end of the child are events that    *)
(* race for the outcome. Calls name their execution by id, and ids may be  *)
(* used again.                                                             *)
(*                                                                         *)
(* Node's child process is external: exitCode stays null until the child   *)
(* exits by itself and forever if a signal ends it, `killed` is set once a *)
(* signal was delivered, "close" comes after the end of the child and of   *)
(* its output, and a child that cannot be spawned has "error" first.       *)
(***************************************************************************)
EXTENDS Naturals

CONSTANTS
  Call,
  Id,
  IdOf,       \* [Call -> Id]: the executionId of each call
  Timed,      \* calls with timeoutMs > 0
  NoCall

ASSUME RunnerAssumption ==
  /\ IdOf \in [Call -> Id]
  /\ Timed \subseteq Call
  /\ NoCall \notin Call

VARIABLES
  active,   \* active[i]: the call that runs as i
  child,    \* the child process of each call
  killed,   \* child.killed
  doomed,   \* calls whose child was sent SIGKILL
  reason,   \* terminationReason
  timer,    \* calls whose timeout is armed
  grace,    \* calls whose force kill is armed
  aborted,  \* calls whose AbortSignal is aborted
  closed,   \* calls whose child has had its "close" event
  result,   \* the status each promise was resolved with
  asked,    \* history: what asked a call to end
  told      \* history: calls whose cancel() returned true

vars == <<active, child, killed, doomed, reason, timer, grace, aborted, closed, result, asked, told>>

Reason == {"TIMEOUT", "CANCELLED", "OUTPUT_LIMIT"}
Exited == {"exit zero", "exit other"}
ChildState == {"none", "refused", "running", "unspawned", "signalled"} \union Exited
RunStatus == {"SUCCEEDED", "FAILED", "CANCELLED", "TIMED_OUT"}

TypeOK ==
  /\ active \in [Id -> Call \union {NoCall}]
  /\ child \in [Call -> ChildState]
  /\ {killed, doomed, timer, grace, aborted, closed, told} \subseteq SUBSET Call
  /\ reason \in [Call -> Reason \union {"NONE"}]
  /\ result \in [Call -> RunStatus \union {"NONE"}]
  /\ asked \in [Call -> SUBSET Reason]

Init ==
  /\ active = [i \in Id |-> NoCall]
  /\ child = [c \in Call |-> "none"]
  /\ killed = {} /\ doomed = {} /\ timer = {} /\ grace = {} /\ aborted = {}
  /\ closed = {} /\ told = {}
  /\ reason = [c \in Call |-> "NONE"]
  /\ result = [c \in Call |-> "NONE"]
  /\ asked = [c \in Call |-> {}]

Settled(c) == result[c] # "NONE"

\* The call spawned a child, or tried to, and its promise is open.
Open(c) == child[c] \notin {"none", "refused"} /\ ~Settled(c)

\* The id is in use: execute throws.
Refuse(c) ==
  /\ child[c] = "none"
  /\ active[IdOf[c]] # NoCall
  /\ child' = [child EXCEPT ![c] = "refused"]
  /\ UNCHANGED <<active, killed, doomed, reason, timer, grace, aborted, closed, result, asked, told>>

\* The listener added to a signal that is aborted already is never called.
Execute(c, spawned) ==
  /\ child[c] = "none"
  /\ active[IdOf[c]] = NoCall
  /\ child' = [child EXCEPT ![c] = spawned]
  /\ active' = [active EXCEPT ![IdOf[c]] = c]
  /\ timer' = timer \union ({c} \intersect Timed)
  /\ UNCHANGED <<killed, doomed, reason, grace, aborted, closed, result, asked, told>>

\* Mutant: SIGTERM is sent, and nothing follows when it is ignored.
TerminatePolitely(c) ==
  /\ killed' = IF child[c] = "running" THEN killed \union {c} ELSE killed
  /\ UNCHANGED grace

\* terminate: SIGTERM once, and a timer for SIGKILL.
Terminate(c) ==
  IF child[c] \in Exited \/ c \in killed
  THEN UNCHANGED <<killed, grace>>
  ELSE /\ killed' = IF child[c] = "running" THEN killed \union {c} ELSE killed
       /\ grace' = grace \union {c}

\* The last to ask names the reason.
Ask(c, why) ==
  /\ Open(c)
  /\ reason' = [reason EXCEPT ![c] = why]
  /\ asked' = [asked EXCEPT ![c] = @ \union {why}]
  /\ Terminate(c)
  /\ UNCHANGED <<active, child, doomed, closed, result>>

\* Mutant: the timer ends the child and does not say why.
TimeoutUnnamed(c) ==
  /\ c \in timer
  /\ Open(c)
  /\ timer' = timer \ {c}
  /\ asked' = [asked EXCEPT ![c] = @ \union {"TIMEOUT"}]
  /\ Terminate(c)
  /\ UNCHANGED <<active, child, doomed, reason, closed, result, aborted, told>>

\* The timer of a settled call is cleared.
Timeout(c) ==
  /\ c \in timer
  /\ Ask(c, "TIMEOUT")
  /\ timer' = timer \ {c}
  /\ UNCHANGED <<aborted, told>>

\* Mutant: the promise is settled as soon as the child was told to end.
CancelAtOnce(c) ==
  /\ active[IdOf[c]] = c
  /\ Open(c)
  /\ reason' = [reason EXCEPT ![c] = "CANCELLED"]
  /\ asked' = [asked EXCEPT ![c] = @ \union {"CANCELLED"}]
  /\ killed' = IF child[c] = "running" THEN killed \union {c} ELSE killed
  /\ told' = told \union {c}
  /\ result' = [result EXCEPT ![c] = "CANCELLED"]
  /\ active' = [active EXCEPT ![IdOf[c]] = NoCall]
  /\ UNCHANGED <<child, doomed, timer, grace, aborted, closed>>

\* cancel(i): false, and nothing done, when nothing runs as i.
Cancel(c) ==
  /\ active[IdOf[c]] = c
  /\ Ask(c, "CANCELLED")
  /\ told' = told \union {c}
  /\ UNCHANGED <<timer, aborted>>

\* The owner of the AbortSignal aborts it, once; before execute or after the
\* result that does nothing.
Abort(c) ==
  /\ c \notin aborted
  /\ aborted' = aborted \union {c}
  /\ IF active[IdOf[c]] = c
     THEN Ask(c, "CANCELLED") /\ told' = told \union {c}
     ELSE UNCHANGED <<active, child, killed, doomed, reason, grace, closed, result, asked, told>>
  /\ UNCHANGED timer

\* A chunk beyond maxOutputBytes; every further chunk says so again.
Overflow(c) ==
  /\ child[c] # "unspawned"
  /\ Ask(c, "OUTPUT_LIMIT")
  /\ UNCHANGED <<timer, aborted, told>>

ForceKill(c) ==
  /\ c \in grace
  /\ grace' = grace \ {c}
  /\ doomed' = IF child[c] = "running" THEN doomed \union {c} ELSE doomed
  /\ killed' = IF child[c] = "running" THEN killed \union {c} ELSE killed
  /\ UNCHANGED <<active, child, reason, timer, aborted, closed, result, asked, told>>

\* The child ends by itself, whether or not it was asked to, or by a signal,
\* whether or not the runner sent it.
ChildEnds(c, how) ==
  /\ child[c] = "running"
  /\ child' = [child EXCEPT ![c] = how]
  /\ UNCHANGED <<active, killed, doomed, reason, timer, grace, aborted, closed, result, asked, told>>

\* Mutant: the guard on `settled` is gone.
FinishAgain(c, status) ==
  /\ result' = [result EXCEPT ![c] = status]
  /\ active' = [active EXCEPT ![IdOf[c]] = NoCall]
  /\ timer' = timer \ {c}
  /\ grace' = grace \ {c}

\* finish: the first call settles the promise, the others do nothing.
Finish(c, status) ==
  IF Settled(c) THEN UNCHANGED <<result, active, timer, grace>>
  ELSE /\ result' = [result EXCEPT ![c] = status]
       /\ active' = [active EXCEPT ![IdOf[c]] = NoCall]
       /\ timer' = timer \ {c}
       /\ grace' = grace \ {c}

SpawnError(c) ==
  /\ child[c] = "unspawned" /\ ~Settled(c)
  /\ Finish(c, "FAILED")
  /\ UNCHANGED <<child, killed, doomed, reason, aborted, closed, asked, told>>

\* Mutant: the exit code is looked at first.
ClosingStatusByExit(c) ==
  IF child[c] = "exit zero" THEN "SUCCEEDED"
  ELSE IF reason[c] = "TIMEOUT" THEN "TIMED_OUT"
  ELSE IF reason[c] = "CANCELLED" THEN "CANCELLED" ELSE "FAILED"

ClosingStatus(c) ==
  IF reason[c] = "TIMEOUT" THEN "TIMED_OUT"
  ELSE IF reason[c] = "CANCELLED" THEN "CANCELLED"
  ELSE IF reason[c] = "NONE" /\ child[c] = "exit zero" THEN "SUCCEEDED" ELSE "FAILED"

\* The "close" event, after the "error" of a child that was not spawned.
Close(c) ==
  /\ child[c] \in Exited \union {"signalled", "unspawned"}
  /\ child[c] = "unspawned" => Settled(c)
  /\ c \notin closed
  /\ closed' = closed \union {c}
  /\ Finish(c, ClosingStatus(c))
  /\ UNCHANGED <<child, killed, doomed, reason, aborted, asked, told>>

Next ==
  \E c \in Call :
    \/ Refuse(c)
    \/ \E spawned \in {"running", "unspawned"} : Execute(c, spawned)
    \/ Timeout(c) \/ Cancel(c) \/ Abort(c) \/ Overflow(c)
    \/ ForceKill(c)
    \/ \E how \in Exited \union {"signalled"} : ChildEnds(c, how)
    \/ SpawnError(c) \/ Close(c)

Spec == Init /\ [][Next]_vars

\* The event loop delivers timers and events, SIGKILL ends a child, and what
\* the child left running lets go of its output in the end. Nothing makes a
\* child end that was not killed, and nothing makes anyone cancel.
FairSpec ==
  /\ Spec
  /\ \A c \in Call :
       /\ WF_vars(Timeout(c)) /\ WF_vars(ForceKill(c))
       /\ WF_vars(SpawnError(c)) /\ WF_vars(Close(c))
       /\ WF_vars(c \in doomed /\ \E how \in Exited \union {"signalled"} : ChildEnds(c, how))

------------------------------------------------------------------------------

\* A result is not returned while the child still works: what the task executor
\* frees after it (locks, workspace) has no writer left. (finish is called from
\* "error" and "close" only, lines 62-82.)
SettledIsDead == \A c \in Call : Settled(c) => child[c] # "running"

\* The map of active executions is exact: under each id it has the one call
\* that is open, so that no second call runs under it and cancel and
\* activeExecutions see every child there is (lines 14, 35, 116).
ActiveIsExact ==
  /\ \A c \in Call : Open(c) => active[IdOf[c]] = c
  /\ \A i \in Id : active[i] # NoCall => IdOf[active[i]] = i /\ Open(active[i])

\* A caller that was told its cancellation is under way is not told later that
\* the execution succeeded, however the race ends (lines 38-43, 67-75).
CancelledNeverSucceeds == \A c \in told : result[c] # "SUCCEEDED"

\* The status says what happened: success is an exit with code 0 that nobody
\* asked for, and an execution asked to end for one reason ends as that.
StatusIsExplained ==
  \A c \in Call :
    /\ result[c] = "SUCCEEDED" => child[c] = "exit zero" /\ asked[c] = {}
    /\ result[c] = "TIMED_OUT" => "TIMEOUT" \in asked[c]
    /\ result[c] = "CANCELLED" => "CANCELLED" \in asked[c]
    /\ Settled(c) /\ child[c] # "unspawned" =>
         /\ asked[c] = {"TIMEOUT"} => result[c] = "TIMED_OUT"
         /\ asked[c] = {"CANCELLED"} => result[c] = "CANCELLED"

\* A promise is resolved once: neither its status nor the fact that it was
\* resolved changes, whatever events come after.
ResultIsFinal == [][\A c \in Call : Settled(c) => result'[c] = result[c]]_result

\* An execution with a timeout, and one that was asked to end, comes to its end
\* even if the child ignores SIGTERM.
AskedEnds == \A c \in Call : (asked[c] # {} \/ c \in timer) ~> Settled(c)
==============================================================================
