--------------------------- MODULE Runners_proofs ----------------------------
(***************************************************************************)
(* Proofs about what runs agents: the process runner, for any calls, ids   *)
(* and timeouts, and the attempts of the compatibility engine, for any     *)
(* tasks. The invariant of the runner adds to its properties what links the *)
(* two accounts of why an execution ends: the reason the runner keeps, one, *)
(* the last, and the history of all that was asked.                        *)
(***************************************************************************)
EXTENDS LocalProcessRunner, Attempts, TLAPS

\* Only started calls are settled.
SettledWasStarted == \A c \in Call : Settled(c) => child[c] \notin {"none", "refused"}

\* The reason is one of those asked for, and there is one if there are any.
ReasonWasAsked == \A c \in Call : IF reason[c] = "NONE" THEN asked[c] = {} ELSE reason[c] \in asked[c]

ToldWasAsked == \A c \in told : "CANCELLED" \in asked[c]

Inv ==
  /\ TypeOK
  /\ SettledIsDead
  /\ ActiveIsExact
  /\ SettledWasStarted
  /\ ReasonWasAsked
  /\ ToldWasAsked
  /\ StatusIsExplained

\* Nothing has been started at first.
LEMMA InitHolds == Init => Inv
BY RunnerAssumption
   DEF Init, Inv, TypeOK, SettledIsDead, ActiveIsExact, SettledWasStarted, ReasonWasAsked, ToldWasAsked,
       StatusIsExplained, Settled, Open, ChildState, Reason, RunStatus

\* Timers, signals and "close" events alone disturb nothing but their own types.
LEMMA QuietKeeps ==
  ASSUME Inv, UNCHANGED <<active, child, result, reason, asked, told>>,
         {killed', doomed', timer', grace', aborted', closed'} \subseteq SUBSET Call
  PROVE  Inv'
<1> USE DEF Inv, Settled, Open
<1>1. TypeOK'
  BY DEF TypeOK
<1>2. SettledIsDead' /\ SettledWasStarted' /\ ReasonWasAsked' /\ ToldWasAsked'
  BY DEF SettledIsDead, SettledWasStarted, ReasonWasAsked, ToldWasAsked
<1>3. ActiveIsExact'
  BY DEF ActiveIsExact
<1>4. StatusIsExplained'
  BY DEF StatusIsExplained
<1> QED
  BY <1>1, <1>2, <1>3, <1>4

\* Signals go to calls.
LEMMA TerminateTypes ==
  ASSUME TypeOK, NEW c \in Call, Terminate(c)
  PROVE  killed' \subseteq Call /\ grace' \subseteq Call
BY DEF Terminate, TypeOK

\* What asking leaves as it is, and what it does to the two accounts.
LEMMA AskKeeps ==
  ASSUME Inv, NEW c \in Call, NEW why \in Reason, Ask(c, why),
         timer' \subseteq Call, aborted' \subseteq Call,
         told' = told \/ (why = "CANCELLED" /\ told' = told \union {c})
  PROVE  Inv'
<1> USE DEF Inv, Settled, Open
<1>1. /\ reason' = [reason EXCEPT ![c] = why]
      /\ asked' = [asked EXCEPT ![c] = @ \union {why}]
      /\ UNCHANGED <<active, child, doomed, closed, result>>
      /\ result[c] = "NONE"
  BY DEF Ask
<1>2. killed' \subseteq Call /\ grace' \subseteq Call
  BY TerminateTypes DEF Ask
<1>3. TypeOK'
  BY <1>1, <1>2 DEF TypeOK
<1>4. SettledIsDead' /\ ActiveIsExact' /\ SettledWasStarted'
  BY <1>1 DEF SettledIsDead, ActiveIsExact, SettledWasStarted
<1>5. ReasonWasAsked'
  BY <1>1 DEF ReasonWasAsked, TypeOK, Reason
<1>6. ToldWasAsked'
  BY <1>1 DEF ToldWasAsked, TypeOK
<1>7. StatusIsExplained'
  BY <1>1 DEF StatusIsExplained, TypeOK
<1> QED
  BY <1>3, <1>4, <1>5, <1>6, <1>7

\* Settling a call whose child has ended, with a status that says what happened.
LEMMA FinishKeeps ==
  ASSUME Inv, NEW c \in Call, NEW status \in RunStatus, Finish(c, status),
         child[c] \in Exited \union {"signalled", "unspawned"},
         closed' \subseteq Call,
         UNCHANGED <<child, killed, doomed, reason, aborted, asked, told>>,
         child[c] = "unspawned" => Settled(c) \/ status = "FAILED",
         ~Settled(c) /\ child[c] # "unspawned" => status = ClosingStatus(c)
  PROVE  Inv'
<1> USE DEF Inv, Open
<1>1. CASE Settled(c)
  BY <1>1, QuietKeeps DEF Finish, TypeOK
<1>2. CASE ~Settled(c)
  <2> USE DEF Settled
  <2>1. /\ result' = [result EXCEPT ![c] = status]
        /\ active' = [active EXCEPT ![IdOf[c]] = NoCall]
        /\ timer' = timer \ {c} /\ grace' = grace \ {c}
    BY <1>2 DEF Finish
  <2>2. TypeOK'
    BY <2>1 DEF TypeOK
  <2>3. SettledIsDead' /\ SettledWasStarted'
    BY <2>1 DEF SettledIsDead, SettledWasStarted, TypeOK, Exited
  <2>4. ActiveIsExact'
    <3>1. status # "NONE" /\ active[IdOf[c]] = c /\ IdOf[c] \in Id
      BY <1>2, RunnerAssumption DEF RunStatus, ActiveIsExact, Exited
    <3>2. ASSUME NEW d \in Call, Open(d)' PROVE active'[IdOf[d]] = d
      <4>1. d # c /\ Open(d)
        BY <3>1, <3>2, <2>1 DEF TypeOK
      <4>2. active[IdOf[d]] = d
        BY <4>1 DEF ActiveIsExact
      <4>3. IdOf[d] # IdOf[c]
        BY <4>1, <4>2, <3>1
      <4> QED
        BY <4>2, <4>3, <2>1, RunnerAssumption DEF TypeOK
    <3>3. ASSUME NEW i \in Id, active'[i] # NoCall PROVE (IdOf[active[i]] = i /\ Open(active[i]))'
      <4>1. i # IdOf[c] /\ active'[i] = active[i] /\ active[i] \in Call
        BY <3>3, <2>1 DEF TypeOK
      <4>2. IdOf[active[i]] = i /\ Open(active[i]) /\ active[i] # c
        BY <3>3, <4>1 DEF ActiveIsExact
      <4> QED
        BY <4>1, <4>2, <2>1 DEF TypeOK
    <3> QED
      BY <3>2, <3>3 DEF ActiveIsExact
  <2>5. ReasonWasAsked' /\ ToldWasAsked'
    BY DEF ReasonWasAsked, ToldWasAsked
  <2>6. StatusIsExplained'
    <3>1. asked[c] \subseteq Reason /\ reason[c] \in Reason \union {"NONE"}
      BY DEF TypeOK
    <3>2. IF reason[c] = "NONE" THEN asked[c] = {} ELSE reason[c] \in asked[c]
      BY DEF ReasonWasAsked
    <3>3. CASE child[c] = "unspawned"
      BY <3>3, <1>2, <2>1 DEF StatusIsExplained, TypeOK
    <3>4. CASE child[c] # "unspawned"
      <4>1. status = ClosingStatus(c)
        BY <3>4, <1>2
      <4>2. /\ status = "SUCCEEDED" => child[c] = "exit zero" /\ asked[c] = {}
            /\ status = "TIMED_OUT" => "TIMEOUT" \in asked[c]
            /\ status = "CANCELLED" => "CANCELLED" \in asked[c]
            /\ asked[c] = {"TIMEOUT"} => status = "TIMED_OUT"
            /\ asked[c] = {"CANCELLED"} => status = "CANCELLED"
        BY <4>1, <3>1, <3>2 DEF ClosingStatus
      <4> QED
        BY <4>2, <2>1 DEF StatusIsExplained, TypeOK
    <3> QED
      BY <3>3, <3>4
  <2> QED
    BY <2>2, <2>3, <2>4, <2>5, <2>6
<1> QED
  BY <1>1, <1>2

\* The start of a call keeps the invariant: it takes an id that is free.
LEMMA ExecuteKeeps ==
  ASSUME Inv, NEW c \in Call, NEW spawned \in {"running", "unspawned"}, Execute(c, spawned)
  PROVE  Inv'
<1> USE DEF Inv
<1>1. /\ child[c] = "none" /\ active[IdOf[c]] = NoCall /\ result[c] = "NONE" /\ IdOf[c] \in Id
      /\ child' = [child EXCEPT ![c] = spawned]
      /\ active' = [active EXCEPT ![IdOf[c]] = c]
  BY RunnerAssumption DEF Execute, SettledWasStarted, Settled
<1>2. TypeOK'
  BY <1>1 DEF Execute, TypeOK, ChildState
<1>3. SettledIsDead' /\ SettledWasStarted'
  BY <1>1 DEF Execute, SettledIsDead, SettledWasStarted, Settled, TypeOK
<1>4. ActiveIsExact'
  <2>1. ASSUME NEW d \in Call, Open(d)' PROVE active'[IdOf[d]] = d
    <3>1. CASE d = c
      BY <3>1, <1>1 DEF TypeOK
    <3>2. CASE d # c
      <4>1. Open(d)
        BY <2>1, <3>2, <1>1 DEF Open, Settled, Execute, TypeOK
      <4>2. active[IdOf[d]] = d /\ d # NoCall
        BY <4>1, RunnerAssumption DEF ActiveIsExact
      <4> QED
        BY <4>2, <1>1, RunnerAssumption DEF TypeOK
    <3> QED
      BY <3>1, <3>2
  <2>2. ASSUME NEW i \in Id, active'[i] # NoCall PROVE (IdOf[active[i]] = i /\ Open(active[i]))'
    <3>1. CASE i = IdOf[c]
      BY <3>1, <1>1 DEF Open, Settled, Execute, TypeOK
    <3>2. CASE i # IdOf[c]
      <4>1. active'[i] = active[i] /\ active[i] \in Call
        BY <3>2, <2>2, <1>1 DEF TypeOK
      <4>2. IdOf[active[i]] = i /\ Open(active[i])
        BY <4>1, <2>2 DEF ActiveIsExact
      <4> QED
        BY <4>1, <4>2, <3>2, <1>1 DEF Open, Settled, Execute, TypeOK
    <3> QED
      BY <3>1, <3>2
  <2> QED
    BY <2>1, <2>2 DEF ActiveIsExact
<1>5. ReasonWasAsked' /\ ToldWasAsked'
  BY DEF Execute, ReasonWasAsked, ToldWasAsked
<1>6. StatusIsExplained'
  BY <1>1 DEF Execute, StatusIsExplained, Settled, TypeOK
<1> QED
  BY <1>2, <1>3, <1>4, <1>5, <1>6

\* A child that ends, or an execution that is refused, concerns no settled call.
LEMMA ChildChangeKeeps ==
  ASSUME Inv, NEW c \in Call, NEW state \in ChildState, ~Settled(c),
         child' = [child EXCEPT ![c] = state],
         child[c] \in {"none", "refused"} <=> state \in {"none", "refused"},
         UNCHANGED <<active, killed, doomed, reason, timer, grace, aborted, closed, result, asked, told>>
  PROVE  Inv'
<1> USE DEF Inv, Settled, Open
<1>1. TypeOK'
  BY DEF TypeOK
<1>2. SettledIsDead' /\ SettledWasStarted' /\ ReasonWasAsked' /\ ToldWasAsked'
  BY DEF SettledIsDead, SettledWasStarted, ReasonWasAsked, ToldWasAsked, TypeOK
<1>3. ActiveIsExact'
  BY DEF ActiveIsExact, TypeOK
<1>4. StatusIsExplained'
  BY DEF StatusIsExplained, TypeOK
<1> QED
  BY <1>1, <1>2, <1>3, <1>4

\* The close of its child keeps it: the call gives its id back.
LEMMA CloseKeeps ==
  ASSUME Inv, NEW c \in Call, Close(c)
  PROVE  Inv'
<1>1. ClosingStatus(c) \in RunStatus
  BY DEF ClosingStatus, RunStatus
<1>2. closed' \subseteq Call
  BY DEF Close, Inv, TypeOK
<1> QED
  BY <1>1, <1>2, FinishKeeps DEF Close

\* Every step preserves the invariant.
LEMMA StepKeeps == Inv /\ [Next]_vars => Inv'
<1> SUFFICES ASSUME Inv, [Next]_vars PROVE Inv'
  OBVIOUS
<1>1. CASE UNCHANGED vars
  BY <1>1 DEF vars, Inv, TypeOK, SettledIsDead, ActiveIsExact, SettledWasStarted,
     ReasonWasAsked, ToldWasAsked,
              StatusIsExplained, Settled, Open
<1>2. ASSUME NEW c \in Call, Refuse(c) PROVE Inv'
  <2>1. ~Settled(c) /\ "refused" \in ChildState
    BY <1>2 DEF Refuse, Inv, SettledWasStarted, ChildState
  <2> QED
    BY <1>2, <2>1, ChildChangeKeeps DEF Refuse
<1>3. ASSUME NEW c \in Call, NEW spawned \in {"running", "unspawned"}, Execute(c, spawned) PROVE Inv'
  BY <1>3, ExecuteKeeps
<1>4. ASSUME NEW c \in Call, Timeout(c) PROVE Inv'
  <2>1. timer' \subseteq Call /\ aborted' \subseteq Call /\ "TIMEOUT" \in Reason
    BY <1>4 DEF Timeout, Inv, TypeOK, Reason
  <2> QED
    BY <1>4, <2>1, AskKeeps DEF Timeout
<1>5. ASSUME NEW c \in Call, Cancel(c) PROVE Inv'
  <2>1. timer' \subseteq Call /\ aborted' \subseteq Call /\ "CANCELLED" \in Reason
    BY <1>5 DEF Cancel, Inv, TypeOK, Reason
  <2> QED
    BY <1>5, <2>1, AskKeeps DEF Cancel
<1>6. ASSUME NEW c \in Call, Abort(c) PROVE Inv'
  <2>1. timer' \subseteq Call /\ aborted' \subseteq Call /\ "CANCELLED" \in Reason
    BY <1>6 DEF Abort, Inv, TypeOK, Reason
  <2>2. CASE active[IdOf[c]] = c
    BY <1>6, <2>1, <2>2, AskKeeps DEF Abort
  <2>3. CASE active[IdOf[c]] # c
    BY <1>6, <2>1, <2>3, QuietKeeps DEF Abort, Inv, TypeOK
  <2> QED
    BY <2>2, <2>3
<1>7. ASSUME NEW c \in Call, Overflow(c) PROVE Inv'
  <2>1. timer' \subseteq Call /\ aborted' \subseteq Call /\ "OUTPUT_LIMIT" \in Reason
    BY <1>7 DEF Overflow, Inv, TypeOK, Reason
  <2> QED
    BY <1>7, <2>1, AskKeeps DEF Overflow
<1>8. ASSUME NEW c \in Call, ForceKill(c) PROVE Inv'
  BY <1>8, QuietKeeps DEF ForceKill, Inv, TypeOK
<1>9. ASSUME NEW c \in Call, NEW how \in Exited \union {"signalled"}, ChildEnds(c, how) PROVE Inv'
  <2>1. ~Settled(c) /\ how \in ChildState /\ how \notin {"none", "refused"}
    BY <1>9 DEF ChildEnds, Inv, SettledIsDead, ChildState, Exited
  <2> QED
    BY <1>9, <2>1, ChildChangeKeeps DEF ChildEnds
<1>10. ASSUME NEW c \in Call, SpawnError(c) PROVE Inv'
  <2>1. closed' \subseteq Call /\ "FAILED" \in RunStatus
    BY <1>10 DEF SpawnError, Inv, TypeOK, RunStatus
  <2> QED
    BY <1>10, <2>1, FinishKeeps DEF SpawnError
<1>11. ASSUME NEW c \in Call, Close(c) PROVE Inv'
  BY <1>11, CloseKeeps
<1> QED
  BY <1>1, <1>2, <1>3, <1>4, <1>5, <1>6, <1>7, <1>8, <1>9, <1>10, <1>11 DEF Next

\* The invariant of the process runner.
LEMMA Invariance == Spec => []Inv
BY InitHolds, StepKeeps, PTL DEF Spec

\* The runner's state is of its types in every reachable state.
THEOREM TypeCorrect == Spec => []TypeOK
<1>1. Inv => TypeOK
  BY DEF Inv
<1> QED
  BY <1>1, Invariance, PTL

\* When the runner returns a result, the child has ended: nothing writes after
\* the task executor has released locks and workspace.
THEOREM ResultsFollowDeath == Spec => []SettledIsDead
<1>1. Inv => SettledIsDead
  BY DEF Inv
<1> QED
  BY <1>1, Invariance, PTL

\* The map of active executions has the open calls, one per id, and no other.
THEOREM ActiveStaysExact == Spec => []ActiveIsExact
<1>1. Inv => ActiveIsExact
  BY DEF Inv
<1> QED
  BY <1>1, Invariance, PTL

\* A cancellation that cancel() accepted is never followed by success.
THEOREM CancellationHolds == Spec => []CancelledNeverSucceeds
<1>1. Inv => CancelledNeverSucceeds
  BY DEF Inv, CancelledNeverSucceeds, ToldWasAsked, StatusIsExplained, TypeOK
<1> QED
  BY <1>1, Invariance, PTL

\* Timeouts, cancellations and success are told apart, whichever event of the
\* race comes last.
THEOREM StatusesAreExplained == Spec => []StatusIsExplained
<1>1. Inv => StatusIsExplained
  BY DEF Inv
<1> QED
  BY <1>1, Invariance, PTL

\* What settles a call finds it open.
LEMMA StepSettlesOnce ==
  ASSUME [Next]_vars, NEW c \in Call, Settled(c), TypeOK
  PROVE  result'[c] = result[c]
<1>1. ASSUME NEW d \in Call, NEW status, Finish(d, status) PROVE result'[c] = result[c]
  BY <1>1 DEF Finish, Settled, TypeOK
<1>2. ASSUME NEW d \in Call, SpawnError(d) \/ Close(d) PROVE result'[c] = result[c]
  BY <1>1, <1>2 DEF SpawnError, Close
<1>3. CASE UNCHANGED result
  BY <1>3
<1> QED
  BY <1>2, <1>3 DEF Next, vars, Refuse, Execute, Timeout, Cancel, Abort, Overflow, Ask,
     ForceKill, ChildEnds

\* No event changes the result of a call that has one.
THEOREM ResultsAreFinal == Spec => ResultIsFinal
<1>1. TypeOK /\ [Next]_vars => [\A c \in Call : Settled(c) => result'[c] = result[c]]_result
  BY StepSettlesOnce
<1> QED
  BY <1>1, TypeCorrect, PTL DEF Spec, ResultIsFinal

------------------------------------------------------------------------------
\* What a status file says in the end.
Final == {"DONE", "FAILED", "ABORTED"}

\* Agents of later attempts, and those that have not been launched yet, have
\* left nothing.
LaunchesAreNew ==
  /\ \A l \in Launched : l[1] > attempt => agent[l] = "none"
  /\ reached = "launching" => \A t \in pending : agent[<<attempt, t>>] = "none"

\* A status file has a status only when its agent is gone.
FilesFollowAgents ==
  \A l \in Launched :
    /\ agent[l] \in {"none", "working"} => statusFile[l] = "absent"
    /\ agent[l] = "reporting" => statusFile[l] = "torn"

\* The records of the tasks that are waited for no more.
ReadIsRecorded ==
  /\ reached # "idle" => attempt >= 1
  /\ reached \in {"judging", "finished"} => pending = {}
  /\ reached \in {"waiting", "judging", "finished"} =>
       \A t \in LoopTask \ pending :
         /\ statusFile[<<attempt, t>>] \in Final
         /\ taskRecord[t] = statusFile[<<attempt, t>>]

\* The inductive invariant of the attempts. The property needs all of it: files
\* of later attempts do not exist yet, so that what is read is of this attempt.
AttemptsInv == AttemptsTypeOK /\ LaunchesAreNew /\ FilesFollowAgents /\ ReadIsRecorded

\* Every step of the command, of an agent or of its script preserves it.
LEMMA AttemptsStep == AttemptsInv /\ [AttemptsNext]_attemptVars => AttemptsInv'
<1> SUFFICES ASSUME AttemptsInv, [AttemptsNext]_attemptVars
             PROVE  AttemptsInv'
  OBVIOUS
<1> USE AttemptsAssumption DEF AttemptsInv, AttemptsTypeOK, LaunchesAreNew, FilesFollowAgents,
        ReadIsRecorded, Launched, Final
<1>1. CASE StartAttempt
  BY <1>1 DEF StartAttempt
<1>2. ASSUME NEW t \in LoopTask, LaunchAgent(t) PROVE AttemptsInv'
  BY <1>2 DEF LaunchAgent
<1>3. CASE AllLaunched
  BY <1>3 DEF AllLaunched
<1>4. ASSUME NEW status \in {"LOST", "TIMEOUT", "ABORTED"}, GiveUp(status), reached # "idle"
      PROVE AttemptsInv'
  BY <1>4 DEF GiveUp
<1>5. ASSUME NEW t \in LoopTask, ReadStatus(t) PROVE AttemptsInv'
  BY <1>5 DEF ReadStatus, StatusPath
<1>6. CASE CommandKilled
  BY <1>6 DEF CommandKilled
<1>7. CASE Judged
  BY <1>7 DEF Judged
<1>8. ASSUME NEW n \in 1..MaxAttempts, NEW t \in LoopTask, AgentEnds(n, t) PROVE AttemptsInv'
  BY <1>8 DEF AgentEnds, StatusPath
<1>9. ASSUME NEW n \in 1..MaxAttempts, NEW t \in LoopTask, AgentReports(n, t) PROVE AttemptsInv'
  BY <1>9 DEF AgentReports, StatusPath
<1>10. ASSUME NEW n \in 1..MaxAttempts, NEW t \in LoopTask, AgentKilled(n, t) PROVE AttemptsInv'
  BY <1>10 DEF AgentKilled
<1>11. CASE UNCHANGED attemptVars
  BY <1>11 DEF attemptVars
<1> QED BY <1>1, <1>2, <1>3, <1>4, <1>5, <1>6, <1>7, <1>8, <1>9, <1>10, <1>11
   DEF AttemptsNext, TimeOut, StepFails, Interrupted, ReadTorn

\* It holds from the start on.
LEMMA AttemptsInvariant == AttemptsSpec => []AttemptsInv
<1>1. AttemptsInit => AttemptsInv
  BY AttemptsAssumption
  DEF AttemptsInit, AttemptsInv, AttemptsTypeOK, LaunchesAreNew, FilesFollowAgents, ReadIsRecorded, Launched
<1> QED
  BY <1>1, AttemptsStep, PTL DEF AttemptsSpec

\* The gate looks at worktrees only when every agent of the attempt is gone and
\* the records say what its own file says, whatever earlier attempts still do.
THEOREM JudgesTheEnded == AttemptsSpec => []JudgedWhenEnded
<1>1. AttemptsInv => JudgedWhenEnded
  <2> SUFFICES ASSUME AttemptsInv, reached \in {"judging", "finished"}, NEW t \in LoopTask
               PROVE  agent[<<attempt, t>>] = "gone" /\ taskRecord[t] = statusFile[<<attempt, t>>]
    BY DEF JudgedWhenEnded
  <2>1. <<attempt, t>> \in Launched
    BY AttemptsAssumption DEF AttemptsInv, AttemptsTypeOK, ReadIsRecorded, Launched
  <2>2. statusFile[<<attempt, t>>] \in Final /\ taskRecord[t] = statusFile[<<attempt, t>>]
    BY DEF AttemptsInv, ReadIsRecorded
  <2>3. agent[<<attempt, t>>] \in {"none", "working", "reporting", "gone"}
    BY <2>1 DEF AttemptsInv, AttemptsTypeOK
  <2>4. agent[<<attempt, t>>] \notin {"none", "working", "reporting"}
    BY <2>1, <2>2 DEF AttemptsInv, FilesFollowAgents, Final
  <2> QED
    BY <2>2, <2>3, <2>4
<1> QED
  BY <1>1, AttemptsInvariant, PTL
==============================================================================
