--------------------------- MODULE AgentLoop_proofs ---------------------------
(***************************************************************************)
(* Proofs about the compatibility engine: AgentLoop, for every initial     *)
(* state, every set of issues a gate may report and any number of runs,    *)
(* verifications and kills, and IssueRounds, for any subjects, topics,     *)
(* results of agents and number of rounds.                                 *)
(***************************************************************************)
EXTENDS AgentLoop, IssueRounds, Iteration, TLAPS

\* A state built from its parts is a workflow state.
LEMMA WorkflowStateType ==
  ASSUME NEW phase \in LoopPhase, NEW round \in Nat, NEW failures \in Nat, NEW gate \in GateStatus,
         NEW status \in WorkflowStatus, NEW split \in BOOLEAN, NEW edit \in BOOLEAN,
         NEW issues \in SUBSET Issue
  PROVE  WorkflowState(phase, round, failures, gate, status, split, edit, issues) \in State
BY DEF WorkflowState, State

\* The issues of a failed gate are issues.
LEMMA BuildIssuesType ==
  ASSUME NEW types \in SUBSET IssueType, NEW phase, NEW known
  PROVE  BuildIssues(types, phase, known) \in SUBSET Issue
<1> DEFINE Open(t) == t \in HumanTypes /\ <<GateOf(phase), t>> \notin known
<1>1. \A t \in types : Open(t) \in BOOLEAN
  OBVIOUS
<1> HIDE DEF Open
<1>2. \A t \in types : [type |-> t, human |-> Open(t)] \in Issue
  BY <1>1 DEF Issue
<1>3. BuildIssues(types, phase, known) = {[type |-> t, human |-> Open(t)] : t \in types}
  BY DEF BuildIssues, Open
<1>4. QED
  BY <1>2, <1>3

\* The mode the PRD is edited in is on or off.
LEMMA EditModeType ==
  ASSUME NEW old \in BOOLEAN, NEW phase, NEW gate, NEW owner
  PROVE  EditMode(old, phase, gate, owner) \in BOOLEAN
BY DEF EditMode

\* The decision after a gate is a workflow state.
LEMMA DecisionType ==
  ASSUME NEW s \in State, NEW round \in Nat, NEW approved \in BOOLEAN,
         NEW found \in SUBSET Issue, NEW owner
  PROVE  DecideNextState(s, round, approved, found, owner) \in State
<1> DEFINE status == FailedStatus(s, found, s.failures + 1)
<1>1. /\ s.phase \in LoopPhase /\ s.failures + 1 \in Nat
      /\ s.split \in BOOLEAN /\ s.directEdit \in BOOLEAN
  BY DEF State
<1>2. AfterRecheckRequest(s, round) \in State
  BY <1>1, EditModeType, WorkflowStateType
     DEF AfterRecheckRequest, GateStatus, WorkflowStatus, Issue
<1>3. AfterApproval(s, round) \in State
  <2>1. ApprovedNextPhase(s.phase) \in LoopPhase
    BY DEF ApprovedNextPhase, LoopPhase
  <2>2. /\ "ARCHIVE" \in LoopPhase /\ {} \in SUBSET Issue
        /\ "APPROVED" \in GateStatus /\ "DRAFT" \in GateStatus
        /\ "DONE" \in WorkflowStatus /\ "READY" \in WorkflowStatus
    BY DEF LoopPhase, GateStatus, WorkflowStatus
  <2>3. WorkflowState("ARCHIVE", round, 0, "APPROVED", "DONE", FALSE, FALSE, {}) \in State
    BY <2>2, WorkflowStateType
  <2>4. WorkflowState(ApprovedNextPhase(s.phase), round, 0, "DRAFT", "READY", FALSE, FALSE, {})
          \in State
    BY <2>1, <2>2, WorkflowStateType
  <2>5. QED
    BY <2>3, <2>4 DEF AfterApproval
<1>4. AfterRework(s, round, found, owner) \in State
  <2>1. "CHANGES_REQUESTED" \in GateStatus /\ "NEEDS_FIX" \in WorkflowStatus
    BY DEF GateStatus, WorkflowStatus
  <2>2. ASSUME NEW phase \in LoopPhase
        PROVE  WorkflowState(phase, round, s.failures + 1, "CHANGES_REQUESTED", "NEEDS_FIX",
                 FALSE, EditMode(s.directEdit, phase, "CHANGES_REQUESTED", owner), found) \in State
    BY <1>1, <2>1, EditModeType, WorkflowStateType
  <2>3. "PRD_REVIEW" \in LoopPhase
    BY DEF LoopPhase
  <2>4. QED
    BY <1>1, <2>2, <2>3 DEF AfterRework
<1>5. AfterBlock(s, round, status, found) \in State
  <2>1. status \in WorkflowStatus
    BY DEF FailedStatus, WorkflowStatus
  <2>2. (s.split /\ ~ \E i \in found : i.type = "engine") \in BOOLEAN
    BY <1>1
  <2> HIDE DEF status
  <2>3. "BLOCKED" \in GateStatus
    BY DEF GateStatus
  <2>4. EditMode(s.directEdit, s.phase, "BLOCKED", "others") \in BOOLEAN
    BY <1>1, EditModeType
  <2>5. WorkflowState(s.phase, round, s.failures + 1, "BLOCKED", status,
          s.split /\ ~ \E i \in found : i.type = "engine",
          EditMode(s.directEdit, s.phase, "BLOCKED", "others"), found) \in State
    BY <1>1, <2>1, <2>2, <2>3, <2>4, WorkflowStateType
  <2>6. QED
    BY <2>5 DEF AfterBlock
<1>6. QED
  BY <1>2, <1>3, <1>4, <1>5 DEF DecideNextState

\* What is sound stays so when more questions are answered.
LEMMA SoundGrows ==
  ASSUME NEW s, NEW known, NEW more, known \subseteq more, Sound(s, known)
  PROVE  Sound(s, more)
BY DEF Sound, FixesOnlyAnswered

\* A draft that waits for nobody, as start, accept and reconcile write it.
LEMMA DraftSound ==
  ASSUME NEW phase, NEW round, NEW issues, NEW known
  PROVE  Sound(WorkflowState(phase, round, 0, "DRAFT", "READY", FALSE, FALSE, issues), known)
BY DEF Sound, WorkflowState, StatusMatchesGate, EditsOnlyPrd, UserCanAnswer,
       FixesOnlyAnswered, FixesAreBounded, BlockedStatus

\* A gate leads from a sound state to a sound state.
LEMMA DecisionSound ==
  ASSUME NEW s \in State, NEW round, NEW approved \in BOOLEAN,
         NEW found \in SUBSET Issue, NEW owner, NEW known, Sound(s, known)
  PROVE  Sound(DecideNextState(s, round, approved, found, owner), known)
<1> DEFINE status == FailedStatus(s, found, s.failures + 1)
<1>0. s.failures \in Nat /\ s.directEdit \in BOOLEAN /\ (s.directEdit => s.phase \in PrdPhases)
  BY DEF State, Sound, EditsOnlyPrd
<1>1. Sound(AfterRecheckRequest(s, round), known)
  BY <1>0 DEF AfterRecheckRequest, WorkflowState, EditMode, Sound, StatusMatchesGate,
     EditsOnlyPrd,
     UserCanAnswer, FixesOnlyAnswered, FixesAreBounded, BlockedStatus, Human, MaxFailures
<1>2. Sound(AfterApproval(s, round), known)
  BY DEF AfterApproval, WorkflowState, Sound, StatusMatchesGate, EditsOnlyPrd,
     UserCanAnswer, FixesOnlyAnswered, FixesAreBounded, BlockedStatus
<1>3. ASSUME status = "NEEDS_FIX"
      PROVE  Sound(AfterRework(s, round, found, owner), known)
  <2>1. Human(found) = {} /\ s.failures + 1 < MaxFailures
    BY <1>0, <1>3 DEF FailedStatus, MaxFailures
  <2> HIDE DEF status
  <2>2. QED
    BY <1>0, <2>1 DEF AfterRework, WorkflowState, EditMode, Sound, StatusMatchesGate,
       EditsOnlyPrd, UserCanAnswer, FixesOnlyAnswered, FixesAreBounded, BlockedStatus, PrdPhases
<1>4. ASSUME status # "NEEDS_FIX"
      PROVE  Sound(AfterBlock(s, round, status, found), known)
  <2>1. status \in BlockedStatus /\ (status = "NEEDS_USER" => Human(found) # {})
    BY <1>4 DEF FailedStatus, BlockedStatus
  <2> HIDE DEF status
  <2>2. QED
    BY <1>0, <1>4, <2>1 DEF AfterBlock, WorkflowState, EditMode, Sound, StatusMatchesGate,
       EditsOnlyPrd, UserCanAnswer, FixesOnlyAnswered, FixesAreBounded
<1>5. QED
  BY <1>1, <1>2, <1>3, <1>4 DEF DecideNextState

------------------------------------------------------------------------------
\* The lists of writes a command begins with.
LEMMA TodoType ==
  /\ <<>> \in Seq(Step) /\ Writes \in Seq(Step)
  /\ GateWrites \in Seq(Step) /\ VerifyWrites \in Seq(Step) /\ ResetWrites \in Seq(Step)
BY DEF Writes, GateWrites, VerifyWrites, ResetWrites, Step

\* What a command is while it writes, and when it is done.
LEMMA CommandType ==
  ASSUME NEW s \in State, NEW todo \in Seq(Step)
  PROVE  Writing(s, todo) \in Command /\ Idle(s) \in Command
BY TodoType DEF Writing, Idle, Command

\* There may be no run yet.
LEMMA NoRunType == NoRun \in Run
BY DEF NoRun, Run, RunStatus, LoopPhase

\* Going on to the next write.
LEMMA AdvanceType ==
  ASSUME TypeOK, cmd.todo # <<>>, Advance
  PROVE  cmd' \in Command
<1>1. cmd \in Command /\ cmd.todo \in Seq(Step) /\ json \in State
  BY DEF TypeOK, Command
<1>2. Tail(cmd.todo) \in Seq(Step)
  BY <1>1
<1>3. Idle(json) \in Command
  BY <1>1, CommandType, TodoType
<1>4. [cmd EXCEPT !.todo = Tail(@)] \in Command
  BY <1>1, <1>2 DEF Command
<1>5. [cmd EXCEPT !.op = "clean", !.todo = <<>>] \in Command
  BY <1>1, TodoType DEF Command
<1>6. QED
  BY <1>3, <1>4, <1>5 DEF Advance

\* Every part of the state has its type.
THEOREM TypeCorrect == Spec => []TypeOK
<1>1. Init => TypeOK
  <2> SUFFICES ASSUME Init
               PROVE  TypeOK
    OBVIOUS
  <2>1. json \in State
    BY InitialStatesAssumption DEF Init
  <2>2. Idle(json) \in Command
    BY <2>1, CommandType, TodoType
  <2>3. QED
    BY <2>1, <2>2, NoRunType DEF Init, TypeOK
<1>2. TypeOK /\ [Next]_vars => TypeOK'
  <2> SUFFICES ASSUME TypeOK, [Next]_vars
               PROVE  TypeOK'
    OBVIOUS
  <2>0. /\ md \in State /\ json \in State /\ ctx \in State /\ cmd.state \in State
        /\ run \in Run /\ litter \in BOOLEAN /\ runs \in Nat /\ crashes \in Nat
        /\ mixed \in BOOLEAN
        /\ \A phase : Judged(phase) => mixed' \in BOOLEAN
        /\ json.round \in Nat /\ json.phase \in LoopPhase /\ cmd.state.round \in Nat
        /\ json.failures \in Nat /\ json.issues \in SUBSET Issue /\ json.directEdit \in BOOLEAN
        /\ Idle(json) \in Command
    BY CommandType, TodoType DEF TypeOK, Command, State, Judged
  <2>a. /\ {"INTAKE", "USER_ACCEPTANCE"} \subseteq LoopPhase
        /\ {"DRAFT", "CHANGES_REQUESTED"} \subseteq GateStatus
        /\ {"READY", "NEEDS_FIX", "BLOCKED_BY_SYSTEM"} \subseteq WorkflowStatus
    BY DEF LoopPhase, GateStatus, WorkflowStatus
  <2>1. CASE StartNext
    <3>1. json.round + 1 \in Nat /\ runs' \in Nat
      BY <2>0, <2>1 DEF StartNext
    <3>2. run' \in Run
      <4>1. PICK p \in {json.phase} \union ForcedPhases :
              run' = [NoRun EXCEPT !.status = "RUNNING", !.tasks = p,
                                   !.phase = json.phase, !.round = json.round + 1]
        BY <2>1 DEF StartNext
      <4>2. p \in LoopPhase
        BY <2>0, ForcedPhasesAssumption
      <4>3. QED
        BY <2>0, <3>1, <4>1, <4>2, NoRunType DEF Run, RunStatus
    <3>3. cmd' \in Command
      BY <2>0, <2>1, TodoType DEF StartNext, Command
    <3>4. litter' \in BOOLEAN
      BY <2>0, <2>1 DEF StartNext
    <3>5. QED
      BY <2>1, <3>1, <3>2, <3>3, <3>4 DEF StartNext, TypeOK, files
  <2>2. CASE GateApproves
    <3>1. \A approved \in BOOLEAN :
            DecideNextState(cmd.state, cmd.state.round + 1, approved, {}, "others") \in State
      BY <2>0, DecisionType
    <3>2. QED
      BY <2>0, <2>2, <3>1, CommandType, TodoType DEF GateApproves, TypeOK, files
  <2>3. CASE GateFails
    <3>1. PICK types \in FoundSets, owner \in Owners :
            cmd' = Writing(DecideNextState(cmd.state, cmd.state.round + 1, FALSE,
                             BuildIssues(types, cmd.state.phase, decided), owner),
                           GateWrites)
      BY <2>3 DEF GateFails
    <3>2. BuildIssues(types, cmd.state.phase, decided) \in SUBSET Issue
      BY FoundSetsAssumption, BuildIssuesType
    <3>3. \A approved \in BOOLEAN :
            DecideNextState(cmd.state, cmd.state.round + 1, approved,
                            BuildIssues(types, cmd.state.phase, decided), owner) \in State
      BY <2>0, <3>2, DecisionType
    <3>4. QED
      BY <2>3, <3>1, <3>3, CommandType, TodoType DEF GateFails, TypeOK, files
  <2>4. CASE RunFails
    <3>1. run' \in Run
      BY <2>0, <2>4 DEF RunFails, Run, RunStatus
    <3>2. QED
      BY <2>0, <2>4, <3>1 DEF RunFails, Quit, TypeOK, files
  <2>5. ASSUME NEW approved \in BOOLEAN, NEW found \in SUBSET Issue, NEW owner,
               VerifyCurrent(approved, found, owner), mixed' \in BOOLEAN
        PROVE  TypeOK'
    <3>1. DecideNextState(json, json.round, approved, found, owner) \in State
      BY <2>0, DecisionType
    <3>2. cmd' \in Command
      BY <2>5, <3>1, CommandType, TodoType DEF VerifyCurrent
    <3>3. runs' \in Nat
      BY <2>0, <2>5 DEF VerifyCurrent
    <3>4. QED
      BY <2>5, <3>2, <3>3 DEF VerifyCurrent, TypeOK, files
  <2>6. CASE VerifyApproves
    BY <2>0, <2>5, <2>6 DEF VerifyApproves
  <2>7. CASE VerifyFails
    <3>1. \A types \in FoundSets \union {{"engine"}} :
            BuildIssues(types, json.phase, decided) \in SUBSET Issue
      BY FoundSetsAssumption, BuildIssuesType DEF IssueType
    <3>2. QED
      BY <2>0, <2>5, <2>7, <3>1 DEF VerifyFails
  <2>8. CASE Decide
    <3>1. PICK i \in Human(json.issues) :
            LET known == decided \union {<<GateOf(json.phase), i.type>>}
                left  == {j \in Human(json.issues) : <<GateOf(json.phase), j.type>> \notin known}
                edit  == json.directEdit \/ json.phase \in PrdPhases
            IN /\ decided' = known
               /\ cmd' = IF left # {} THEN cmd
                         ELSE Writing(WorkflowState(json.phase, json.round, 0,
                                        "CHANGES_REQUESTED", "NEEDS_FIX", FALSE, edit,
                                        json.issues), Writes)
      BY <2>8 DEF Decide
    <3>2. WorkflowState(json.phase, json.round, 0, "CHANGES_REQUESTED", "NEEDS_FIX", FALSE,
            json.directEdit \/ json.phase \in PrdPhases, json.issues) \in State
      <4>1. (json.directEdit \/ json.phase \in PrdPhases) \in BOOLEAN
        OBVIOUS
      <4>2. "CHANGES_REQUESTED" \in GateStatus /\ "NEEDS_FIX" \in WorkflowStatus
        BY <2>a
      <4>3. 0 \in Nat /\ FALSE \in BOOLEAN
        OBVIOUS
      <4>4. QED
        BY <2>0, <4>1, <4>2, <4>3, WorkflowStateType
    <3>3. cmd' \in Command
      BY <3>1, <3>2, CommandType, TodoType DEF TypeOK
    <3>4. <<GateOf(json.phase), i.type>> \in {GateOf(p) : p \in LoopPhase} \X IssueType
      BY <2>0, <3>1 DEF Human, Issue
    <3>5. decided' \subseteq {GateOf(p) : p \in LoopPhase} \X IssueType
      BY <3>1, <3>4 DEF TypeOK
    <3>6. QED
      BY <2>8, <3>3, <3>5 DEF Decide, TypeOK, files
  <2>9. CASE Accept
    <3>1. WorkflowState("USER_ACCEPTANCE", json.round, 0, "DRAFT", "READY", FALSE, FALSE,
                        json.issues) \in State
      <4>1. "USER_ACCEPTANCE" \in LoopPhase /\ "DRAFT" \in GateStatus /\ "READY" \in WorkflowStatus
        BY <2>a
      <4>2. QED
        BY <2>0, <4>1, WorkflowStateType
    <3>2. cmd' \in Command
      BY <2>9, <3>1, CommandType, TodoType DEF Accept
    <3>3. accepted' \subseteq Nat
      <4>1. json.round + 1 \in Nat
        BY <2>0
      <4>2. QED
        BY <2>9, <4>1 DEF Accept, TypeOK
    <3>4. QED
      BY <2>9, <3>2, <3>3 DEF Accept, TypeOK, files
  <2>10. CASE Start
    <3>1. WorkflowState("INTAKE", 0, 0, "DRAFT", "READY", FALSE, FALSE, {}) \in State
      BY <2>a, WorkflowStateType
    <3>2. cmd' \in Command
      BY <2>10, <3>1, CommandType, TodoType DEF Start
    <3>3. QED
      BY <2>10, <3>2 DEF Start, TypeOK, files
  <2>11. CASE SyncFromMarkdown
    BY <2>0, <2>11, CommandType, TodoType DEF SyncFromMarkdown, TypeOK, files
  <2>12. CASE Reconcile
    <3>1. WorkflowState("INTAKE", 0, json.failures, "DRAFT", "BLOCKED_BY_SYSTEM", TRUE, FALSE,
                        {}) \in State
      BY <2>0, <2>a, WorkflowStateType
    <3>2. cmd' \in Command
      BY <2>12, <3>1, TodoType DEF Reconcile, Command
    <3>3. QED
      BY <2>12, <3>2 DEF Reconcile, TypeOK, files
  <2>13. CASE CleanUpFails
    BY <2>0, <2>13 DEF CleanUpFails, Quit, TypeOK, files
  <2>14. CASE CleanUpSucceeds
    <3>1. WorkflowState("INTAKE", 0, 0, "DRAFT", "READY", FALSE, FALSE, {}) \in State
      BY <2>a, WorkflowStateType
    <3>2. cmd' \in Command
      BY <2>14, <3>1, CommandType, TodoType DEF CleanUpSucceeds
    <3>3. QED
      BY <2>14, <3>2 DEF CleanUpSucceeds, TypeOK, files
  <2>15. CASE Write
    <3>1. cmd' \in Command
      BY <2>15, AdvanceType DEF Write, WriteMarkdown, WriteJson, WriteContext, WriteSummary,
         WriteRunFinished, SyncRunSnapshot, ClearRun, Pending
    <3>2. Snapshot(run) \in Run
      BY <2>0 DEF Snapshot, Run, State
    <3>3. CASE WriteMarkdown
      BY <2>0, <3>1, <3>3 DEF WriteMarkdown, TypeOK
    <3>4. CASE WriteJson
      BY <2>0, <3>1, <3>4 DEF WriteJson, TypeOK
    <3>5. CASE WriteContext
      BY <2>0, <3>1, <3>5 DEF WriteContext, TypeOK
    <3>6. CASE WriteSummary
      <4>1. (\E i \in cmd.state.issues : i.type = "engine") \in BOOLEAN
        OBVIOUS
      <4>2. run' \in Run
        BY <2>0, <3>6, <4>1 DEF WriteSummary, Run
      <4>3. QED
        BY <3>1, <3>6, <4>2 DEF WriteSummary, TypeOK, files
    <3>7. CASE WriteRunFinished
      <4>1. run' \in Run
        BY <3>2, <3>7 DEF WriteRunFinished, Run, RunStatus
      <4>2. QED
        BY <3>1, <3>7, <4>1 DEF WriteRunFinished, TypeOK, files
    <3>8. CASE SyncRunSnapshot
      BY <3>1, <3>2, <3>8 DEF SyncRunSnapshot, TypeOK, files
    <3>9. CASE ClearRun
      BY <2>0, <3>1, <3>9, NoRunType DEF ClearRun, TypeOK, files
    <3>10. QED
      BY <2>15, <3>3, <3>4, <3>5, <3>6, <3>7, <3>8, <3>9 DEF Write
  <2>16. CASE Crash
    <3>1. crashes' \in Nat
      BY <2>0, <2>16 DEF Crash
    <3>2. QED
      BY <2>0, <2>16, <3>1 DEF Crash, Quit, TypeOK, files
  <2>17. CASE UNCHANGED vars
    BY <2>17 DEF vars, files, TypeOK
  <2>18. QED
    BY <2>1, <2>2, <2>3, <2>4, <2>6, <2>7, <2>8, <2>9, <2>10, <2>11, <2>12, <2>13, <2>14,
       <2>15, <2>16, <2>17 DEF Next, User, Gate
<1>3. QED
  BY <1>1, <1>2, PTL DEF Spec

------------------------------------------------------------------------------
\* The initial states are sound.
LEMMA InitialSound == Init => StatesAreSound
<1> SUFFICES ASSUME Init
             PROVE  StatesAreSound
  OBVIOUS
<1>1. /\ json \in State /\ ~json.split /\ ~json.directEdit /\ json.failures < MaxFailures
      /\ \/ json.gate = "DRAFT" /\ json.status = "READY"
         \/ json.gate = "CHANGES_REQUESTED" /\ json.status = "NEEDS_FIX"
      /\ \A i \in json.issues : ~i.human
  BY InitialStatesAssumption DEF Init
<1>2. Sound(json, decided)
  BY <1>1 DEF Sound, StatusMatchesGate, EditsOnlyPrd, UserCanAnswer, FixesOnlyAnswered,
     FixesAreBounded, BlockedStatus, Human
<1>3. QED
  BY <1>2 DEF Init, Idle, StatesAreSound

\* A step that puts a sound state on its way and writes none.
LEMMA NewSound ==
  ASSUME StatesAreSound, UNCHANGED files, decided \subseteq decided',
         Sound(cmd.state, decided)' \/ cmd'.state = cmd.state
  PROVE  StatesAreSound'
<1>1. \A s : Sound(s, decided) => Sound(s, decided')
  BY SoundGrows
<1>2. \A s \in {md, json, ctx, cmd.state} : Sound(s, decided')
  BY <1>1 DEF StatesAreSound
<1>3. Sound(cmd'.state, decided')
  BY <1>2
<1>4. QED
  BY <1>2, <1>3 DEF StatesAreSound, files

\* Every file, and the state on its way to the files, is sound.
THEOREM SoundStates == Spec => []StatesAreSound
<1>1. TypeOK /\ StatesAreSound /\ [Next]_vars => StatesAreSound'
  <2> SUFFICES ASSUME TypeOK, StatesAreSound, [Next]_vars
               PROVE  StatesAreSound'
    OBVIOUS
  <2>0. /\ Sound(md, decided) /\ Sound(json, decided) /\ Sound(ctx, decided)
        /\ Sound(cmd.state, decided)
        /\ json \in State /\ cmd.state \in State
    BY DEF StatesAreSound, TypeOK, Command
  <2>1. CASE StartNext
    BY <2>0, <2>1, NewSound DEF StartNext
  <2>2. CASE GateApproves
    <3>1. \A approved \in BOOLEAN :
            Sound(DecideNextState(cmd.state, cmd.state.round + 1, approved, {}, "others"), decided)
      BY <2>0, DecisionSound
    <3>2. QED
      BY <2>2, <3>1, NewSound DEF GateApproves, Writing
  <2>3. CASE GateFails
    <3>1. PICK types \in FoundSets, owner \in Owners :
            cmd' = Writing(DecideNextState(cmd.state, cmd.state.round + 1, FALSE,
                             BuildIssues(types, cmd.state.phase, decided), owner),
                           GateWrites)
      BY <2>3 DEF GateFails
    <3>2. BuildIssues(types, cmd.state.phase, decided) \in SUBSET Issue
      BY FoundSetsAssumption, BuildIssuesType
    <3>3. \A approved \in BOOLEAN :
            Sound(DecideNextState(cmd.state, cmd.state.round + 1, approved,
                    BuildIssues(types, cmd.state.phase, decided), owner), decided)
      BY <2>0, <3>2, DecisionSound
    <3>4. QED
      BY <2>3, <3>1, <3>3, NewSound DEF GateFails, Writing
  <2>4. ASSUME NEW approved \in BOOLEAN, NEW found \in SUBSET Issue, NEW owner,
               VerifyCurrent(approved, found, owner)
        PROVE  StatesAreSound'
    <3>1. Sound(DecideNextState(json, json.round, approved, found, owner), decided)
      BY <2>0, DecisionSound
    <3>2. QED
      BY <2>4, <3>1, NewSound DEF VerifyCurrent, Writing
  <2>5. CASE VerifyApproves
    BY <2>4, <2>5 DEF VerifyApproves
  <2>6. CASE VerifyFails
    <3>1. \A types \in FoundSets \union {{"engine"}} :
            BuildIssues(types, json.phase, decided) \in SUBSET Issue
      BY FoundSetsAssumption, BuildIssuesType DEF IssueType
    <3>2. QED
      BY <2>4, <2>6, <3>1 DEF VerifyFails
  <2>7. CASE Decide
    <3>1. PICK i \in Human(json.issues) :
            LET known == decided \union {<<GateOf(json.phase), i.type>>}
                left  == {j \in Human(json.issues) : <<GateOf(json.phase), j.type>> \notin known}
                edit  == json.directEdit \/ json.phase \in PrdPhases
            IN /\ decided' = known
               /\ cmd' = IF left # {} THEN cmd
                         ELSE Writing(WorkflowState(json.phase, json.round, 0,
                                        "CHANGES_REQUESTED", "NEEDS_FIX", FALSE, edit,
                                        json.issues), Writes)
      BY <2>7 DEF Decide
    <3>2. ASSUME NEW known,
                 {j \in Human(json.issues) : <<GateOf(json.phase), j.type>> \notin known} = {}
          PROVE  Sound(WorkflowState(json.phase, json.round, 0, "CHANGES_REQUESTED", "NEEDS_FIX",
                         FALSE, json.directEdit \/ json.phase \in PrdPhases, json.issues), known)
      <4> DEFINE edit == json.directEdit \/ json.phase \in PrdPhases
      <4>1. \A j \in Human(json.issues) : <<GateOf(json.phase), j.type>> \in known
        BY <3>2
      <4>2. edit => json.phase \in PrdPhases
        BY <2>0 DEF Sound, EditsOnlyPrd
      <4> HIDE DEF edit
      <4>3. Sound(WorkflowState(json.phase, json.round, 0, "CHANGES_REQUESTED", "NEEDS_FIX",
                    FALSE, edit, json.issues), known)
        BY <4>1, <4>2 DEF Sound, WorkflowState, StatusMatchesGate, EditsOnlyPrd, UserCanAnswer,
           FixesOnlyAnswered, FixesAreBounded, BlockedStatus, MaxFailures
      <4>4. QED
        BY <4>3 DEF edit
    <3>3. Sound(cmd'.state, decided') \/ cmd'.state = cmd.state
      BY <3>1, <3>2 DEF Writing
    <3>4. QED
      BY <2>7, <3>1, <3>3, NewSound DEF Decide
  <2>8. CASE Accept \/ Start \/ CleanUpSucceeds
    <3>1. Sound(cmd'.state, decided')
      <4>1. CASE Accept
        BY <4>1, DraftSound DEF Accept, Writing
      <4>2. CASE Start
        BY <4>2, DraftSound DEF Start, Writing
      <4>3. CASE CleanUpSucceeds
        BY <4>3, DraftSound DEF CleanUpSucceeds, Writing
      <4>4. QED
        BY <2>8, <4>1, <4>2, <4>3
    <3>2. QED
      BY <2>8, <3>1, NewSound DEF Accept, Start, CleanUpSucceeds
  <2>9. CASE SyncFromMarkdown
    BY <2>0, <2>9, NewSound DEF SyncFromMarkdown, Writing
  <2>10. CASE Reconcile
    <3>1. Sound(WorkflowState("INTAKE", 0, json.failures, "DRAFT", "BLOCKED_BY_SYSTEM", TRUE,
                              FALSE, {}), decided)
      BY DEF Sound, WorkflowState, StatusMatchesGate, EditsOnlyPrd, UserCanAnswer,
         FixesOnlyAnswered, FixesAreBounded
    <3>2. Sound(cmd'.state, decided')
      BY <2>10, <3>1 DEF Reconcile
    <3>3. QED
      BY <2>10, <3>2, NewSound DEF Reconcile
  <2>11. CASE RunFails \/ CleanUpFails \/ Crash
    BY <2>0, <2>11, NewSound DEF RunFails, CleanUpFails, Crash, Quit, Idle
  <2>12. CASE Write
    <3>1. Sound(cmd'.state, decided)
      <4>1. Advance
        BY <2>12 DEF Write, WriteMarkdown, WriteJson, WriteContext, WriteSummary,
           WriteRunFinished, SyncRunSnapshot, ClearRun
      <4>2. cmd'.state \in {cmd.state, json}
        BY <4>1 DEF TypeOK, Command, Advance, Idle
      <4>3. QED
        BY <2>0, <4>2
    <3>2. /\ decided' = decided
          /\ md' \in {md, cmd.state} /\ json' \in {json, cmd.state} /\ ctx' \in {ctx, cmd.state}
      BY <2>12 DEF Write, WriteMarkdown, WriteJson, WriteContext, WriteSummary,
         WriteRunFinished, SyncRunSnapshot, ClearRun, files
    <3>3. QED
      BY <2>0, <3>1, <3>2 DEF StatesAreSound
  <2>13. CASE UNCHANGED vars
    BY <2>0, <2>13, NewSound DEF vars, files
  <2>14. QED
    BY <2>1, <2>2, <2>3, <2>5, <2>6, <2>7, <2>8, <2>9, <2>10, <2>11, <2>12, <2>13
       DEF Next, User, Gate
<1>2. QED
  BY TypeCorrect, InitialSound, <1>1, PTL DEF Spec
------------------------------------------------------------------------------
\* The lists of writes a command has left, wherever it stands.
Unjudged == {<<"md", "json", "ctx", "summary", "finish">>, <<"json", "ctx", "summary", "finish">>,
             <<"ctx", "summary", "finish">>, <<"summary", "finish">>}
Rest == Unjudged \union
  {<<>>, <<"md", "json", "ctx">>, <<"json", "ctx">>, <<"ctx">>, <<"finish">>,
   <<"md", "json", "ctx", "snapshot">>, <<"json", "ctx", "snapshot">>, <<"ctx", "snapshot">>,
   <<"snapshot">>, <<"md", "json", "ctx", "clear">>, <<"json", "ctx", "clear">>,
   <<"ctx", "clear">>, <<"clear">>}

\* The files are written in order, and only while the command writes.
OrderInv ==
  /\ cmd.todo \in Rest
  /\ cmd.op \in {"idle", "agents", "clean"} => cmd.todo = <<>>
  /\ cmd.op = "reset" => cmd.todo \notin Unjudged /\ cmd.state.phase = "INTAKE"
  /\ Pending("json") => md = cmd.state
  /\ Pending("ctx") \/ Pending("summary") \/ Pending("clear") =>
       md = cmd.state /\ json = cmd.state

AtAcceptance(s) == s.phase = "USER_ACCEPTANCE"

\* As long as no phase was approved on the tasks of another, a state that is
\* being accepted is of the round of the acceptance tasks that last ran.
JudgedInv ==
  /\ cmd.op = "agents" => cmd.state = json /\ ~run.summary /\ run.round = json.round + 1
  /\ cmd.todo \in Unjudged => run.round = cmd.state.round
  /\ run.summary /\ run.tasks = "USER_ACCEPTANCE" /\ ~mixed =>
       \A s \in {md, json, cmd.state} : AtAcceptance(s) => run.round = s.round

\* An archive on its way to the state file has then been accepted.
ArchiveInv ==
  ~mixed => \A s \in {md, cmd.state} :
    s.phase = "ARCHIVE" /\ json.phase # "ARCHIVE" => s.round \in accepted

\* What is left of a list after its first write.
LEMMA TailOrder ==
  ASSUME NEW t \in Rest, t # <<>>
  PROVE  /\ Head(t) \in Step
         /\ Len(t) > 1 =>
              /\ Tail(t) \in Rest /\ Tail(t) # <<>>
              /\ Head(Tail(t)) = "json" => Head(t) = "md"
              /\ Head(Tail(t)) = "ctx" => Head(t) = "json"
              /\ Head(Tail(t)) \in {"summary", "clear"} => Head(t) = "ctx"
              /\ Tail(t) \in Unjudged => t \in Unjudged
         /\ Head(t) \in {"md", "json"} => Len(t) > 1
         /\ Head(t) = "clear" => t \notin Unjudged
         /\ Head(t) \in {"md", "json", "ctx"} /\ t \in Unjudged => Tail(t) \in Unjudged
         /\ Head(t) = "summary" => t \in Unjudged /\ Tail(t) \notin Unjudged
<1> USE DEF Rest, Unjudged, Step
<1>1. CASE t = <<"md", "json", "ctx", "summary", "finish">>
  BY <1>1
<1>2. CASE t = <<"json", "ctx", "summary", "finish">>
  BY <1>2
<1>3. CASE t = <<"ctx", "summary", "finish">>
  BY <1>3
<1>4. CASE t = <<"summary", "finish">>
  BY <1>4
<1>5. CASE t = <<"finish">>
  BY <1>5
<1>6. CASE t = <<"md", "json", "ctx">>
  BY <1>6
<1>7. CASE t = <<"json", "ctx">>
  BY <1>7
<1>8. CASE t = <<"ctx">>
  BY <1>8
<1>9. CASE t = <<"md", "json", "ctx", "snapshot">>
  BY <1>9
<1>10. CASE t = <<"json", "ctx", "snapshot">>
  BY <1>10
<1>11. CASE t = <<"ctx", "snapshot">>
  BY <1>11
<1>12. CASE t = <<"snapshot">>
  BY <1>12
<1>13. CASE t = <<"md", "json", "ctx", "clear">>
  BY <1>13
<1>14. CASE t = <<"json", "ctx", "clear">>
  BY <1>14
<1>15. CASE t = <<"ctx", "clear">>
  BY <1>15
<1>16. CASE t = <<"clear">>
  BY <1>16
<1>17. QED
  BY <1>1, <1>2, <1>3, <1>4, <1>5, <1>6, <1>7, <1>8, <1>9, <1>10,
     <1>11, <1>12, <1>13, <1>14, <1>15, <1>16

\* The next write of a command in progress.
LEMMA AdvanceOrder ==
  ASSUME TypeOK, OrderInv, cmd.todo # <<>>, Advance
  PROVE  /\ cmd'.todo \in Rest /\ cmd'.op # "agents"
         /\ cmd'.op \in {"idle", "clean"} => cmd'.todo = <<>>
         /\ cmd'.op = "reset" => cmd'.todo \notin Unjudged /\ cmd'.state.phase = "INTAKE"
         /\ cmd'.state \in {cmd.state, json}
         /\ Head(cmd.todo) \in {"md", "json"} => cmd'.state = cmd.state
         /\ cmd'.todo # <<>> => /\ cmd'.state = cmd.state
                                /\ Head(cmd'.todo) = "json" => Head(cmd.todo) = "md"
                                /\ Head(cmd'.todo) = "ctx" => Head(cmd.todo) = "json"
                                /\ Head(cmd'.todo) \in {"summary", "clear"} => Head(cmd.todo) = "ctx"
         /\ cmd'.todo \in Unjudged => cmd.todo \in Unjudged /\ cmd'.state = cmd.state
         /\ Head(cmd.todo) \in {"summary", "clear"} => cmd'.todo \notin Unjudged
<1>1. <<>> \in Rest /\ <<>> \notin Unjudged
  BY DEF Rest, Unjudged
<1>2. cmd \in Command /\ cmd.todo \in Rest /\ cmd.op \in {"write", "reset"}
  BY DEF TypeOK, OrderInv, Command
<1>3. CASE Len(cmd.todo) > 1
  <2>1. cmd'.todo = Tail(cmd.todo) /\ cmd'.op = cmd.op /\ cmd'.state = cmd.state
    BY <1>2, <1>3 DEF Advance, Command
  <2>2. QED
    BY <1>2, <1>3, <2>1, TailOrder DEF OrderInv
<1>4. CASE ~(Len(cmd.todo) > 1)
  <2>1. /\ cmd'.todo = <<>>
        /\ \/ cmd'.op = "idle" /\ cmd'.state = json
           \/ cmd'.op = "clean" /\ cmd'.state = cmd.state
    BY <1>2, <1>4 DEF Advance, Idle, Command
  <2>2. Head(cmd.todo) \notin {"md", "json"}
    BY <1>2, <1>4, TailOrder
  <2>3. QED
    BY <1>1, <2>1, <2>2
<1>5. QED
  BY <1>3, <1>4

\* Where a decision can lead to, and from.
LEMMA DecisionPhase ==
  ASSUME NEW s \in State, NEW round, NEW approved \in BOOLEAN, NEW found, NEW owner
  PROVE  LET d == DecideNextState(s, round, approved, found, owner)
         IN /\ d.round = round
            /\ d.phase = "ARCHIVE" => \/ s.phase = "ARCHIVE"
                                      \/ s.phase = "USER_ACCEPTANCE" /\ approved
            /\ AtAcceptance(d) => \/ s.phase = "USER_ACCEPTANCE"
                                  \/ s.phase = "PRODUCT_ACCEPTANCE" /\ approved
<1> DEFINE d == DecideNextState(s, round, approved, found, owner)
           status == FailedStatus(s, found, s.failures + 1)
           Follows == /\ d.round = round
                      /\ d.phase = "ARCHIVE" => \/ s.phase = "ARCHIVE"
                                                \/ s.phase = "USER_ACCEPTANCE" /\ approved
                      /\ AtAcceptance(d) => \/ s.phase = "USER_ACCEPTANCE"
                                            \/ s.phase = "PRODUCT_ACCEPTANCE" /\ approved
<1>1. \/ d = AfterRecheckRequest(s, round)
      \/ approved /\ d = AfterApproval(s, round)
      \/ d = AfterRework(s, round, found, owner)
      \/ d = AfterBlock(s, round, status, found)
  BY DEF DecideNextState
<1> HIDE DEF d, status
<1>2. ASSUME d = AfterRecheckRequest(s, round)
      PROVE  Follows
  BY <1>2 DEF AfterRecheckRequest, WorkflowState, AtAcceptance
<1>3. ASSUME approved /\ d = AfterApproval(s, round)
      PROVE  Follows
  <2>1. /\ ApprovedNextPhase(s.phase) = "ARCHIVE" => s.phase \in {"USER_ACCEPTANCE", "ARCHIVE"}
        /\ ApprovedNextPhase(s.phase) = "USER_ACCEPTANCE" => s.phase = "PRODUCT_ACCEPTANCE"
    BY DEF State, LoopPhase, ApprovedNextPhase
  <2>2. /\ d.round = round
        /\ \/ s.phase = "ARCHIVE" /\ d.phase = "ARCHIVE"
           \/ d.phase = ApprovedNextPhase(s.phase)
    BY <1>3 DEF AfterApproval, WorkflowState
  <2>3. QED
    BY <1>3, <2>1, <2>2 DEF AtAcceptance
<1>4. ASSUME d = AfterRework(s, round, found, owner)
      PROVE  Follows
  BY <1>4 DEF AfterRework, WorkflowState, AtAcceptance
<1>5. ASSUME d = AfterBlock(s, round, status, found)
      PROVE  Follows
  BY <1>5 DEF AfterBlock, WorkflowState, AtAcceptance
<1>6. Follows
  BY <1>1, <1>2, <1>3, <1>4, <1>5
<1>7. QED
  BY <1>6 DEF d

\* A command that begins to write: what its state must say.
LEMMA BeginKeeps ==
  ASSUME OrderInv, JudgedInv, ArchiveInv, UNCHANGED <<files, run>>, accepted \subseteq accepted',
         cmd'.op \in {"write", "reset"}, cmd'.op = "reset" => cmd'.state.phase = "INTAKE",
         cmd'.todo \in {Writes, VerifyWrites, ResetWrites}, ~mixed' => ~mixed,
         ~mixed' /\ run.summary /\ run.tasks = "USER_ACCEPTANCE" /\ AtAcceptance(cmd'.state) =>
           run.round = cmd'.state.round,
         ~mixed' /\ cmd'.state.phase = "ARCHIVE" /\ json.phase # "ARCHIVE" =>
           cmd'.state.round \in accepted'
  PROVE  OrderInv' /\ JudgedInv' /\ ArchiveInv'
<1>1. cmd'.todo \in Rest /\ cmd'.todo \notin Unjudged /\ Head(cmd'.todo) = "md"
  <2>1. CASE cmd'.todo = Writes
    BY <2>1 DEF Writes, Rest, Unjudged
  <2>2. CASE cmd'.todo = VerifyWrites
    BY <2>2 DEF VerifyWrites, Rest, Unjudged
  <2>3. CASE cmd'.todo = ResetWrites
    BY <2>3 DEF ResetWrites, Rest, Unjudged
  <2>4. QED
    BY <2>1, <2>2, <2>3
<1>2. OrderInv'
  BY <1>1 DEF OrderInv, Pending, files
<1>3. JudgedInv'
  BY <1>1 DEF JudgedInv, files, AtAcceptance
<1>4. ArchiveInv'
  BY DEF ArchiveInv, files
<1>5. QED
  BY <1>2, <1>3, <1>4

\* A command that ends, or does nothing to the files.
LEMMA RestKeeps ==
  ASSUME OrderInv, JudgedInv, ArchiveInv, UNCHANGED files, accepted \subseteq accepted',
         run'.summary = run.summary, run'.tasks = run.tasks, run'.round = run.round,
         mixed' = mixed,
         cmd' = cmd \/ cmd' = Idle(json)
  PROVE  OrderInv' /\ JudgedInv' /\ ArchiveInv'
<1>1. CASE cmd' = cmd
  <2>1. OrderInv'
    BY <1>1 DEF OrderInv, Pending, files
  <2>2. JudgedInv'
    BY <1>1 DEF JudgedInv, files, AtAcceptance
  <2>3. ArchiveInv'
    BY <1>1 DEF ArchiveInv, files
  <2>4. QED
    BY <2>1, <2>2, <2>3
<1>2. CASE cmd' = Idle(json)
  <2>1. cmd'.op = "idle" /\ cmd'.state = json /\ cmd'.todo = <<>>
    BY <1>2 DEF Idle
  <2>2. <<>> \in Rest /\ <<>> \notin Unjudged
    BY DEF Rest, Unjudged
  <2>3. OrderInv'
    BY <2>1, <2>2 DEF OrderInv, Pending
  <2>4. JudgedInv'
    BY <2>1, <2>2 DEF JudgedInv, files, AtAcceptance
  <2>5. ArchiveInv'
    BY <2>1 DEF ArchiveInv, files
  <2>6. QED
    BY <2>3, <2>4, <2>5
<1>3. QED
  BY <1>1, <1>2

\* The decision after the agents' gate is on its way.
LEMMA GateKeeps ==
  ASSUME TypeOK, OrderInv, JudgedInv, ArchiveInv, cmd.op = "agents",
         NEW approved \in BOOLEAN, NEW found, NEW owner,
         approved => AcceptanceShown(run.tasks, run.round),
         ~mixed' => ~mixed /\ (approved => run.tasks = cmd.state.phase),
         cmd' = Writing(DecideNextState(cmd.state, cmd.state.round + 1, approved, found, owner),
                        GateWrites),
         UNCHANGED <<files, run, accepted>>
  PROVE  OrderInv' /\ JudgedInv' /\ ArchiveInv'
<1> DEFINE d == DecideNextState(cmd.state, cmd.state.round + 1, approved, found, owner)
<1>1. cmd'.op = "write" /\ cmd'.state = d /\ cmd'.todo = GateWrites
  BY DEF Writing
<1>2. cmd.state \in State
  BY DEF TypeOK, Command
<1>3. /\ d.round = cmd.state.round + 1
      /\ d.phase = "ARCHIVE" => \/ cmd.state.phase = "ARCHIVE"
                                \/ cmd.state.phase = "USER_ACCEPTANCE" /\ approved
  BY <1>2, DecisionPhase
<1> HIDE DEF d
<1>4. GateWrites \in Rest /\ GateWrites \in Unjudged /\ Head(GateWrites) = "md"
  BY DEF GateWrites, Rest, Unjudged
<1>5. OrderInv'
  BY <1>1, <1>4 DEF OrderInv, Pending
<1>6. JudgedInv'
  BY <1>1, <1>3 DEF JudgedInv, AtAcceptance
<1>7. ArchiveInv'
  BY <1>1, <1>3 DEF ArchiveInv, JudgedInv, AcceptanceShown, files
<1>8. QED
  BY <1>5, <1>6, <1>7

\* A write of a command in progress.
LEMMA WriteKeeps ==
  ASSUME TypeOK, OrderInv, JudgedInv, ArchiveInv, Write
  PROVE  OrderInv' /\ JudgedInv' /\ ArchiveInv'
<1>0. /\ cmd.todo # <<>> /\ Advance /\ accepted' = accepted
      /\ cmd.op # "agents" /\ (ClearRun \/ mixed' = mixed)
  BY DEF Write, WriteMarkdown, WriteJson, WriteContext, WriteSummary, WriteRunFinished,
     SyncRunSnapshot, ClearRun, Pending, OrderInv
<1>1. /\ cmd'.todo \in Rest /\ cmd'.op # "agents"
      /\ cmd'.op \in {"idle", "clean"} => cmd'.todo = <<>>
      /\ cmd'.op = "reset" => cmd'.todo \notin Unjudged /\ cmd'.state.phase = "INTAKE"
      /\ cmd'.state \in {cmd.state, json}
      /\ Head(cmd.todo) \in {"md", "json"} => cmd'.state = cmd.state
      /\ cmd'.todo # <<>> => /\ cmd'.state = cmd.state
                             /\ Head(cmd'.todo) = "json" => Head(cmd.todo) = "md"
                             /\ Head(cmd'.todo) = "ctx" => Head(cmd.todo) = "json"
                             /\ Head(cmd'.todo) \in {"summary", "clear"} => Head(cmd.todo) = "ctx"
      /\ cmd'.todo \in Unjudged => cmd.todo \in Unjudged /\ cmd'.state = cmd.state
      /\ Head(cmd.todo) \in {"summary", "clear"} => cmd'.todo \notin Unjudged
  BY <1>0, AdvanceOrder
<1>2. CASE WriteMarkdown
  <2>1. /\ Head(cmd.todo) = "md" /\ md' = cmd.state /\ cmd'.state = cmd.state
        /\ json' = json /\ run' = run /\ mixed' = mixed
    BY <1>1, <1>2 DEF WriteMarkdown, Pending
  <2>2. OrderInv'
    BY <1>1, <2>1 DEF OrderInv, Pending
  <2>3. JudgedInv'
    BY <1>1, <2>1 DEF JudgedInv, AtAcceptance
  <2>4. ArchiveInv'
    BY <1>0, <2>1 DEF ArchiveInv
  <2>5. QED
    BY <2>2, <2>3, <2>4
<1>3. CASE WriteJson
  <2>1. /\ Head(cmd.todo) = "json" /\ json' = cmd.state /\ cmd'.state = cmd.state
        /\ md' = md /\ run' = run /\ md = cmd.state /\ mixed' = mixed
    BY <1>1, <1>3 DEF WriteJson, Pending, OrderInv
  <2>2. OrderInv'
    BY <1>1, <2>1 DEF OrderInv, Pending
  <2>3. JudgedInv'
    BY <1>1, <2>1 DEF JudgedInv, AtAcceptance
  <2>4. ArchiveInv'
    BY <2>1 DEF ArchiveInv
  <2>5. QED
    BY <2>2, <2>3, <2>4
<1>4. CASE WriteContext
  <2>1. /\ Head(cmd.todo) = "ctx" /\ md' = md /\ json' = json /\ run' = run
        /\ md = cmd.state /\ json = cmd.state /\ mixed' = mixed
    BY <1>4 DEF WriteContext, Pending, OrderInv
  <2>2. OrderInv'
    BY <1>1, <2>1 DEF OrderInv, Pending
  <2>3. JudgedInv'
    BY <1>1, <2>1 DEF JudgedInv, AtAcceptance
  <2>4. ArchiveInv'
    BY <1>1, <2>1 DEF ArchiveInv
  <2>5. QED
    BY <2>2, <2>3, <2>4
<1>5. CASE WriteSummary
  <2>1. /\ Head(cmd.todo) = "summary" /\ md' = md /\ json' = json
        /\ md = cmd.state /\ json = cmd.state /\ mixed' = mixed
    BY <1>5 DEF WriteSummary, Pending, OrderInv, files
  <2>2. run'.tasks = run.tasks /\ run'.round = run.round
    BY <1>5 DEF WriteSummary, TypeOK, Run
  <2>3. cmd.todo \in Unjudged
    BY <1>0, <2>1, TailOrder DEF OrderInv
  <2>4. OrderInv'
    BY <1>1, <2>1 DEF OrderInv, Pending
  <2>5. JudgedInv'
    BY <1>1, <2>1, <2>2, <2>3 DEF JudgedInv, AtAcceptance
  <2>6. ArchiveInv'
    BY <1>1, <2>1 DEF ArchiveInv
  <2>7. QED
    BY <2>4, <2>5, <2>6
<1>6. CASE WriteRunFinished \/ SyncRunSnapshot
  <2>1. /\ Head(cmd.todo) \in {"finish", "snapshot"} /\ md' = md /\ json' = json
        /\ run'.tasks = run.tasks /\ run'.round = run.round /\ run'.summary = run.summary
        /\ mixed' = mixed
    BY <1>6 DEF WriteRunFinished, SyncRunSnapshot, Snapshot, Pending, files, TypeOK, Run
  <2>2. OrderInv'
    BY <1>1, <2>1 DEF OrderInv, Pending
  <2>3. JudgedInv'
    BY <1>1, <2>1 DEF JudgedInv, AtAcceptance
  <2>4. ArchiveInv'
    BY <1>0, <1>1, <2>1 DEF ArchiveInv
  <2>5. QED
    BY <2>2, <2>3, <2>4
<1>7. CASE ClearRun
  <2>1. /\ Head(cmd.todo) = "clear" /\ md' = md /\ json' = json /\ ~run'.summary
        /\ md = cmd.state /\ json = cmd.state
    BY <1>0, <1>7 DEF ClearRun, Pending, files, NoRun, OrderInv
  <2>2. OrderInv'
    BY <1>1, <2>1 DEF OrderInv, Pending
  <2>3. JudgedInv'
    BY <1>1, <2>1 DEF JudgedInv, AtAcceptance
  <2>4. ArchiveInv'
    BY <1>0, <1>1, <2>1 DEF ArchiveInv
  <2>5. QED
    BY <2>2, <2>3, <2>4
<1>8. QED
  BY <1>2, <1>3, <1>4, <1>5, <1>6, <1>7 DEF Write

\* Every step keeps the order of the writes, the origin of a block and the
\* acceptance behind an archive.
LEMMA ArchiveStep ==
  ASSUME TypeOK, OrderInv, JudgedInv, ArchiveInv, [Next]_vars
  PROVE  OrderInv' /\ JudgedInv' /\ ArchiveInv'
<1>1. CASE StartNext
  <2>1. /\ cmd'.op = "agents" /\ cmd'.state = json /\ cmd'.todo = <<>>
        /\ UNCHANGED <<files, accepted>>
    BY <1>1 DEF StartNext
  <2>2. ~run'.summary /\ run'.round = json.round + 1 /\ mixed' = mixed
    BY <1>1 DEF StartNext, NoRun
  <2>3. <<>> \in Rest /\ <<>> \notin Unjudged
    BY DEF Rest, Unjudged
  <2>4. OrderInv'
    BY <2>1, <2>3 DEF OrderInv, Pending
  <2>5. JudgedInv'
    BY <2>1, <2>2, <2>3 DEF JudgedInv, files
  <2>6. ArchiveInv'
    BY <2>1, <2>2 DEF ArchiveInv, files
  <2>7. QED
    BY <2>4, <2>5, <2>6
<1>2. CASE GateApproves
  BY <1>2, GateKeeps DEF GateApproves, Judged, TypeOK
<1>3. CASE GateFails
  <2>1. PICK types \in FoundSets, owner \in Owners :
          cmd' = Writing(DecideNextState(cmd.state, cmd.state.round + 1, FALSE,
                           BuildIssues(types, cmd.state.phase, decided), owner), GateWrites)
    BY <1>3 DEF GateFails
  <2>2. cmd.op = "agents" /\ mixed' = mixed /\ UNCHANGED <<files, run, accepted>>
    BY <1>3 DEF GateFails
  <2>3. QED
    BY <2>1, <2>2, GateKeeps
<1>4. ASSUME NEW approved \in BOOLEAN, NEW found, NEW owner,
             approved => AcceptanceShown(run.tasks, run.round),
             ~mixed' => ~mixed /\ (approved => run.tasks = json.phase),
             VerifyCurrent(approved, found, owner)
      PROVE  OrderInv' /\ JudgedInv' /\ ArchiveInv'
  <2> DEFINE d == DecideNextState(json, json.round, approved, found, owner)
  <2>1. /\ d.round = json.round
        /\ d.phase = "ARCHIVE" => \/ json.phase = "ARCHIVE"
                                  \/ json.phase = "USER_ACCEPTANCE" /\ approved
        /\ AtAcceptance(d) => \/ json.phase = "USER_ACCEPTANCE"
                              \/ json.phase = "PRODUCT_ACCEPTANCE" /\ approved
    BY DecisionPhase DEF TypeOK
  <2> HIDE DEF d
  <2>2. /\ cmd'.op = "write" /\ cmd'.state = d /\ cmd'.todo = VerifyWrites
        /\ UNCHANGED <<files, run, accepted>>
        /\ run.summary
    BY <1>4 DEF VerifyCurrent, Writing, d
  <2>3. ~mixed' /\ json.phase = "USER_ACCEPTANCE" /\ run.tasks = "USER_ACCEPTANCE" =>
          run.round = json.round
    BY <1>4, <2>2 DEF JudgedInv, AtAcceptance
  <2>4. ~mixed' /\ d.phase = "ARCHIVE" /\ json.phase # "ARCHIVE" => d.round \in accepted
    BY <1>4, <2>1, <2>3 DEF AcceptanceShown
  <2>5. ~mixed' /\ run.tasks = "USER_ACCEPTANCE" /\ AtAcceptance(d) => run.round = d.round
    BY <1>4, <2>1, <2>3
  <2>6. QED
    BY <1>4, <2>2, <2>4, <2>5, BeginKeeps
<1>5. CASE VerifyApproves
  BY <1>4, <1>5 DEF VerifyApproves, Judged, TypeOK
<1>6. CASE VerifyFails
  <2>1. mixed' = mixed
    BY <1>6 DEF VerifyFails
  <2>2. \E found, owner : VerifyCurrent(FALSE, found, owner)
    BY <1>6 DEF VerifyFails
  <2>3. QED
    BY <1>4, <2>1, <2>2 DEF TypeOK
<1>7. CASE Decide
  <2>1. PICK i \in Human(json.issues) :
          LET known == decided \union {<<GateOf(json.phase), i.type>>}
              left  == {j \in Human(json.issues) : <<GateOf(json.phase), j.type>> \notin known}
              edit  == json.directEdit \/ json.phase \in PrdPhases
          IN /\ decided' = known
             /\ cmd' = IF left # {} THEN cmd
                       ELSE Writing(WorkflowState(json.phase, json.round, 0,
                                      "CHANGES_REQUESTED", "NEEDS_FIX", FALSE, edit,
                                      json.issues), Writes)
    BY <1>7 DEF Decide
  <2>2. \/ cmd' = cmd
        \/ /\ cmd'.op = "write" /\ cmd'.todo = Writes
           /\ cmd'.state.phase = json.phase /\ cmd'.state.status = "NEEDS_FIX"
    BY <2>1 DEF Writing, WorkflowState
  <2>3. UNCHANGED <<files, run, accepted, mixed>>
    BY <1>7 DEF Decide
  <2>4. cmd'.state.phase = json.phase => cmd'.state.round = json.round \/ cmd' = cmd
    BY <2>1 DEF Writing, WorkflowState
  <2>5. QED
    BY <2>2, <2>3, <2>4, RestKeeps, BeginKeeps DEF AtAcceptance, JudgedInv
<1>8. CASE Accept \/ Start \/ CleanUpSucceeds
  <2>1. /\ cmd'.op = "write" /\ cmd'.todo \in {Writes, ResetWrites}
        /\ \/ cmd'.state.phase = "INTAKE"
           \/ /\ cmd'.state.phase = "USER_ACCEPTANCE" /\ json.phase = "USER_ACCEPTANCE"
              /\ cmd'.state.round = json.round
    BY <1>8 DEF Accept, Start, CleanUpSucceeds, Writing, WorkflowState
  <2>2. UNCHANGED <<files, run, mixed>> /\ accepted \subseteq accepted'
    BY <1>8 DEF Accept, Start, CleanUpSucceeds
  <2>3. QED
    BY <2>1, <2>2, BeginKeeps DEF AtAcceptance, JudgedInv
<1>9. CASE SyncFromMarkdown
  <2>1. /\ cmd'.op = "write" /\ cmd'.todo = Writes /\ cmd'.state = md
        /\ UNCHANGED <<files, run, accepted, mixed>>
    BY <1>9 DEF SyncFromMarkdown, Writing
  <2>2. QED
    BY <2>1, BeginKeeps DEF JudgedInv, ArchiveInv
<1>10. CASE Reconcile
  <2>1. /\ cmd'.op = "reset" /\ cmd'.todo = ResetWrites /\ cmd'.state.phase = "INTAKE"
        /\ UNCHANGED <<files, run, accepted, mixed>>
    BY <1>10 DEF Reconcile, WorkflowState
  <2>2. QED
    BY <2>1, BeginKeeps DEF AtAcceptance
<1>11. CASE RunFails
  <2>1. /\ run'.summary = run.summary /\ run'.tasks = run.tasks /\ run'.round = run.round
        /\ cmd' = Idle(json) /\ UNCHANGED <<files, accepted, mixed>>
    BY <1>11 DEF RunFails, Quit, TypeOK, Run
  <2>2. QED
    BY <2>1, RestKeeps
<1>12. CASE CleanUpFails \/ Crash
  BY <1>12, RestKeeps DEF CleanUpFails, Crash, Quit
<1>13. CASE Write
  BY <1>13, WriteKeeps
<1>14. CASE UNCHANGED vars
  BY <1>14, RestKeeps DEF vars, files
<1>15. QED
  BY <1>1, <1>2, <1>3, <1>5, <1>6, <1>7, <1>8, <1>9, <1>10, <1>11, <1>12, <1>13, <1>14
     DEF Next, User, Gate

\* As long as no phase of the workflow was approved on the tasks of another,
\* nothing is archived without the acceptance of its round.
THEOREM ArchivesAreAccepted == Spec => ArchiveIsAcceptedUnlessMixed
<1>1. Init => OrderInv /\ JudgedInv /\ ArchiveInv
  <2> SUFFICES ASSUME Init
               PROVE  OrderInv /\ JudgedInv /\ ArchiveInv
    OBVIOUS
  <2>1. /\ cmd.op = "idle" /\ cmd.todo = <<>> /\ cmd.state = json /\ md = json /\ ~run.summary
    BY DEF Init, Idle, NoRun
  <2>2. <<>> \in Rest /\ <<>> \notin Unjudged
    BY DEF Rest, Unjudged
  <2>3. QED
    BY <2>1, <2>2 DEF OrderInv, JudgedInv, ArchiveInv, Pending
<1>2. TypeOK /\ OrderInv /\ JudgedInv /\ ArchiveInv /\ [Next]_vars
        => OrderInv' /\ JudgedInv' /\ ArchiveInv'
  BY ArchiveStep
<1>3. TypeOK /\ OrderInv /\ ArchiveInv /\ [Next]_vars => [~mixed => ArchivesAccepted]_vars
  <2> SUFFICES ASSUME TypeOK, OrderInv, ArchiveInv, [Next]_vars,
                      json.phase = "USER_ACCEPTANCE", json'.phase = "ARCHIVE",
                      ~mixed
               PROVE  json'.round \in accepted
    BY DEF ArchivesAccepted
  <2>1. json' # json
    OBVIOUS
  <2>2. WriteJson
    BY <2>1 DEF Next, vars, User, Gate, Write, StartNext, GateApproves, GateFails, RunFails,
       VerifyApproves, VerifyFails, VerifyCurrent, Decide, Accept, Start, SyncFromMarkdown,
       Reconcile, CleanUpFails, CleanUpSucceeds, Crash, WriteMarkdown, WriteContext,
       WriteSummary, WriteRunFinished, SyncRunSnapshot, ClearRun, files
  <2>3. QED
    BY <2>2 DEF WriteJson, ArchiveInv
<1>4. QED
  BY TypeCorrect, <1>1, <1>2, <1>3, PTL DEF Spec, ArchiveIsAcceptedUnlessMixed

----------------------------------------------------------------------------
(* IssueRounds: the agents that are sent.                                   *)

\* One element, or none.
LEMMA WhenIsSeq ==
  ASSUME NEW X, NEW x, NEW b \in BOOLEAN, b => x \in X
  PROVE  When(b, x) \in Seq(X) /\ ToSet(When(b, x)) = IF b THEN {x} ELSE {}
BY DEF When, ToSet

\* The agents a rework is assigned to, among those the planner knows.
LEMMA KnownAgents ==
  ASSUME NEW W \in SUBSET Agent, NEW agents \in Seq(W \union {"engine"})
  PROVE  /\ Known(agents) \in Seq(W)
         /\ \A x : x \in ToSet(Known(agents)) <=>
                    x \in Agent /\ \E k \in 1..Len(agents) : x = agents[k]
<1> DEFINE n == Len(agents)
           seqs == [k \in DOMAIN agents |-> When(agents[k] \in Agent, agents[k])]
<1>1. /\ n \in Nat /\ DOMAIN agents = 1..n
      /\ \A k \in 1..n : agents[k] \in Agent => agents[k] \in W
  BY DEF Agent
<1>2. ASSUME NEW k \in 1..n
      PROVE  /\ seqs[k] \in Seq(W)
             /\ \A x : x \in ToSet(seqs[k]) <=> x \in Agent /\ x = agents[k]
  <2>1. seqs[k] = When(agents[k] \in Agent, agents[k])
    BY <1>1
  <2>2. CASE agents[k] \in Agent
    <3>1. seqs[k] = <<agents[k]>>
      BY <2>1, <2>2 DEF When
    <3> QED BY <1>1, <3>1, <2>2, FewElements
  <2>3. CASE agents[k] \notin Agent
    <3>1. seqs[k] = <<>>
      BY <2>1, <2>3 DEF When
    <3> QED BY <3>1, <2>3, FewElements
  <2> QED BY <2>2, <2>3
<1>3. seqs \in [1..n -> Seq(W)]
  BY <1>1, <1>2
<1>4. /\ FlattenSeq(seqs) \in Seq(W)
      /\ \A x : x \in ToSet(FlattenSeq(seqs)) <=> \E k \in 1..n : x \in ToSet(seqs[k])
  <2> HIDE DEF seqs, n
  <2> QED BY <1>1, <1>3, Flattened
<1>5. Known(agents) = FlattenSeq(seqs)
  BY DEF Known
<1> HIDE DEF seqs
<1> QED BY <1>2, <1>4, <1>5

\* The agents but the one that talks with the user.
Worker == Agent \ {"brain"}
TalkPhases == {"USER_ACCEPTANCE", "ARCHIVE"}

\* The planner plans for agents it knows, the brain agent only to talk with the user.
LEMMA PlannedAgents ==
  ASSUME NEW s, s.phase \in LoopPhase \ TalkPhases, NEW assigned \in Seq(Worker \union {"engine"})
  PROVE  PlanTasks(s, assigned) \in Seq(Worker)
<1>1. /\ <<"product">> \in Seq(Worker) /\ <<"ui">> \in Seq(Worker)
      /\ <<"test">> \in Seq(Worker)
  BY DEF Agent, Worker
<1>2. /\ <<"frontend", "backend">> \in Seq(Worker) /\ <<"ui", "review">> \in Seq(Worker)
      /\ <<"test", "review">> \in Seq(Worker) /\ <<"product", "test">> \in Seq(Worker)
  BY DEF Agent, Worker
<1>3. /\ <<"frontend", "backend", "test">> \in Seq(Worker)
      /\ <<"frontend_architect", "backend_architect", "test">> \in Seq(Worker)
  BY DEF Agent, Worker
<1>4. /\ <<"frontend", "backend", "test", "ui">> \in Seq(Worker)
      /\ <<"frontend_architect", "backend_architect", "test", "review">> \in Seq(Worker)
  BY DEF Agent, Worker
<1>5. /\ <<"frontend", "backend", "test", "ui", "review">> \in Seq(Worker)
      /\ <<"product", "ui", "test", "frontend_architect", "backend_architect", "review">>
           \in Seq(Worker)
  BY DEF Agent, Worker
<1>6. /\ s.phase \in PrdPhases \union {"ARCHITECTURE_IMPACT_REVIEW", "UI_DESIGN",
           "DEVELOPMENT_DESIGN", "DESIGN_REVIEW", "IMPLEMENTATION", "TESTING",
           "PRODUCT_ACCEPTANCE"}
      /\ PrdPhases = {"INTAKE", "PRD_REVIEW"}
  BY DEF LoopPhase, TalkPhases, PrdPhases
<1>7. PhaseAgents(s.phase) \in Seq(Worker)
  BY <1>1, <1>2, <1>3, <1>4, <1>5, <1>6 DEF PhaseAgents
<1>8. RecheckAgents(s.phase) \in Seq(Worker)
  BY <1>1, <1>2, <1>3, <1>4, <1>5, <1>6 DEF RecheckAgents
<1>9. Worker \in SUBSET Agent
  BY DEF Worker
<1> QED BY <1>7, <1>8, <1>9, KnownAgents DEF PlanTasks

----------------------------------------------------------------------------
(* IssueRounds: problems and issues.                                        *)

\* The kinds of problem that are the engine's.
SystemKinds == {"git_mutation_blocked", "task_execution_failed", "self_check_parse_failed",
                "allows_next_stage_parse_failed", "gate_result_gate_type_unregistered",
                "invalid_gate_result_json", "gate_result_contract_invalid"}

\* The others.
WorkKinds == {"missing_output", "missing_self_check", "phase_self_check_incomplete",
              "prd_review_standard_missing", "missing_gate_result_json",
              "gate_result_conclusion_missing", "gate_result_pass_with_open_issues",
              "gate_result_pass_but_next_stage_false", "gate_result_failed_without_reason",
              "gate_result_open_issue_count_mismatch", "gate_result_issue_status_invalid",
              "gate_result_issue_decision_type_missing", "code_integration_conflict",
              "unsupported_code_deletion", "failed_self_check", "blocked_self_check",
              "next_stage_denied", "disallowed_business_change"}

\* What every problem satisfies: its kind says whether it is the engine's; those
\* of the engine and only those may name the engine; an item that is for the user
\* is named to the brain agent.
ProblemKind == SystemKinds \union WorkKinds \union ItemKinds
Target == (Agent \union {"any"}) \X Nat
SoundProblem ==
  {p \in [kind : ProblemKind, agent : Worker, owner : Agent \union {"engine"}, human : BOOLEAN,
          system : BOOLEAN, target : Target, subject : Subject \union {"none"}] :
     /\ p.system <=> p.kind \in SystemKinds
     /\ p.system => p.subject = "none"
     /\ p.owner = "engine" => p.system
     /\ p.kind \in ItemKinds /\ p.human => p.owner = "brain"}

\* The three ways a problem is made.
LEMMA ToFixIsSound ==
  ASSUME NEW a \in Worker, NEW owner \in Agent, NEW n \in Nat, NEW kind \in WorkKinds
  PROVE  ToFix(kind, a, owner, n) \in SoundProblem
<1>1. owner # "engine"
  BY DEF Agent
<1>2. kind \notin SystemKinds /\ a \in Agent
  BY DEF SystemKinds, WorkKinds, Worker
<1> QED BY <1>1, <1>2 DEF ToFix, Problem, SoundProblem, ProblemKind, Target

\* What the engine got wrong is marked as its own.
LEMMA OfEngineIsSound ==
  ASSUME NEW a \in Worker, NEW n \in Nat, NEW kind \in SystemKinds
  PROVE  OfEngine(kind, a, n) \in SoundProblem /\ OfEngine(kind, a, n).system
<1>1. kind \notin ItemKinds /\ a \in Agent
  BY DEF SystemKinds, ItemKinds, Worker
<1> QED BY <1>1 DEF OfEngine, Problem, SoundProblem, ProblemKind, Target

\* What is for the user is nothing of the engine.
LEMMA ToDecideIsSound ==
  ASSUME NEW a \in Worker, NEW owner \in Agent, NEW kind \in WorkKinds
  PROVE  ToDecide(kind, a, owner) \in SoundProblem
<1>1. owner # "engine"
  BY DEF Agent
<1>2. kind \notin SystemKinds /\ kind \notin ItemKinds
  BY DEF SystemKinds, WorkKinds, ItemKinds
<1> QED BY <1>1, <1>2 DEF ToDecide, Problem, SoundProblem, ProblemKind, Target, NoTarget

\* Who is named for a document whose Self Check fails is an agent.
LEMMA SelfCheckOwnerIsAgent ==
  ASSUME NEW a \in Worker, NEW s
  PROVE  SelfCheckOwner(a, s) \in Agent
<1>1. GateOwner(a, s.phase) \in Agent
  BY DEF GateOwner, Agent, Worker
<1>2. "test" \in Agent /\ a \in Agent
  BY DEF Agent, Worker
<1> QED BY <1>1, <1>2 DEF SelfCheckOwner

\* One sound problem, or none, is a list of sound problems.
LEMMA PieceIsSound ==
  ASSUME NEW p \in SoundProblem, NEW b \in BOOLEAN
  PROVE  When(b, p) \in Seq(SoundProblem)
<1> HIDE DEF SoundProblem
<1> QED BY DEF When

\* What is wrong with the form of a report is sound.
LEMMA ContractIssuesAreSound ==
  ASSUME NEW a \in Worker, NEW r \in GateReport, NEW n \in Nat
  PROVE  ContractIssues(a, r, n) \in Seq(SoundProblem)
<1> DEFINE form(b, kind) == When(b, ToFix(kind, a, a, n))
           badEntry(i) == form(~i.asQuestion /\ i.status = "odd",
                               "gate_result_issue_status_invalid")
                          \o form(~i.asQuestion /\ IsOpen(i) /\ i.decision = "none",
                                  "gate_result_issue_decision_type_missing")
           entries == [k \in DOMAIN r.items |-> badEntry(r.items[k])]
           parts == <<
             When(~r.registered, OfEngine("gate_result_gate_type_unregistered", a, n)),
             form(r.verdict = "none", "gate_result_conclusion_missing"),
             form(r.verdict = "PASS" /\ HasOpenIssues(r), "gate_result_pass_with_open_issues"),
             form(r.verdict = "PASS" /\ r.next = "no", "gate_result_pass_but_next_stage_false"),
             form(r.verdict \in Verdict \ {"PASS"} /\ ~HasOpenIssues(r) /\ ~r.reason,
                  "gate_result_failed_without_reason"),
             form(~r.countRight, "gate_result_open_issue_count_mismatch"),
             FlattenSeq(entries)>>
<1>1. ASSUME NEW kind \in WorkKinds, NEW b \in BOOLEAN
      PROVE  form(b, kind) \in Seq(SoundProblem)
  BY ToFixIsSound, PieceIsSound DEF Worker
<1>2. Len(r.items) \in Nat /\ DOMAIN r.items = 1..Len(r.items)
  BY DEF GateReport
<1>3. entries \in [1..Len(r.items) -> Seq(SoundProblem)]
  <2>1. ASSUME NEW k \in 1..Len(r.items) PROVE badEntry(r.items[k]) \in Seq(SoundProblem)
    <3>1. /\ "gate_result_issue_status_invalid" \in WorkKinds
          /\ "gate_result_issue_decision_type_missing" \in WorkKinds
      BY DEF WorkKinds
    <3>2. r.items[k].asQuestion \in BOOLEAN
      <4>1. r.items \in Seq(Item)
        BY DEF GateReport
      <4>2. r.items[k] \in Item
        BY <4>1
      <4> QED BY <4>2 DEF Item
    <3>3. form(~r.items[k].asQuestion /\ r.items[k].status = "odd",
               "gate_result_issue_status_invalid") \in Seq(SoundProblem)
      BY <1>1, <3>1, <3>2
    <3>4. form(~r.items[k].asQuestion /\ IsOpen(r.items[k]) /\ r.items[k].decision = "none",
               "gate_result_issue_decision_type_missing") \in Seq(SoundProblem)
      BY <1>1, <3>1, <3>2 DEF IsOpen
    <3> HIDE DEF form
    <3> QED BY <3>3, <3>4, ElementsOfConcat
  <2> QED BY <1>2, <2>1
<1>4. FlattenSeq(entries) \in Seq(SoundProblem)
  <2> HIDE DEF entries
  <2> QED BY <1>2, <1>3, Flattened
<1>5. When(~r.registered, OfEngine("gate_result_gate_type_unregistered", a, n))
        \in Seq(SoundProblem)
  <2>1. "gate_result_gate_type_unregistered" \in SystemKinds
    BY DEF SystemKinds
  <2> QED BY <2>1, OfEngineIsSound, PieceIsSound
<1>6. \A k \in 2..6 : parts[k] \in Seq(SoundProblem)
  <2>1. /\ "gate_result_conclusion_missing" \in WorkKinds
        /\ "gate_result_pass_with_open_issues" \in WorkKinds
        /\ "gate_result_pass_but_next_stage_false" \in WorkKinds
        /\ "gate_result_failed_without_reason" \in WorkKinds
        /\ "gate_result_open_issue_count_mismatch" \in WorkKinds
    BY DEF WorkKinds
  <2>2. form(r.verdict = "none", "gate_result_conclusion_missing") \in Seq(SoundProblem)
    BY <1>1, <2>1
  <2>3. form(r.verdict = "PASS" /\ HasOpenIssues(r), "gate_result_pass_with_open_issues")
          \in Seq(SoundProblem)
    BY <1>1, <2>1 DEF HasOpenIssues
  <2>4. form(r.verdict = "PASS" /\ r.next = "no", "gate_result_pass_but_next_stage_false")
          \in Seq(SoundProblem)
    BY <1>1, <2>1
  <2>5. form(r.verdict \in Verdict \ {"PASS"} /\ ~HasOpenIssues(r) /\ ~r.reason,
             "gate_result_failed_without_reason") \in Seq(SoundProblem)
    BY <1>1, <2>1 DEF HasOpenIssues
  <2>6. form(~r.countRight, "gate_result_open_issue_count_mismatch") \in Seq(SoundProblem)
    BY <1>1, <2>1
  <2> HIDE DEF form, entries
  <2> QED BY <2>2, <2>3, <2>4, <2>5, <2>6
<1>7. parts \in [1..7 -> Seq(SoundProblem)]
  <2> HIDE DEF form, entries
  <2> QED BY <1>4, <1>5, <1>6
<1>8. FlattenSeq(parts) \in Seq(SoundProblem)
  <2> HIDE DEF parts
  <2> QED BY <1>7, Flattened
<1> QED BY <1>8 DEF ContractIssues

\* What an open item says is sound, and a question is among it.
LEMMA StatedIsSound ==
  ASSUME NEW a \in Worker, NEW i \in Item, NEW n \in Nat
  PROVE  /\ StatedBy(a, i, n) \in Seq(SoundProblem)
         /\ IsOpen(i) /\ Asks(i) => Question(a, i, n) \in ToSet(StatedBy(a, i, n))
<1> DEFINE owner == IF i.owner = "none" THEN a ELSE i.owner
<1>1. /\ TargetOf(a, i, n) \in Target /\ owner \in Agent /\ i.subject \in Subject
      /\ owner # "engine" /\ KindOf(i) \in ItemKinds /\ KindOf(i) \notin SystemKinds
  BY DEF Item, NoTarget, Agent, Worker, Target, TargetOf, KindOf, ItemKinds, SystemKinds
<1>2. Question(a, i, n) \in SoundProblem
  <2>1. "brain" \in Agent /\ "brain" # "engine"
    BY DEF Agent
  <2> QED BY <1>1, <2>1 DEF Question, Problem, SoundProblem, ProblemKind
<1>3. Flaw(a, i, n) \in SoundProblem
  <2>1. Flaw(a, i, n) = Problem(KindOf(i), a, owner, FALSE, FALSE, TargetOf(a, i, n), i.subject)
    BY DEF Flaw
  <2> HIDE DEF owner
  <2> QED BY <1>1, <2>1 DEF Problem, SoundProblem, ProblemKind
<1>4. /\ ToFix("gate_result_issue_status_invalid", a, a, n) \in SoundProblem
      /\ ToFix("gate_result_issue_decision_type_missing", a, a, n) \in SoundProblem
  <2>1. /\ "gate_result_issue_status_invalid" \in WorkKinds
        /\ "gate_result_issue_decision_type_missing" \in WorkKinds
    BY DEF WorkKinds
  <2>2. a \in Agent
    BY DEF Worker
  <2> QED BY <2>1, <2>2, ToFixIsSound
<1>5. \/ /\ StatedBy(a, i, n) = <<ToFix("gate_result_issue_status_invalid", a, a, n)>>
         /\ i.status = "odd"
      \/ StatedBy(a, i, n) = <<Question(a, i, n)>> /\ IsOpen(i) /\ Asks(i)
      \/ StatedBy(a, i, n) = <<Flaw(a, i, n)>> /\ i.decision = "auto" /\ ~Asks(i)
      \/ /\ StatedBy(a, i, n) = <<ToFix("gate_result_issue_decision_type_missing", a, a, n)>>
         /\ ~Asks(i)
      \/ StatedBy(a, i, n) = <<>> /\ ~(IsOpen(i) /\ Asks(i))
  BY DEF StatedBy, Asks, IsOpen, Item
<1>6. \A x \in SoundProblem : <<x>> \in Seq(SoundProblem) /\ ToSet(<<x>>) = {x}
  BY FewElements
<1>7. <<>> \in Seq(SoundProblem)
  BY FewElements
<1>8. StatedBy(a, i, n) \in Seq(SoundProblem)
  BY <1>2, <1>3, <1>4, <1>5, <1>6, <1>7
<1>9. IsOpen(i) /\ Asks(i) => Question(a, i, n) \in ToSet(StatedBy(a, i, n))
  BY <1>2, <1>5, <1>6 DEF IsOpen
<1> QED BY <1>8, <1>9

\* What a report that cannot be taken as it is complains of is sound, and its
\* open questions are among it.
LEMMA GateResultIssuesAreSound ==
  ASSUME NEW a \in Worker, NEW r \in GateReport, NEW n \in Nat
  PROVE  /\ GateResultIssues(a, r, n) \in Seq(SoundProblem)
         /\ \A k \in DOMAIN r.items :
              r.file = "object" /\ IsOpen(r.items[k]) /\ Asks(r.items[k]) =>
                Question(a, r.items[k], n) \in ToSet(GateResultIssues(a, r, n))
<1> DEFINE m == Len(r.items)
           stated == [k \in DOMAIN r.items |-> StatedBy(a, r.items[k], n)]
<1>1. /\ m \in Nat /\ DOMAIN r.items = 1..m
      /\ \A k \in 1..m : r.items[k] \in Item
  <2>1. r.items \in Seq(Item)
    BY DEF GateReport
  <2> QED BY <2>1
<1>2. stated \in [1..m -> Seq(SoundProblem)]
  BY <1>1, StatedIsSound
<1>3. /\ FlattenSeq(stated) \in Seq(SoundProblem)
      /\ \A x : x \in ToSet(FlattenSeq(stated)) <=> \E k \in 1..m : x \in ToSet(stated[k])
  <2> HIDE DEF stated, m
  <2> QED BY <1>1, <1>2, Flattened
<1>4. StructuredIssues(a, r, n) = FlattenSeq(stated)
  BY DEF StructuredIssues
<1>5. /\ ContractIssues(a, r, n) \o StructuredIssues(a, r, n) \in Seq(SoundProblem)
      /\ ToSet(StructuredIssues(a, r, n))
           \subseteq ToSet(ContractIssues(a, r, n) \o StructuredIssues(a, r, n))
  <2> HIDE DEF stated
  <2> QED BY <1>3, <1>4, ContractIssuesAreSound, ElementsOfConcat
<1>6. GateResultIssues(a, r, n) \in Seq(SoundProblem)
  <2>1. ToFix("missing_gate_result_json", a, a, n) \in SoundProblem
    BY ToFixIsSound DEF WorkKinds, Worker
  <2>2. /\ OfEngine("invalid_gate_result_json", a, n) \in SoundProblem
        /\ OfEngine("gate_result_contract_invalid", a, n) \in SoundProblem
    BY OfEngineIsSound DEF SystemKinds
  <2>3. \A x \in SoundProblem : <<x>> \in Seq(SoundProblem)
    BY FewElements
  <2> HIDE DEF SoundProblem
  <2> QED BY <1>5, <2>1, <2>2, <2>3 DEF GateResultIssues
<1>7. ASSUME NEW k \in DOMAIN r.items, r.file = "object", IsOpen(r.items[k]), Asks(r.items[k])
      PROVE  Question(a, r.items[k], n) \in ToSet(GateResultIssues(a, r, n))
  <2>1. GateResultIssues(a, r, n) = ContractIssues(a, r, n) \o StructuredIssues(a, r, n)
    BY <1>7 DEF GateResultIssues
  <2>2. Question(a, r.items[k], n) \in ToSet(StatedBy(a, r.items[k], n))
    BY <1>1, <1>7, StatedIsSound
  <2>3. stated[k] = StatedBy(a, r.items[k], n)
    OBVIOUS
  <2>4. Question(a, r.items[k], n) \in ToSet(StructuredIssues(a, r, n))
    BY <1>1, <1>3, <1>4, <2>2, <2>3
  <2> QED BY <1>5, <2>1, <2>4
<1> QED BY <1>6, <1>7

\* The problems of a row are sound; an agent that did not run, or could not be
\* read, is among them, and so is all its report complains of.
LEMMA BuildProblemsAreSound ==
  ASSUME NEW s, NEW a \in Worker, NEW r \in Result, NEW n \in Nat
  PROVE  /\ BuildProblems(s, a, r, n) \in Seq(SoundProblem)
         /\ SystemTrouble(r) => \E p \in ToSet(BuildProblems(s, a, r, n)) : p.system
         /\ ToSet(GateResultIssues(a, r.report, n)) \subseteq ToSet(BuildProblems(s, a, r, n))
<1> DEFINE parts == <<
             When(r.task = "mutated", OfEngine("git_mutation_blocked", a, n)),
             When(r.task = "failed", OfEngine("task_execution_failed", a, n)),
             When(SelfCheckUnread(r), OfEngine("self_check_parse_failed", a, n)),
             When(PermissionUnread(r), OfEngine("allows_next_stage_parse_failed", a, n)),
             When(r.output = "missing", ToFix("missing_output", a, a, n)),
             When(r.output = "unchecked", ToFix("missing_self_check", a, a, n)),
             When(Uncovered(r), ToFix("phase_self_check_incomplete", a, a, n)),
             When(CitesMissing(s.phase, r), ToFix("prd_review_standard_missing", a, a, n)),
             GateResultIssues(a, r.report, n),
             When("conflict" \in r.changes, ToDecide("code_integration_conflict", a, "brain")),
             When("deleted" \in r.changes, ToDecide("unsupported_code_deletion", a, "brain")),
             When(Says(r, "FAIL"), ToFix("failed_self_check", a, SelfCheckOwner(a, s), n)),
             When(Says(r, "BLOCKED"), ToFix("blocked_self_check", a, a, n)),
             When(Denies(r), ToFix("next_stage_denied", a, SelfCheckOwner(a, s), n)),
             When("outside" \in r.changes, ToDecide("disallowed_business_change", a, a))>>
<1>1. "brain" \in Agent /\ a \in Agent
  BY DEF Agent, Worker
<1>2. ASSUME NEW kind \in SystemKinds, NEW b \in BOOLEAN
      PROVE  When(b, OfEngine(kind, a, n)) \in Seq(SoundProblem)
  BY OfEngineIsSound, PieceIsSound
<1>3. ASSUME NEW kind \in WorkKinds, NEW b \in BOOLEAN, NEW owner \in Agent
      PROVE  /\ When(b, ToFix(kind, a, owner, n)) \in Seq(SoundProblem)
             /\ When(b, ToDecide(kind, a, owner)) \in Seq(SoundProblem)
  BY ToFixIsSound, ToDecideIsSound, PieceIsSound
<1>4. \A k \in 1..4 : parts[k] \in Seq(SoundProblem)
  <2>1. /\ "git_mutation_blocked" \in SystemKinds /\ "task_execution_failed" \in SystemKinds
        /\ "self_check_parse_failed" \in SystemKinds
        /\ "allows_next_stage_parse_failed" \in SystemKinds
    BY DEF SystemKinds
  <2>2. /\ (r.task = "mutated") \in BOOLEAN /\ (r.task = "failed") \in BOOLEAN
        /\ SelfCheckUnread(r) \in BOOLEAN /\ PermissionUnread(r) \in BOOLEAN
    BY DEF SelfCheckUnread, PermissionUnread
  <2>3. When(r.task = "mutated", OfEngine("git_mutation_blocked", a, n)) \in Seq(SoundProblem)
    BY <1>2, <2>1, <2>2
  <2>4. When(r.task = "failed", OfEngine("task_execution_failed", a, n)) \in Seq(SoundProblem)
    BY <1>2, <2>1, <2>2
  <2>5. When(SelfCheckUnread(r), OfEngine("self_check_parse_failed", a, n)) \in Seq(SoundProblem)
    BY <1>2, <2>1, <2>2
  <2>6. When(PermissionUnread(r), OfEngine("allows_next_stage_parse_failed", a, n))
          \in Seq(SoundProblem)
    BY <1>2, <2>1, <2>2
  <2> QED BY <2>3, <2>4, <2>5, <2>6
<1>5. \A k \in 5..8 : parts[k] \in Seq(SoundProblem)
  <2>1. /\ "missing_output" \in WorkKinds /\ "missing_self_check" \in WorkKinds
        /\ "phase_self_check_incomplete" \in WorkKinds
        /\ "prd_review_standard_missing" \in WorkKinds
    BY DEF WorkKinds
  <2>2. /\ (r.output = "missing") \in BOOLEAN /\ (r.output = "unchecked") \in BOOLEAN
        /\ Uncovered(r) \in BOOLEAN /\ CitesMissing(s.phase, r) \in BOOLEAN
    BY DEF Uncovered, CitesMissing
  <2>3. When(r.output = "missing", ToFix("missing_output", a, a, n)) \in Seq(SoundProblem)
    BY <1>1, <1>3, <2>1, <2>2
  <2>4. When(r.output = "unchecked", ToFix("missing_self_check", a, a, n)) \in Seq(SoundProblem)
    BY <1>1, <1>3, <2>1, <2>2
  <2>5. When(Uncovered(r), ToFix("phase_self_check_incomplete", a, a, n)) \in Seq(SoundProblem)
    BY <1>1, <1>3, <2>1, <2>2
  <2>6. When(CitesMissing(s.phase, r), ToFix("prd_review_standard_missing", a, a, n))
          \in Seq(SoundProblem)
    BY <1>1, <1>3, <2>1, <2>2
  <2> QED BY <2>3, <2>4, <2>5, <2>6
<1>6. \A k \in 10..15 : parts[k] \in Seq(SoundProblem)
  <2>1. /\ "code_integration_conflict" \in WorkKinds /\ "unsupported_code_deletion" \in WorkKinds
        /\ "failed_self_check" \in WorkKinds /\ "blocked_self_check" \in WorkKinds
        /\ "next_stage_denied" \in WorkKinds /\ "disallowed_business_change" \in WorkKinds
    BY DEF WorkKinds
  <2>2. /\ ("conflict" \in r.changes) \in BOOLEAN /\ ("deleted" \in r.changes) \in BOOLEAN
        /\ ("outside" \in r.changes) \in BOOLEAN /\ Says(r, "FAIL") \in BOOLEAN
        /\ Says(r, "BLOCKED") \in BOOLEAN /\ Denies(r) \in BOOLEAN
    BY DEF Says, Denies
  <2>3. When("conflict" \in r.changes, ToDecide("code_integration_conflict", a, "brain"))
          \in Seq(SoundProblem)
    BY <1>1, <1>3, <2>1, <2>2
  <2>4. When("deleted" \in r.changes, ToDecide("unsupported_code_deletion", a, "brain"))
          \in Seq(SoundProblem)
    BY <1>1, <1>3, <2>1, <2>2
  <2>5. When(Says(r, "FAIL"), ToFix("failed_self_check", a, SelfCheckOwner(a, s), n))
          \in Seq(SoundProblem)
    BY <1>3, <2>1, <2>2, SelfCheckOwnerIsAgent
  <2>6. When(Says(r, "BLOCKED"), ToFix("blocked_self_check", a, a, n)) \in Seq(SoundProblem)
    BY <1>1, <1>3, <2>1, <2>2
  <2>7. When(Denies(r), ToFix("next_stage_denied", a, SelfCheckOwner(a, s), n))
          \in Seq(SoundProblem)
    BY <1>3, <2>1, <2>2, SelfCheckOwnerIsAgent
  <2>8. When("outside" \in r.changes, ToDecide("disallowed_business_change", a, a))
          \in Seq(SoundProblem)
    BY <1>1, <1>3, <2>1, <2>2
  <2>9. \A k \in 10..12 : parts[k] \in Seq(SoundProblem)
    BY <2>3, <2>4, <2>5
  <2>10. \A k \in 13..15 : parts[k] \in Seq(SoundProblem)
    BY <2>6, <2>7, <2>8
  <2> HIDE DEF parts
  <2> QED BY <2>9, <2>10
<1>7. GateResultIssues(a, r.report, n) \in Seq(SoundProblem)
  BY GateResultIssuesAreSound DEF Result
<1>8. parts \in [1..15 -> Seq(SoundProblem)]
  <2>1. parts[9] \in Seq(SoundProblem)
    BY <1>7
  <2>2. ASSUME NEW k \in 1..15 PROVE parts[k] \in Seq(SoundProblem)
    <3>1. k \in 1..4 \/ k \in 5..8 \/ k = 9 \/ k \in 10..15
      OBVIOUS
    <3> HIDE DEF parts
    <3> QED BY <1>4, <1>5, <1>6, <2>1, <3>1
  <2>3. parts = [k \in 1..15 |-> parts[k]]
    OBVIOUS
  <2> HIDE DEF parts
  <2> QED BY <2>2, <2>3
<1>9. BuildProblems(s, a, r, n) = FlattenSeq(parts)
  BY DEF BuildProblems
<1>10. /\ FlattenSeq(parts) \in Seq(SoundProblem)
       /\ \A x : x \in ToSet(FlattenSeq(parts)) <=> \E k \in 1..15 : x \in ToSet(parts[k])
  <2> HIDE DEF parts
  <2> QED BY <1>8, Flattened
<1>11. ASSUME SystemTrouble(r)
       PROVE  \E p \in ToSet(BuildProblems(s, a, r, n)) : p.system
  <2>1. ASSUME NEW kind \in SystemKinds, NEW k \in 1..15,
               parts[k] = <<OfEngine(kind, a, n)>>
        PROVE  \E p \in ToSet(BuildProblems(s, a, r, n)) : p.system
    <3> HIDE DEF parts
    <3>1. OfEngine(kind, a, n) \in ToSet(parts[k])
      BY <2>1, OfEngineIsSound, FewElements
    <3>2. OfEngine(kind, a, n) \in ToSet(BuildProblems(s, a, r, n))
      BY <1>9, <1>10, <3>1
    <3> QED BY <3>2, OfEngineIsSound
  <2>2. CASE r.task = "mutated"
    <3>1. parts[1] = <<OfEngine("git_mutation_blocked", a, n)>>
      BY <2>2 DEF When
    <3>2. "git_mutation_blocked" \in SystemKinds
      BY DEF SystemKinds
    <3> HIDE DEF parts
    <3> QED BY <2>1, <3>1, <3>2
  <2>3. CASE r.task = "failed"
    <3>1. parts[2] = <<OfEngine("task_execution_failed", a, n)>>
      BY <2>3 DEF When
    <3>2. "task_execution_failed" \in SystemKinds
      BY DEF SystemKinds
    <3> HIDE DEF parts
    <3> QED BY <2>1, <3>1, <3>2
  <2>4. CASE SelfCheckUnread(r)
    <3>1. parts[3] = <<OfEngine("self_check_parse_failed", a, n)>>
      BY <2>4 DEF When
    <3>2. "self_check_parse_failed" \in SystemKinds
      BY DEF SystemKinds
    <3> HIDE DEF parts
    <3> QED BY <2>1, <3>1, <3>2
  <2> QED BY <1>11, <2>2, <2>3, <2>4 DEF SystemTrouble, Result
<1>12. ToSet(GateResultIssues(a, r.report, n)) \subseteq ToSet(BuildProblems(s, a, r, n))
  <2>1. parts[9] = GateResultIssues(a, r.report, n)
    OBVIOUS
  <2> HIDE DEF parts
  <2> QED BY <1>9, <1>10, <2>1
<1> QED BY <1>9, <1>10, <1>11, <1>12

\* A row whose agent did not run, or whose report has an open question, does
\* not pass.
LEMMA RowFails ==
  ASSUME NEW a \in Worker, NEW p, NEW r \in Result, NEW n \in Nat,
         \/ SystemTrouble(r)
         \/ /\ r.report.file = "object"
            /\ \E k \in DOMAIN r.report.items :
                 IsOpen(r.report.items[k]) /\ Asks(r.report.items[k])
  PROVE  ~RowPassed(a, p, r, n)
<1>1. CASE SystemTrouble(r)
  BY <1>1 DEF SystemTrouble, SelfCheckUnread, Says, RowPassed
<1>2. CASE /\ r.report.file = "object"
           /\ \E k \in DOMAIN r.report.items :
                IsOpen(r.report.items[k]) /\ Asks(r.report.items[k])
  <2>1. PICK k \in DOMAIN r.report.items : IsOpen(r.report.items[k]) /\ Asks(r.report.items[k])
    BY <1>2
  <2>2. r.report \in GateReport
    BY DEF Result
  <2>3. Question(a, r.report.items[k], n) \in ToSet(GateResultIssues(a, r.report, n))
    BY <1>2, <2>1, <2>2, GateResultIssuesAreSound
  <2>4. GateResultIssues(a, r.report, n) # <<>>
    BY <2>3, FewElements
  <2> QED BY <2>4 DEF RowPassed
<1> QED BY <1>1, <1>2

Gates == {GateOf(p) : p \in LoopPhase}
ShortSignature == Gates \X (Subject \union {"none"})
LongSignature ==
  Gates \X ProblemKind \X (Agent \union {"engine"}) \X Target \X (Subject \union {"none"})

\* What every issue satisfies: only those of the engine name it, and they have
\* no topic; an item for the user is named to the brain agent; the signature is
\* that of the issue.
SoundIssue ==
  {i \in [kind : ProblemKind, system : BOOLEAN, owner : Agent \union {"engine"},
          sig : ShortSignature \union LongSignature, subject : Subject \union {"none"},
          human : BOOLEAN] :
     /\ i.system <=> i.kind \in SystemKinds
     /\ i.owner = "engine" => i.system
     /\ i.system => i.subject = "none"
     /\ i.kind \in ItemKinds => (i.human => i.owner = "brain")
     /\ i.sig = IF i.subject \in Topic THEN <<i.sig[1], i.subject>>
                ELSE <<i.sig[1], i.kind, i.owner, i.sig[4], i.subject>>}

\* The issue a problem is turned into.
LEMMA IssueIsSound ==
  ASSUME NEW gate \in Gates, NEW p \in SoundProblem, NEW known
  PROVE  IssueOf(gate, p, known) \in SoundIssue
<1> DEFINE i == IssueOf(gate, p, known)
           owner == IF ~p.human /\ p.owner = "brain" THEN p.agent ELSE p.owner
           sig == Signature(gate, p, owner)
           human == p.human /\ [gate |-> gate, sig |-> sig, subject |-> p.subject] \notin known
<1>1. i = [kind |-> p.kind, system |-> p.system, owner |-> owner, sig |-> sig,
           subject |-> p.subject, human |-> human]
  BY DEF IssueOf
<1>2. /\ p.kind \in ProblemKind /\ p.system \in BOOLEAN /\ p.human \in BOOLEAN
      /\ p.agent \in Agent /\ p.owner \in Agent \union {"engine"}
      /\ p.target \in Target /\ p.subject \in Subject \union {"none"}
      /\ p.system <=> p.kind \in SystemKinds
      /\ p.owner = "engine" => p.system
      /\ p.system => p.subject = "none"
      /\ p.kind \in ItemKinds /\ p.human => p.owner = "brain"
  BY DEF SoundProblem, Worker
<1>3. /\ owner \in Agent \union {"engine"}
      /\ owner = "engine" => p.owner = "engine"
      /\ p.kind \in ItemKinds /\ p.human => owner = "brain"
  <2>1. "engine" \notin Agent
    BY DEF Agent
  <2> QED BY <1>2, <2>1
<1> HIDE DEF owner
<1>4. /\ sig \in ShortSignature \union LongSignature /\ sig[1] = gate
      /\ p.subject \notin Topic => sig[4] = p.target
      /\ sig = IF p.subject \in Topic THEN <<sig[1], p.subject>>
               ELSE <<sig[1], p.kind, owner, sig[4], p.subject>>
  <2>1. CASE p.subject \in Topic
    <3>1. sig = <<gate, p.subject>>
      BY <2>1 DEF Signature
    <3> QED BY <2>1, <3>1, <1>2 DEF ShortSignature
  <2>2. CASE p.subject \notin Topic
    <3>1. sig = <<gate, p.kind, owner, p.target, p.subject>>
      BY <2>2 DEF Signature
    <3> QED BY <2>2, <3>1, <1>2, <1>3 DEF LongSignature
  <2> QED BY <2>1, <2>2
<1>5. human \in BOOLEAN /\ (human => p.human)
  BY <1>2
<1> HIDE DEF sig, human
<1>6. /\ i.kind = p.kind /\ i.system = p.system /\ i.owner = owner /\ i.sig = sig
      /\ i.subject = p.subject /\ i.human = human
  BY <1>1
<1>7. i \in [kind : ProblemKind, system : BOOLEAN, owner : Agent \union {"engine"},
             sig : ShortSignature \union LongSignature, subject : Subject \union {"none"},
             human : BOOLEAN]
  BY <1>1, <1>2, <1>3, <1>4, <1>5
<1> HIDE DEF i
<1>8. i \in SoundIssue
  BY <1>2, <1>3, <1>4, <1>5, <1>6, <1>7 DEF SoundIssue
<1> QED BY <1>8 DEF i

\* Its parts.
LEMMA PartsOfIssue ==
  ASSUME NEW gate, NEW p, NEW known, NEW i, i = IssueOf(gate, p, known)
  PROVE  /\ i.kind = p.kind /\ i.system = p.system /\ i.subject = p.subject /\ i.sig[1] = gate
         /\ i.human = (p.human
                       /\ [gate |-> gate, sig |-> i.sig, subject |-> i.subject] \notin known)
BY DEF IssueOf, Signature

\* Merging keeps issues only, and one for each signature.
LEMMA Merged ==
  ASSUME NEW m \in Nat, NEW list \in [1..m -> SoundIssue]
  PROVE  /\ MergeIssues(list) \in Seq(SoundIssue)
         /\ \A x : x \in ToSet(MergeIssues(list)) => \E k \in 1..m : x = list[k]
         /\ \A k \in 1..m : \E x \in ToSet(MergeIssues(list)) : x.sig = list[k].sig
<1> DEFINE First(k) == \A j \in 1..(k - 1) : list[j].sig # list[k].sig
           seqs == [k \in DOMAIN list |-> When(First(k), list[k])]
<1>1. MergeIssues(list) = FlattenSeq(seqs)
  BY DEF MergeIssues
<1>2. ASSUME NEW k \in 1..m
      PROVE  /\ seqs[k] \in Seq(SoundIssue)
             /\ \A x : x \in ToSet(seqs[k]) <=> First(k) /\ x = list[k]
  <2>1. seqs[k] = When(First(k), list[k]) /\ First(k) \in BOOLEAN /\ list[k] \in SoundIssue
    OBVIOUS
  <2> HIDE DEF seqs, First
  <2>2. When(First(k), list[k]) \in Seq(SoundIssue)
        /\ ToSet(When(First(k), list[k])) = IF First(k) THEN {list[k]} ELSE {}
    BY <2>1, WhenIsSeq
  <2> QED BY <2>1, <2>2
<1>3. seqs \in [1..m -> Seq(SoundIssue)]
  <2>1. DOMAIN list = 1..m
    OBVIOUS
  <2> HIDE DEF First
  <2> QED BY <1>2, <2>1
<1>4. /\ MergeIssues(list) \in Seq(SoundIssue)
      /\ \A x : x \in ToSet(MergeIssues(list)) <=> \E k \in 1..m : x \in ToSet(seqs[k])
  <2> HIDE DEF seqs
  <2> QED BY <1>1, <1>3, Flattened
<1>5. ASSUME NEW k \in 1..m
      PROVE  \E x \in ToSet(MergeIssues(list)) : x.sig = list[k].sig
  <2> DEFINE same == {j \in 1..m : list[j].sig = list[k].sig}
  <2>1. PICK j \in same : \A l \in same : j <= l
    <3>1. same \in SUBSET Nat /\ k \in same
      OBVIOUS
    <3> HIDE DEF same
    <3> QED BY <3>1, LeastNatural
  <2>2. First(j)
    <3>1. ASSUME NEW l \in 1..(j - 1), list[l].sig = list[j].sig PROVE FALSE
      <4>1. l \in 1..m /\ ~(j <= l)
        BY <2>1
      <4>2. l \in same
        BY <2>1, <3>1, <4>1
      <4> QED BY <2>1, <4>1, <4>2
    <3> QED BY <3>1
  <2>3. list[j] \in ToSet(seqs[j]) /\ j \in 1..m
    BY <1>2, <2>1, <2>2
  <2>4. list[j] \in ToSet(MergeIssues(list))
    <3> HIDE DEF seqs, same
    <3> QED BY <1>4, <2>3
  <2> QED BY <2>1, <2>4
<1>6. ASSUME NEW x \in ToSet(MergeIssues(list)) PROVE \E k \in 1..m : x = list[k]
  <2>1. PICK k \in 1..m : x \in ToSet(seqs[k])
    <3> HIDE DEF seqs
    <3> QED BY <1>4
  <2>2. x = list[k]
    BY <1>2, <2>1
  <2> QED BY <2>2
<1> QED
  <2> HIDE DEF seqs, First
  <2> QED BY <1>4, <1>5, <1>6

\* An issue a problem was turned into.
IsOfProblem(i, gate, known) == \E p \in SoundProblem : i = IssueOf(gate, p, known)
\* A problem that one of the issues stands for.
HasIssue(p, issues, gate, known) ==
  \E j \in DOMAIN issues : issues[j].sig = IssueOf(gate, p, known).sig

\* The issues of a round: each is made from a problem, and each problem of a
\* row that does not pass is in one of its signature.
LEMMA RoundIssues ==
  ASSUME NEW s, GateOf(s.phase) \in Gates, NEW agents \in Seq(Worker), NEW results,
         \A k \in DOMAIN agents : results[agents[k]] \in Result, NEW n \in Nat, NEW known,
         NEW issues, issues = BuildIssuesFromGateSummary(s, agents, results, n, known)
  PROVE  /\ issues \in Seq(SoundIssue)
         /\ \A j \in DOMAIN issues : IsOfProblem(issues[j], GateOf(s.phase), known)
         /\ \A k \in DOMAIN agents :
              ~RowPassed(agents[k], s.phase, results[agents[k]], n) =>
                \A p \in ToSet(BuildProblems(s, agents[k], results[agents[k]], n)) :
                  p \in SoundProblem /\ HasIssue(p, issues, GateOf(s.phase), known)
<1> DEFINE m == Len(agents)
           row(a) == IF RowPassed(a, s.phase, results[a], n) THEN <<>>
                     ELSE BuildProblems(s, a, results[a], n)
           rows == [k \in DOMAIN agents |-> row(agents[k])]
           problems == FlattenSeq(rows)
           all == [k \in DOMAIN problems |-> IssueOf(GateOf(s.phase), problems[k], known)]
<1>1. m \in Nat /\ DOMAIN agents = 1..m /\ \A k \in 1..m : agents[k] \in Worker
  OBVIOUS
<1>2. issues = MergeIssues(all)
  BY DEF BuildIssuesFromGateSummary
<1>3. rows \in [1..m -> Seq(SoundProblem)]
  <2>1. ASSUME NEW k \in 1..m PROVE row(agents[k]) \in Seq(SoundProblem)
    <3>1. BuildProblems(s, agents[k], results[agents[k]], n) \in Seq(SoundProblem)
      BY <1>1, BuildProblemsAreSound
    <3> QED BY <3>1, FewElements
  <2> HIDE DEF row
  <2> QED BY <1>1, <2>1
<1>4. /\ problems \in Seq(SoundProblem)
      /\ \A x : x \in ToSet(problems) <=> \E k \in 1..m : x \in ToSet(rows[k])
  <2> HIDE DEF rows, m
  <2> QED BY <1>1, <1>3, Flattened
<1>5. /\ issues \in Seq(SoundIssue)
      /\ \A x : x \in ToSet(issues) =>
           \E p \in SoundProblem : x = IssueOf(GateOf(s.phase), p, known)
      /\ \A p \in ToSet(problems) :
           \E x \in ToSet(issues) : x.sig = IssueOf(GateOf(s.phase), p, known).sig
  <2> DEFINE length == Len(problems)
  <2>1. /\ length \in Nat /\ DOMAIN problems = 1..length
        /\ problems \in [1..length -> SoundProblem]
    <3> HIDE DEF problems
    <3> QED BY <1>4
  <2>2. \A k \in 1..length : all[k] = IssueOf(GateOf(s.phase), problems[k], known)
    <3> HIDE DEF problems
    <3> QED BY <2>1
  <2>3. all \in [1..length -> SoundIssue]
    <3> HIDE DEF problems
    <3> QED BY <2>1, IssueIsSound
  <2> HIDE DEF all, length
  <2>4. /\ issues \in Seq(SoundIssue)
        /\ \A x : x \in ToSet(issues) =>
             \E p \in SoundProblem : x = IssueOf(GateOf(s.phase), p, known)
        /\ \A k \in 1..length : \E x \in ToSet(issues) :
             x.sig = IssueOf(GateOf(s.phase), problems[k], known).sig
    <3> HIDE DEF problems
    <3> DEFINE gate == GateOf(s.phase)
    <3>1. /\ gate \in Gates
          /\ \A k \in 1..length : all[k] = IssueOf(gate, problems[k], known)
      BY <2>2
    <3> HIDE DEF gate
    <3>2. MergeIssues(all) \in Seq(SoundIssue)
      BY <2>1, <2>3, Merged
    <3>3. \A x : x \in ToSet(MergeIssues(all)) =>
            \E p \in SoundProblem : x = IssueOf(gate, p, known)
      <4>1. \A x : x \in ToSet(MergeIssues(all)) => \E k \in 1..length : x = all[k]
        BY <2>1, <2>3, Merged
      <4>2. \A k \in 1..length : problems[k] \in SoundProblem
        BY <2>1
      <4> QED BY <3>1, <4>1, <4>2
    <3>4. \A k \in 1..length : \E x \in ToSet(MergeIssues(all)) :
            x.sig = IssueOf(gate, problems[k], known).sig
      <4>1. \A k \in 1..length : \E x \in ToSet(MergeIssues(all)) : x.sig = all[k].sig
        BY <2>1, <2>3, Merged
      <4> QED BY <3>1, <4>1
    <3> QED BY <1>2, <3>2, <3>3, <3>4 DEF gate
  <2>5. \A p \in ToSet(problems) : \E k \in 1..length : p = problems[k]
    <3> HIDE DEF problems
    <3> QED BY <2>1 DEF ToSet
  <2> HIDE DEF problems
  <2> QED BY <2>4, <2>5
<1>6. \A p \in ToSet(problems) : p \in SoundProblem
  <2> HIDE DEF problems
  <2> QED BY <1>4 DEF ToSet
<1>7. ASSUME NEW j \in DOMAIN issues
      PROVE  IsOfProblem(issues[j], GateOf(s.phase), known)
  <2> HIDE DEF all, problems
  <2>1. issues[j] \in ToSet(issues)
    BY DEF ToSet
  <2> QED BY <1>5, <2>1 DEF IsOfProblem
<1>8. ASSUME NEW k \in DOMAIN agents,
             ~RowPassed(agents[k], s.phase, results[agents[k]], n),
             NEW p \in ToSet(BuildProblems(s, agents[k], results[agents[k]], n))
      PROVE  p \in SoundProblem /\ HasIssue(p, issues, GateOf(s.phase), known)
  <2>1. rows[k] = BuildProblems(s, agents[k], results[agents[k]], n)
    BY <1>8
  <2> HIDE DEF rows
  <2>2. p \in ToSet(problems)
    <3> HIDE DEF problems
    <3> QED BY <1>1, <1>4, <1>8, <2>1
  <2> HIDE DEF problems, all
  <2>3. PICK x \in ToSet(issues) : x.sig = IssueOf(GateOf(s.phase), p, known).sig
    BY <1>5, <2>2
  <2>4. \E j \in DOMAIN issues : issues[j] = x
    BY <2>3 DEF ToSet
  <2> QED BY <1>6, <2>2, <2>3, <2>4 DEF HasIssue
<1> QED
  <2> HIDE DEF all, problems, rows, m
  <2> QED BY <1>5, <1>7, <1>8

\* Issues of one signature are about one subject and, unless that is a topic,
\* of one kind and owner.
LEMMA SameSignature ==
  ASSUME NEW i \in SoundIssue, NEW j \in SoundIssue, i.sig = j.sig
  PROVE  /\ i.subject = j.subject
         /\ i.subject \notin Topic =>
              i.kind = j.kind /\ i.system = j.system /\ i.owner = j.owner
<1>1. /\ i.sig = IF i.subject \in Topic THEN <<i.sig[1], i.subject>>
                ELSE <<i.sig[1], i.kind, i.owner, i.sig[4], i.subject>>
      /\ i.system \in BOOLEAN /\ (i.system <=> i.kind \in SystemKinds)
  BY DEF SoundIssue
<1>2. /\ j.sig = IF j.subject \in Topic THEN <<j.sig[1], j.subject>>
                ELSE <<j.sig[1], j.kind, j.owner, j.sig[4], j.subject>>
      /\ j.system \in BOOLEAN /\ (j.system <=> j.kind \in SystemKinds)
  BY DEF SoundIssue
<1>3. \A a, b, c, d, e, f, g : <<a, b>> # <<c, d, e, f, g>>
  OBVIOUS
<1>4. CASE i.subject \in Topic
  <2>1. j.subject \in Topic
    BY <1>1, <1>2, <1>3, <1>4
  <2> QED BY <1>1, <1>2, <1>4, <2>1
<1>5. CASE i.subject \notin Topic
  <2>1. j.subject \notin Topic
    BY <1>1, <1>2, <1>3, <1>5
  <2>2. <<i.sig[1], i.kind, i.owner, i.sig[4], i.subject>>
          = <<j.sig[1], j.kind, j.owner, j.sig[4], j.subject>>
    BY <1>1, <1>2, <1>5, <2>1
  <2>3. i.kind = j.kind /\ i.owner = j.owner /\ i.subject = j.subject
    BY <2>2
  <2> QED BY <1>1, <1>2, <2>3
<1> QED BY <1>4, <1>5

\* What the decision makes of what was found.
LEMMA DecisionOutcome ==
  ASSUME NEW s \in State, NEW round \in Nat, NEW approved \in BOOLEAN,
         NEW found \in SUBSET Issue, NEW owner, NEW next,
         next = DecideNextState(s, round, approved, found, owner)
  PROVE  /\ ~approved /\ (\E i \in found : i.type = "engine") => next.status = "BLOCKED_BY_SYSTEM"
         /\ ~approved /\ (\E i \in found : i.human) => next.status \in BlockedStatus
         /\ next.status = "NEEDS_USER" \/ next.gate = "CHANGES_REQUESTED" =>
              ~ \E i \in found : i.type = "engine"
<1> DEFINE status == FailedStatus(s, found, s.failures + 1)
<1>1. /\ (\E i \in found : i.type = "engine") => status = "BLOCKED_BY_SYSTEM"
      /\ (\E i \in found : i.human) => status \in BlockedStatus
  BY DEF FailedStatus, Human, BlockedStatus
<1>2. /\ AfterRecheckRequest(s, round).status = "NEEDS_FIX"
      /\ AfterRecheckRequest(s, round).gate = "RECHECK_REQUIRED"
      /\ AfterApproval(s, round).status \in {"DONE", "READY"}
      /\ AfterApproval(s, round).gate \in {"APPROVED", "DRAFT"}
  BY DEF AfterRecheckRequest, AfterApproval, WorkflowState
<1>3. /\ AfterRework(s, round, found, owner).status = "NEEDS_FIX"
      /\ AfterBlock(s, round, status, found).status = status
      /\ AfterBlock(s, round, status, found).gate = "BLOCKED"
  BY DEF AfterRework, AfterBlock, WorkflowState
<1>4. CASE approved
  <2>1. next = AfterRecheckRequest(s, round) \/ next = AfterApproval(s, round)
    BY <1>4 DEF DecideNextState
  <2> QED BY <1>2, <1>4, <2>1
<1>5. CASE ~approved
  <2>1. next = IF status = "NEEDS_FIX" THEN AfterRework(s, round, found, owner)
               ELSE AfterBlock(s, round, status, found)
    BY <1>5 DEF DecideNextState
  <2> HIDE DEF status
  <2> QED BY <1>1, <1>3, <1>5, <2>1 DEF BlockedStatus
<1> QED BY <1>4, <1>5

\* The owners of issues are agents where none of the issues is the engine's.
LEMMA OwnersOfIssues ==
  ASSUME NEW issues \in Seq(SoundIssue)
  PROVE  /\ OwnerAgents(issues) \in Seq(Worker \union {"engine"})
         /\ (\A k \in DOMAIN issues : ~issues[k].system) => OwnerAgents(issues) \in Seq(Worker)
<1> DEFINE m == Len(issues)
           owner(k) == issues[k].owner
           First(k) == owner(k) # "brain" /\ \A j \in 1..(k - 1) : owner(j) # owner(k)
           seqs == [k \in DOMAIN issues |-> When(First(k), owner(k))]
<1>1. m \in Nat /\ DOMAIN issues = 1..m /\ \A k \in 1..m : issues[k] \in SoundIssue
  <2> HIDE DEF SoundIssue
  <2> QED OBVIOUS
<1>2. OwnerAgents(issues) = FlattenSeq(seqs)
  BY DEF OwnerAgents
<1>3. ASSUME NEW X, \A k \in 1..m : owner(k) \in X \union {"brain"}
      PROVE  OwnerAgents(issues) \in Seq(X)
  <2>1. seqs \in [1..m -> Seq(X)]
    <3>1. ASSUME NEW k \in 1..m PROVE When(First(k), owner(k)) \in Seq(X)
      <4>1. First(k) \in BOOLEAN /\ (First(k) => owner(k) \in X)
        BY <1>3
      <4> HIDE DEF First, owner
      <4> QED BY <4>1, WhenIsSeq
    <3> HIDE DEF First, owner
    <3> QED BY <1>1, <3>1
  <2> HIDE DEF seqs, m
  <2> QED BY <1>1, <1>2, <2>1, Flattened
<1>4. \A k \in 1..m : /\ owner(k) \in Worker \union {"engine"} \union {"brain"}
                      /\ ~issues[k].system => owner(k) \in Worker \union {"brain"}
  BY <1>1 DEF SoundIssue, Worker
<1>5. OwnerAgents(issues) \in Seq(Worker \union {"engine"})
  <2> HIDE DEF owner, m
  <2> QED BY <1>3, <1>4
<1>6. ASSUME \A k \in DOMAIN issues : ~issues[k].system
      PROVE  OwnerAgents(issues) \in Seq(Worker)
  <2>1. \A k \in 1..m : owner(k) \in Worker \union {"brain"}
    BY <1>1, <1>4, <1>6
  <2> HIDE DEF owner, m
  <2> QED BY <1>3, <2>1
<1> QED BY <1>5, <1>6

\* The agents sent where no issue names one.
LEMMA RepairAgentsAreSome ==
  ASSUME NEW p \in LoopPhase
  PROVE  /\ RepairAgents(p) \in Seq(Agent) /\ RepairAgents(p) # <<>>
         /\ p \notin TalkPhases => RepairAgents(p) \in Seq(Worker)
<1>1. /\ <<"product">> \in Seq(Worker) /\ <<"ui">> \in Seq(Worker)
      /\ <<"frontend_architect", "backend_architect", "test">> \in Seq(Worker)
  BY DEF Agent, Worker
<1>2. /\ <<"frontend", "backend", "test", "repair">> \in Seq(Worker)
      /\ <<"product", "frontend", "backend", "test">> \in Seq(Worker)
      /\ <<"frontend", "backend", "test", "ui", "frontend_architect", "backend_architect">>
           \in Seq(Worker)
  BY DEF Agent, Worker
<1>3. /\ p \in PrdPhases \union {"ARCHITECTURE_IMPACT_REVIEW", "UI_DESIGN",
           "DEVELOPMENT_DESIGN", "DESIGN_REVIEW", "IMPLEMENTATION", "TESTING",
           "PRODUCT_ACCEPTANCE"} \union TalkPhases
      /\ PrdPhases = {"INTAKE", "PRD_REVIEW"}
  BY DEF LoopPhase, TalkPhases, PrdPhases
<1>4. p \notin TalkPhases => RepairAgents(p) \in Seq(Worker)
  BY <1>1, <1>2, <1>3 DEF RepairAgents
<1>5. p \in TalkPhases => RepairAgents(p) = <<"brain">>
  BY <1>3 DEF RepairAgents, TalkPhases
<1>6. <<"brain">> \in Seq(Agent) /\ \A x \in Seq(Worker) : x \in Seq(Agent)
  BY DEF Agent, Worker
<1>7. RepairAgents(p) # <<>>
  BY DEF RepairAgents
<1> QED BY <1>4, <1>5, <1>6, <1>7

\* The signature a question is known again by, in its form or by its topic.
Canonical(asked) ==
  IF asked[2] = "topic" THEN <<asked[1], asked[3]>>
  ELSE <<asked[1], asked[2], "brain", NoTarget, asked[3]>>

\* A question for the user that is known again has it.
LEMMA KnownAgainIsCanonical ==
  ASSUME NEW i \in SoundIssue, i.human, KnownAgain(i)
  PROVE  /\ i.sig = Canonical(Asked(i))
         /\ Asked(i)[1] = i.sig[1] /\ Asked(i)[3] = i.subject
<1>1. /\ i.sig = IF i.subject \in Topic THEN <<i.sig[1], i.subject>>
                ELSE <<i.sig[1], i.kind, i.owner, i.sig[4], i.subject>>
      /\ i.kind \in ItemKinds => i.owner = "brain"
  BY DEF SoundIssue
<1>2. /\ i.subject \notin Topic => Len(i.sig) # 2
      /\ i.subject \in Topic => Len(i.sig) = 2
  <2>1. \A c, d, e, f, g : Len(<<c, d, e, f, g>>) = 5 /\ Len(<<c, d>>) = 2
    OBVIOUS
  <2> QED BY <1>1, <2>1
<1>3. i.kind \in ItemKinds /\ i.kind # "topic" /\ (Len(i.sig) = 2 \/ i.sig[4] = NoTarget)
  BY DEF KnownAgain, ItemKinds
<1>4. Asked(i) = IF i.subject \in Topic THEN <<i.sig[1], "topic", i.subject>>
                 ELSE <<i.sig[1], i.kind, i.subject>>
  BY <1>2 DEF Asked
<1>5. CASE i.subject \in Topic
  <2>1. Canonical(Asked(i)) = <<i.sig[1], i.subject>>
    BY <1>4, <1>5 DEF Canonical
  <2> QED BY <1>1, <1>4, <1>5, <2>1
<1>6. CASE i.subject \notin Topic
  <2>1. Canonical(Asked(i)) = <<i.sig[1], i.kind, "brain", NoTarget, i.subject>>
    BY <1>3, <1>4, <1>6 DEF Canonical
  <2> QED BY <1>1, <1>2, <1>3, <1>4, <1>6, <2>1
<1> QED BY <1>5, <1>6

\* What the issues of a round are for the rules of the next state.
LEMMA AbstractIsIssues ==
  ASSUME NEW issues \in Seq(SoundIssue)
  PROVE  /\ Abstract(issues) \in SUBSET Issue
         /\ \A k \in DOMAIN issues :
              /\ RuntimeIssue(issues[k]) \in Abstract(issues)
              /\ RuntimeIssue(issues[k]).human = issues[k].human
              /\ issues[k].system => RuntimeIssue(issues[k]).type = "engine"
<1>1. \A k \in DOMAIN issues : issues[k] \in SoundIssue
  <2> HIDE DEF SoundIssue
  <2> QED OBVIOUS
<1>2. ASSUME NEW i \in SoundIssue
      PROVE  /\ RuntimeIssue(i) \in Issue /\ RuntimeIssue(i).human = i.human
             /\ i.system => RuntimeIssue(i).type = "engine"
  <2>1. i.human \in BOOLEAN
    BY DEF SoundIssue
  <2> QED BY <2>1 DEF RuntimeIssue, Issue, IssueType
<1> QED BY <1>1, <1>2 DEF Abstract

\* What a round leaves behind.
IssueInv ==
  /\ loop \in State
  /\ open \in Seq(SoundIssue)
  /\ nextAgent \in Seq(Agent \union {"engine"})
  /\ loop.phase \notin TalkPhases => nextAgent \in Seq(Worker \union {"engine"})
  /\ SystemFailuresBlock
  /\ loop.status = "NEEDS_USER" => \A k \in DOMAIN open : ~open[k].system
  /\ loop.status \in {"READY", "NEEDS_FIX"} /\ loop.gate = "CHANGES_REQUESTED" =>
       \E k \in 1..Len(nextAgent) : nextAgent[k] \in Agent
  /\ \A asked \in answered :
       [gate |-> asked[1], sig |-> Canonical(asked), subject |-> asked[3]] \in confirmed

\* A round the planner sends agents into.
LEMMA PlannedRound ==
  ASSUME IssueInv, NextRound
  PROVE  /\ loop.phase \in LoopPhase \ TalkPhases
         /\ \E agents \in Seq(Worker) : \E results :
              /\ \A k \in DOMAIN agents : results[agents[k]] \in Result
              /\ Round(agents, results)
<1> DEFINE agents == PlanTasks(loop, nextAgent)
<1>0. loop.phase \in LoopPhase \ TalkPhases
  BY DEF IssueInv, State, NextRound, TalkPhases
<1>1. agents \in Seq(Worker)
  BY <1>0, PlannedAgents DEF IssueInv
<1>2. PICK faulty \in SUBSET ToSet(agents) : \E bad \in [faulty -> Results \ {Good}] :
        Round(agents, [a \in ToSet(agents) |-> IF a \in faulty THEN bad[a] ELSE Good])
  BY DEF NextRound
<1>3. PICK bad \in [faulty -> Results \ {Good}] :
        Round(agents, [a \in ToSet(agents) |-> IF a \in faulty THEN bad[a] ELSE Good])
  BY <1>2
<1> DEFINE results == [a \in ToSet(agents) |-> IF a \in faulty THEN bad[a] ELSE Good]
<1> HIDE DEF agents
<1>4. ASSUME NEW k \in DOMAIN agents PROVE results[agents[k]] \in Result
  <2>1. agents[k] \in ToSet(agents)
    BY DEF ToSet
  <2> QED BY <1>2, <1>3, <2>1, ResultsAssumption
<1>5. Round(agents, results)
  BY <1>3
<1> HIDE DEF results
<1> QED BY <1>0, <1>1, <1>4, <1>5

\* What a question of the round becomes: unless it has a topic on which an agent
\* has something to fix, there is an issue left for the user.
LEMMA QuestionIsKept ==
  ASSUME NEW gate \in Gates, NEW a \in Worker, NEW item \in Item, NEW n \in Nat, NEW known,
         NEW i \in SoundIssue, NEW p \in SoundProblem, i = IssueOf(gate, p, known),
         Question(a, item, n) \in SoundProblem,
         IssueOf(gate, Question(a, item, n), known).human,
         i.sig = IssueOf(gate, Question(a, item, n), known).sig
  PROVE  i.subject = item.subject /\ (i.human \/ item.subject \in Topic)
<1> DEFINE q == Question(a, item, n)
           qi == IssueOf(gate, q, known)
<1>1. q.kind \in ItemKinds /\ q.subject = item.subject
  BY DEF Question, Problem, KindOf, ItemKinds
<1>2. q \in SoundProblem /\ qi.human /\ i.sig = qi.sig
  OBVIOUS
<1> HIDE DEF q
<1>3. /\ qi \in SoundIssue /\ qi.owner = "brain" /\ qi.subject = item.subject
      /\ [gate |-> gate, sig |-> qi.sig, subject |-> qi.subject] \notin known
  <2>1. qi \in SoundIssue
    BY <1>2, IssueIsSound
  <2>2. /\ qi.kind = q.kind /\ qi.subject = q.subject
        /\ qi.human = (q.human
                       /\ [gate |-> gate, sig |-> qi.sig, subject |-> qi.subject] \notin known)
    BY PartsOfIssue
  <2> HIDE DEF qi
  <2>3. qi.owner = "brain"
    BY <1>1, <1>2, <2>1, <2>2 DEF SoundIssue
  <2> QED BY <1>1, <1>2, <2>1, <2>2, <2>3
<1> HIDE DEF qi
<1>4. i.subject = qi.subject /\ (i.subject \notin Topic => i.owner = qi.owner)
  BY <1>2, <1>3, SameSignature
<1>5. /\ i.kind = p.kind /\ i.subject = p.subject
      /\ i.human = (p.human
                    /\ [gate |-> gate, sig |-> i.sig, subject |-> i.subject] \notin known)
  BY PartsOfIssue
<1>6. i.owner = "brain" => p.human
  <2>1. i.owner = IF ~p.human /\ p.owner = "brain" THEN p.agent ELSE p.owner
    BY DEF IssueOf
  <2>2. p.agent # "brain"
    BY DEF SoundProblem, Worker
  <2> QED BY <2>1, <2>2
<1> QED BY <1>2, <1>3, <1>4, <1>5, <1>6

\* One round.
LEMMA RoundStep ==
  ASSUME IssueInv, loop.phase \in LoopPhase \ TalkPhases,
         NEW agents \in Seq(Worker), NEW results,
         \A k \in DOMAIN agents : results[agents[k]] \in Result, Round(agents, results)
  PROVE  /\ IssueInv'
         /\ \A s \in last'.questions :
              \/ loop'.status \in BlockedStatus
              \/ s \in Topic /\ \E j \in DOMAIN open' : open'[j].subject = s /\ ~open'[j].human
         /\ \A j \in HumanIssues(open') :
              KnownAgain(open'[j]) => Asked(open'[j]) \notin answered
<1> DEFINE n == loop.round + 1
           gate == GateOf(loop.phase)
           issues == BuildIssuesFromGateSummary(loop, agents, results, n, confirmed)
           after == AfterRound(agents, results, n, issues)
           row(k) == results[agents[k]]
           approved == \A k \in DOMAIN agents : RowPassed(agents[k], loop.phase, row(k), n)
           inconsistent ==
             \E k \in DOMAIN agents : VerifierInconsistent(agents[k], loop.phase, row(k), n)
           found == Abstract(issues)
                    \union (IF inconsistent THEN {[type |-> "engine", human |-> FALSE]} ELSE {})
           owners == IF OwnerAgents(issues) # <<>> THEN OwnerAgents(issues)
                     ELSE RepairAgents(loop.phase)
           next == DecideNextState(loop, n, approved, found, OwnerClass(owners))
<1>1. /\ loop' = after.state /\ open' = issues
      /\ nextAgent' = IF after.state.gate = "CHANGES_REQUESTED" THEN after.owners ELSE <<>>
      /\ last' = [system    |-> \E k \in DOMAIN agents : SystemTrouble(results[agents[k]]),
                  questions |-> UNION {Unanswered(a, results[a], n) : a \in ToSet(agents)}]
      /\ confirmed' = confirmed /\ answered' = answered
  BY DEF Round
<1>2. after = [state |-> [next EXCEPT !.issues = Abstract(issues)], owners |-> owners]
  BY DEF AfterRound
<1>3. loop \in State /\ loop.phase \in LoopPhase /\ n \in Nat /\ gate \in Gates
  BY DEF IssueInv, State, Gates
<1>4. /\ issues \in Seq(SoundIssue)
      /\ \A j \in DOMAIN issues : IsOfProblem(issues[j], gate, confirmed)
      /\ \A k \in DOMAIN agents : ~RowPassed(agents[k], loop.phase, results[agents[k]], n) =>
           \A p \in ToSet(BuildProblems(loop, agents[k], results[agents[k]], n)) :
             p \in SoundProblem /\ HasIssue(p, issues, gate, confirmed)
  <2> DEFINE made == issues
  <2>1. made = BuildIssuesFromGateSummary(loop, agents, results, n, confirmed)
    OBVIOUS
  <2> HIDE DEF made, n
  <2>2. /\ made \in Seq(SoundIssue)
        /\ \A j \in DOMAIN made : IsOfProblem(made[j], GateOf(loop.phase), confirmed)
    BY <1>3, <2>1, RoundIssues
  <2>3. ASSUME NEW k \in DOMAIN agents, ~RowPassed(agents[k], loop.phase, results[agents[k]], n),
               NEW p \in ToSet(BuildProblems(loop, agents[k], results[agents[k]], n))
        PROVE  p \in SoundProblem /\ HasIssue(p, made, GateOf(loop.phase), confirmed)
    BY <1>3, <2>1, <2>3, RoundIssues
  <2> QED BY <2>2, <2>3 DEF made
<1> HIDE DEF issues
<1>5. \A j \in DOMAIN issues : issues[j] \in SoundIssue
  <2> HIDE DEF SoundIssue
  <2> QED BY <1>4
<1>6. /\ Abstract(issues) \in SUBSET Issue
      /\ \A k \in DOMAIN issues :
           /\ RuntimeIssue(issues[k]) \in Abstract(issues)
           /\ RuntimeIssue(issues[k]).human = issues[k].human
           /\ issues[k].system => RuntimeIssue(issues[k]).type = "engine"
  BY <1>4, AbstractIsIssues
<1>7. /\ found \in SUBSET Issue /\ Abstract(issues) \subseteq found
      /\ approved \in BOOLEAN
  <2>1. [type |-> "engine", human |-> FALSE] \in Issue
    BY DEF Issue, IssueType
  <2> QED BY <1>6, <2>1
<1> HIDE DEF found, approved
<1>8. next \in State
  BY <1>3, <1>7, DecisionType
<1>9. /\ ~approved /\ (\E i \in found : i.type = "engine") => next.status = "BLOCKED_BY_SYSTEM"
      /\ ~approved /\ (\E i \in found : i.human) => next.status \in BlockedStatus
      /\ next.status = "NEEDS_USER" \/ next.gate = "CHANGES_REQUESTED" =>
           ~ \E i \in found : i.type = "engine"
  BY <1>3, <1>7, DecisionOutcome
<1> HIDE DEF next
<1>10. /\ loop' \in State /\ loop'.status = next.status /\ loop'.gate = next.gate
       /\ nextAgent' = IF next.gate = "CHANGES_REQUESTED" THEN owners ELSE <<>>
  <2>1. loop' = [next EXCEPT !.issues = Abstract(issues)]
    BY <1>1, <1>2
  <2>2. loop' \in State /\ loop'.status = next.status /\ loop'.gate = next.gate
    BY <1>6, <1>8, <2>1 DEF State
  <2> QED BY <1>1, <1>2, <2>2
<1>11. next.status = "NEEDS_USER" \/ next.gate = "CHANGES_REQUESTED" =>
         \A j \in DOMAIN issues : ~issues[j].system
  BY <1>6, <1>7, <1>9
<1>12. /\ owners \in Seq(Worker \union {"engine"})
       /\ next.gate = "CHANGES_REQUESTED" => owners \in Seq(Worker) /\ owners # <<>>
  <2>1. /\ RepairAgents(loop.phase) \in Seq(Worker) /\ RepairAgents(loop.phase) # <<>>
        /\ RepairAgents(loop.phase) \in Seq(Worker \union {"engine"})
    BY RepairAgentsAreSome
  <2> QED BY <1>4, <1>11, <2>1, OwnersOfIssues
<1> HIDE DEF owners
<1>13. nextAgent' \in Seq(Worker \union {"engine"}) /\ nextAgent' \in Seq(Agent \union {"engine"})
  <2>1. nextAgent' \in Seq(Worker \union {"engine"})
    BY <1>10, <1>12, FewElements
  <2> QED BY <2>1 DEF Worker
<1>14. loop'.gate = "CHANGES_REQUESTED" => \E k \in 1..Len(nextAgent') : nextAgent'[k] \in Agent
  <2> SUFFICES ASSUME loop'.gate = "CHANGES_REQUESTED"
               PROVE  \E k \in 1..Len(nextAgent') : nextAgent'[k] \in Agent
    OBVIOUS
  <2>1. nextAgent' \in Seq(Agent) /\ nextAgent' # <<>>
    BY <1>10, <1>12 DEF Worker
  <2>2. 1 \in 1..Len(nextAgent') /\ nextAgent'[1] \in Agent
    BY <2>1
  <2> QED BY <2>2
<1>15. SystemFailuresBlock'
  <2>1. ASSUME NEW k \in DOMAIN agents, SystemTrouble(results[agents[k]])
        PROVE  loop'.status = "BLOCKED_BY_SYSTEM"
    <3>1. agents[k] \in Worker /\ results[agents[k]] \in Result
      OBVIOUS
    <3>2. ~RowPassed(agents[k], loop.phase, results[agents[k]], n)
      BY <1>3, <2>1, <3>1, RowFails
    <3>3. ~approved
      BY <3>2 DEF approved
    <3>4. PICK p \in ToSet(BuildProblems(loop, agents[k], results[agents[k]], n)) : p.system
      BY <1>3, <2>1, <3>1, BuildProblemsAreSound
    <3>5. p \in SoundProblem /\ p.subject = "none"
      <4>1. p \in SoundProblem
        BY <1>4, <3>2
      <4> QED BY <3>4, <4>1 DEF SoundProblem
    <3>6. PICK j \in DOMAIN issues : issues[j].sig = IssueOf(gate, p, confirmed).sig
      BY <1>4, <3>2 DEF HasIssue
    <3>7. /\ IssueOf(gate, p, confirmed) \in SoundIssue
          /\ IssueOf(gate, p, confirmed).system = p.system
          /\ IssueOf(gate, p, confirmed).subject \notin Topic
      <4>1. IssueOf(gate, p, confirmed) \in SoundIssue
        BY <1>3, <3>5, IssueIsSound
      <4>2. /\ IssueOf(gate, p, confirmed).system = p.system
            /\ IssueOf(gate, p, confirmed).subject = p.subject
        BY DEF IssueOf
      <4> QED BY <3>5, <4>1, <4>2, ResultsAssumption
    <3>8. issues[j].system
      BY <1>5, <3>4, <3>6, <3>7, SameSignature
    <3>9. RuntimeIssue(issues[j]) \in found /\ RuntimeIssue(issues[j]).type = "engine"
      BY <1>6, <1>7, <3>8
    <3> QED BY <1>9, <1>10, <3>3, <3>9
  <2> QED BY <1>1, <2>1 DEF SystemFailuresBlock
<1>16. ASSUME NEW j \in HumanIssues(issues), KnownAgain(issues[j])
       PROVE  Asked(issues[j]) \notin answered
  <2>1. j \in DOMAIN issues /\ issues[j].human
    BY DEF HumanIssues
  <2>2. PICK p \in SoundProblem : issues[j] = IssueOf(gate, p, confirmed)
    BY <1>4, <2>1 DEF IsOfProblem
  <2>3. /\ issues[j].sig[1] = gate /\ issues[j].subject = p.subject
        /\ [gate |-> gate, sig |-> issues[j].sig, subject |-> p.subject] \notin confirmed
    <3> DEFINE i == issues[j]
    <3>1. i = IssueOf(gate, p, confirmed) /\ i.human
      BY <2>1, <2>2
    <3> HIDE DEF i, gate
    <3>2. /\ i.subject = p.subject /\ i.sig[1] = gate
          /\ i.human = (p.human
                        /\ [gate |-> gate, sig |-> i.sig, subject |-> i.subject] \notin confirmed)
      BY <3>1 DEF IssueOf, Signature
    <3> QED BY <3>1, <3>2 DEF i
  <2>4. /\ issues[j].sig = Canonical(Asked(issues[j]))
        /\ Asked(issues[j])[1] = gate /\ Asked(issues[j])[3] = p.subject
    BY <1>5, <1>16, <2>1, <2>3, KnownAgainIsCanonical
  <2>5. ASSUME NEW asked \in answered, asked = Asked(issues[j]) PROVE FALSE
    <3> HIDE DEF gate
    <3>1. [gate |-> asked[1], sig |-> Canonical(asked), subject |-> asked[3]] \in confirmed
      BY DEF IssueInv
    <3> QED BY <2>3, <2>4, <2>5, <3>1
  <2> QED BY <2>5
<1>17. ASSUME NEW s \in last'.questions
       PROVE  \/ loop'.status \in BlockedStatus
              \/ s \in Topic /\ \E j \in DOMAIN issues : issues[j].subject = s /\ ~issues[j].human
  <2>1. PICK k \in DOMAIN agents : s \in Unanswered(agents[k], results[agents[k]], n)
    BY <1>1 DEF ToSet
  <2> DEFINE a == agents[k]
             r == results[a]
  <2>2. a \in Worker /\ r \in Result /\ r.report \in GateReport /\ r.report.items \in Seq(Item)
    BY DEF Result, GateReport
  <2>3. PICK l \in DOMAIN r.report.items :
          /\ r.report.file = "object" /\ s = r.report.items[l].subject
          /\ IsOpen(r.report.items[l]) /\ Asks(r.report.items[l])
          /\ IssueOf(gate, Question(a, r.report.items[l], n), confirmed).human
    BY <2>1 DEF Unanswered, ToSet
  <2> DEFINE item == r.report.items[l]
             q == Question(a, item, n)
  <2>4. item \in Item
    BY <2>2
  <2>5. ~RowPassed(a, loop.phase, r, n)
    BY <1>3, <2>2, <2>3, RowFails
  <2>6. ~approved
    BY <2>5 DEF approved
  <2>7. q \in ToSet(BuildProblems(loop, a, r, n))
    <3>1. q \in ToSet(GateResultIssues(a, r.report, n))
      BY <1>3, <2>2, <2>3, GateResultIssuesAreSound
    <3> QED BY <1>3, <2>2, <3>1, BuildProblemsAreSound
  <2>8. q \in SoundProblem /\ HasIssue(q, issues, gate, confirmed)
    BY <1>4, <2>5, <2>7
  <2>9. PICK j \in DOMAIN issues : issues[j].sig = IssueOf(gate, q, confirmed).sig
    BY <2>8 DEF HasIssue
  <2>10. PICK p \in SoundProblem : issues[j] = IssueOf(gate, p, confirmed)
    BY <1>4 DEF IsOfProblem
  <2>11. issues[j].subject = item.subject /\ (issues[j].human \/ item.subject \in Topic)
    <3> HIDE DEF a, r, item, gate, n
    <3> QED BY <1>3, <1>5, <2>2, <2>3, <2>4, <2>8, <2>9, <2>10, QuestionIsKept DEF item
  <2>12. CASE issues[j].human
    <3>1. RuntimeIssue(issues[j]) \in found /\ RuntimeIssue(issues[j]).human
      BY <1>6, <1>7, <2>12
    <3> QED BY <1>9, <1>10, <2>6, <3>1
  <2>13. CASE ~issues[j].human
    BY <2>3, <2>11, <2>13
  <2> QED BY <2>12, <2>13
<1>18. IssueInv'
  BY <1>1, <1>4, <1>10, <1>11, <1>13, <1>14, <1>15 DEF IssueInv
<1> QED BY <1>1, <1>16, <1>17, <1>18

\* Where the answers send the loop there is an agent.
LEMMA RepairOwnersAreSome ==
  ASSUME IssueInv, loop.status = "NEEDS_USER"
  PROVE  /\ RepairOwners \in Seq(Agent \union {"engine"})
         /\ loop.phase \notin TalkPhases => RepairOwners \in Seq(Worker \union {"engine"})
         /\ \E k \in 1..Len(RepairOwners) : RepairOwners[k] \in Agent
<1>1. <<"product">> \in Seq(Worker) /\ <<"product">> # <<>>
  BY DEF Agent, Worker
<1>2. OwnerAgents(open) \in Seq(Worker)
  BY OwnersOfIssues DEF IssueInv
<1>3. /\ RepairAgents(loop.phase) \in Seq(Agent) /\ RepairAgents(loop.phase) # <<>>
      /\ loop.phase \notin TalkPhases => RepairAgents(loop.phase) \in Seq(Worker)
  BY RepairAgentsAreSome DEF IssueInv, State
<1>0. \A x \in Seq(Worker) : x \in Seq(Agent) /\ x \in Seq(Worker \union {"engine"})
  BY DEF Worker
<1>4. /\ RepairOwners \in Seq(Agent) /\ RepairOwners # <<>>
      /\ loop.phase \notin TalkPhases => RepairOwners \in Seq(Worker \union {"engine"})
  BY <1>0, <1>1, <1>2, <1>3 DEF RepairOwners
<1> HIDE DEF RepairOwners
<1>5. 1 \in 1..Len(RepairOwners) /\ RepairOwners[1] \in Agent
  BY <1>4
<1>6. RepairOwners \in Seq(Agent \union {"engine"})
  BY <1>4
<1> QED BY <1>4, <1>5, <1>6

\* One answer.
LEMMA AnswerStep ==
  ASSUME IssueInv, NEW k \in DOMAIN open, DecideIssue(k)
  PROVE  IssueInv' /\ ~RoundEnds
<1> DEFINE made == confirmed \union {Decision(open[k])}
           lifted == WorkflowState(loop.phase, loop.round, 0, "CHANGES_REQUESTED", "NEEDS_FIX",
                       FALSE, loop.directEdit \/ loop.phase \in PrdPhases, loop.issues)
<1>1. /\ loop.status = "NEEDS_USER" /\ confirmed' = made /\ open' = open /\ last' = last
      /\ answered' = answered \union (IF KnownAgain(open[k]) THEN {Asked(open[k])} ELSE {})
      /\ \/ loop' = lifted /\ nextAgent' = RepairOwners
         \/ loop' = loop /\ nextAgent' = nextAgent
  BY DEF DecideIssue
<1>2. /\ loop.phase \in LoopPhase /\ loop.round \in Nat /\ loop.directEdit \in BOOLEAN
      /\ loop.issues \in SUBSET Issue
  BY DEF IssueInv, State
<1>3. lifted \in State
  <2>1. (loop.directEdit \/ loop.phase \in PrdPhases) \in BOOLEAN
    BY <1>2
  <2>2. "CHANGES_REQUESTED" \in GateStatus /\ "NEEDS_FIX" \in WorkflowStatus
    BY DEF GateStatus, WorkflowStatus
  <2> QED BY <1>2, <2>1, <2>2, WorkflowStateType
<1>4. /\ lifted.round = loop.round /\ lifted.status = "NEEDS_FIX"
      /\ lifted.phase = loop.phase
  BY DEF WorkflowState
<1> HIDE DEF lifted
<1>5. loop' \in State /\ loop'.round = loop.round /\ loop'.phase = loop.phase
  BY <1>1, <1>3, <1>4 DEF IssueInv
<1>6. /\ nextAgent' \in Seq(Agent \union {"engine"})
      /\ loop'.phase \notin TalkPhases => nextAgent' \in Seq(Worker \union {"engine"})
  BY <1>1, <1>5, RepairOwnersAreSome DEF IssueInv
<1>7. loop'.status \in {"READY", "NEEDS_FIX"} /\ loop'.gate = "CHANGES_REQUESTED" =>
        \E l \in 1..Len(nextAgent') : nextAgent'[l] \in Agent
  BY <1>1, RepairOwnersAreSome
<1>8. SystemFailuresBlock'
  BY <1>1 DEF IssueInv, SystemFailuresBlock
<1>9. loop'.status = "NEEDS_USER" => \A l \in DOMAIN open' : ~open'[l].system
  BY <1>1 DEF IssueInv
<1>10. ASSUME NEW asked \in answered'
       PROVE  [gate |-> asked[1], sig |-> Canonical(asked), subject |-> asked[3]] \in confirmed'
  <2>1. CASE asked \in answered
    BY <1>1, <2>1 DEF IssueInv
  <2>2. CASE KnownAgain(open[k]) /\ asked = Asked(open[k])
    <3>1. open[k] \in SoundIssue /\ open[k].human
      <4> HIDE DEF SoundIssue
      <4> QED BY DEF IssueInv, DecideIssue
    <3>2. /\ open[k].sig = Canonical(asked)
          /\ asked[1] = open[k].sig[1] /\ asked[3] = open[k].subject
      BY <2>2, <3>1, KnownAgainIsCanonical
    <3>3. Decision(open[k]) \in confirmed'
      BY <1>1
    <3> QED BY <3>2, <3>3 DEF Decision
  <2> QED BY <1>1, <1>10, <2>1, <2>2
<1>11. IssueInv'
  BY <1>1, <1>5, <1>6, <1>7, <1>8, <1>9, <1>10 DEF IssueInv
<1>12. ~RoundEnds
  BY <1>2, <1>5 DEF RoundEnds
<1> QED BY <1>11, <1>12

\* A loop that starts.
LEMMA IssueInitially == IssueInit => IssueInv
<1> SUFFICES ASSUME IssueInit PROVE IssueInv
  OBVIOUS
<1>1. PICK p \in StartPhases : loop = InPhase(p)
  BY DEF IssueInit
<1>2. /\ loop \in State /\ loop.gate = "DRAFT" /\ loop.status = "READY"
  <2>1. /\ p \in LoopPhase /\ {} \in SUBSET Issue
        /\ "DRAFT" \in GateStatus /\ "READY" \in WorkflowStatus
    BY ResultsAssumption DEF GateStatus, WorkflowStatus
  <2>2. InPhase(p) \in State
    BY <2>1, WorkflowStateType DEF InPhase
  <2>3. InPhase(p).gate = "DRAFT" /\ InPhase(p).status = "READY"
    BY DEF InPhase, WorkflowState
  <2> QED BY <1>1, <2>2, <2>3
<1>3. open = <<>> /\ nextAgent = <<>> /\ answered = {} /\ ~last.system
  BY DEF IssueInit
<1>4. /\ open \in Seq(SoundIssue) /\ nextAgent \in Seq(Agent \union {"engine"})
      /\ nextAgent \in Seq(Worker \union {"engine"})
  BY <1>3, FewElements
<1> QED BY <1>2, <1>3, <1>4 DEF IssueInv, SystemFailuresBlock

\* Every step keeps what a round leaves behind.
LEMMA IssueStep ==
  ASSUME IssueInv, [IssueNext]_issueVars
  PROVE  IssueInv'
<1>1. CASE NextRound
  BY <1>1, PlannedRound, RoundStep
<1>2. CASE \E k \in DOMAIN open : DecideIssue(k)
  BY <1>2, AnswerStep
<1>3. CASE UNCHANGED issueVars
  BY <1>3 DEF IssueInv, SystemFailuresBlock, issueVars
<1> QED BY <1>1, <1>2, <1>3 DEF IssueNext

\* The inductive invariant: a blocked loop that waits for the user has no issue of
\* the engine, a rework is given to some agent the planner knows, and what was
\* answered is among the confirmed decisions under the signature the question has
\* whenever it comes back.
THEOREM IssueInvariant == IssueSpec => []IssueInv
<1>1. IssueInit => IssueInv
  BY IssueInitially
<1>2. IssueInv /\ [IssueNext]_issueVars => IssueInv'
  BY IssueStep
<1> QED BY <1>1, <1>2, PTL DEF IssueSpec

\* The state written after a round and the owners in it are of their types.
THEOREM IssuesAreTyped == IssueSpec => []IssueTypeOK
<1>1. IssueInv => IssueTypeOK
  <2> SUFFICES ASSUME IssueInv PROVE IssueTypeOK
    OBVIOUS
  <2>1. ASSUME NEW k \in DOMAIN open
        PROVE  open[k].owner \in Agent \union {"engine"} /\ open[k].human \in BOOLEAN
    <3>1. open[k] \in SoundIssue
      <4> HIDE DEF SoundIssue
      <4> QED BY DEF IssueInv
    <3> QED BY <3>1 DEF SoundIssue
  <2>2. ToSet(nextAgent) \subseteq Agent \union {"engine"}
    BY DEF IssueInv, ToSet
  <2> QED BY <2>1, <2>2 DEF IssueInv, IssueTypeOK
<1> QED BY <1>1, IssueInvariant, PTL

\* An agent that did not run or could not be read blocks the loop, whatever the
\* other agents handed in: its issue stands in the merged list under its own
\* signature, for it has no topic.
THEOREM EngineTroubleBlocks == IssueSpec => []SystemFailuresBlock
<1>1. IssueInv => SystemFailuresBlock
  BY DEF IssueInv
<1> QED BY <1>1, IssueInvariant, PTL

\* As long as the loop is not stopped the planner finds an agent: a rework has only
\* owners it knows, since an issue of the engine, the one owner it does not, never
\* leads to one.
THEOREM AgentsAreSent == IssueSpec => []SomeoneWorks
<1>1. IssueInv => SomeoneWorks
  <2> SUFFICES ASSUME IssueInv, loop.status \in {"READY", "NEEDS_FIX"}
               PROVE  PlanTasks(loop, nextAgent) # <<>>
    BY DEF SomeoneWorks
  <2>1. CASE loop.gate = "CHANGES_REQUESTED"
    <3>1. PICK k \in 1..Len(nextAgent) : nextAgent[k] \in Agent
      BY <2>1 DEF IssueInv
    <3>2. nextAgent[k] \in ToSet(Known(nextAgent))
      BY <3>1, KnownAgents DEF IssueInv
    <3>3. Known(nextAgent) # <<>>
      BY <3>2, FewElements
    <3> QED BY <2>1, <3>3 DEF PlanTasks
  <2>2. CASE loop.gate # "CHANGES_REQUESTED"
    BY <2>2 DEF PlanTasks, RecheckAgents, PhaseAgents
  <2> QED BY <2>1, <2>2
<1> QED BY <1>1, IssueInvariant, PTL

\* A question nobody answered stops the loop, unless its topic is already an issue
\* the agents are to fix, into which it is merged.
THEOREM QuestionsStop == IssueSpec => QuestionsStopTheLoop
<1>1. IssueInv /\ [IssueNext]_issueVars =>
        [RoundEnds => \A s \in last'.questions :
           \/ loop'.status \in BlockedStatus
           \/ s \in Topic /\ \E k \in DOMAIN open' : open'[k].subject = s /\ ~open'[k].human]_issueVars
  <2> SUFFICES ASSUME IssueInv, IssueNext, RoundEnds, NEW s \in last'.questions
               PROVE  \/ loop'.status \in BlockedStatus
                      \/ /\ s \in Topic
                         /\ \E k \in DOMAIN open' : open'[k].subject = s /\ ~open'[k].human
    OBVIOUS
  <2>1. NextRound
    BY AnswerStep DEF IssueNext
  <2> QED BY <2>1, PlannedRound, RoundStep
<1> QED BY <1>1, IssueInvariant, PTL DEF IssueSpec, QuestionsStopTheLoop

\* What was answered is not put to the user again at its gate in the form it was
\* answered in, nor, when its topic is known by its words, in any form.
THEOREM AsksOnce == IssueSpec => AskedOnce
<1>1. IssueInv /\ [IssueNext]_issueVars =>
        [RoundEnds => \A k \in HumanIssues(open') :
           KnownAgain(open'[k]) => Asked(open'[k]) \notin answered]_issueVars
  <2> SUFFICES ASSUME IssueInv, IssueNext, RoundEnds, NEW k \in HumanIssues(open')
               PROVE  KnownAgain(open'[k]) => Asked(open'[k]) \notin answered
    OBVIOUS
  <2>1. NextRound
    BY AnswerStep DEF IssueNext
  <2> QED BY <2>1, PlannedRound, RoundStep
<1> QED BY <1>1, IssueInvariant, PTL DEF IssueSpec, AskedOnce

--------------------------------------------------------------------------------
(* What the recheck covers. It is decided by the issues of the last round   *)
(* alone (FlawsAreRechecked fails for flaws of rounds before that), and     *)
(* these are never passed over.                                             *)

FormAlone(issues) == \A i \in issues : i.type = "format" /\ ~i.human

\* A phase is not approved straight after a round that left more than form to
\* repair: a flaw, or a question the user has answered since.
LastRoundIsRechecked ==
  [][RoundEnds /\ loop'.gate = "DRAFT" => FormAlone(Abstract(open))]_issueVars

\* The state carries the issues of the last round, and there are none unless it
\* failed.
IssuesAreCarried ==
  /\ loop.issues = Abstract(open)
  /\ loop.status \in {"READY", "NEEDS_FIX"} /\ loop.gate # "CHANGES_REQUESTED" => open = <<>>

\* A round that passes leaves no issue.
LEMMA PassedRoundIsClean ==
  ASSUME NEW s, NEW agents \in Seq(Worker), NEW results, NEW n, NEW known,
         \A k \in DOMAIN agents : RowPassed(agents[k], s.phase, results[agents[k]], n)
  PROVE  BuildIssuesFromGateSummary(s, agents, results, n, known) = <<>>
<1> DEFINE m == Len(agents)
           row(a) == IF RowPassed(a, s.phase, results[a], n) THEN <<>>
                     ELSE BuildProblems(s, a, results[a], n)
           rows == [k \in DOMAIN agents |-> row(agents[k])]
           problems == FlattenSeq(rows)
           all == [k \in DOMAIN problems |-> IssueOf(GateOf(s.phase), problems[k], known)]
<1>1. m \in Nat /\ DOMAIN agents = 1..m
  OBVIOUS
<1>2. rows \in [1..m -> Seq({})]
  <2>1. ASSUME NEW k \in 1..m PROVE row(agents[k]) \in Seq({})
    <3>1. row(agents[k]) = <<>>
      BY <1>1
    <3>2. <<>> \in Seq({})
      OBVIOUS
    <3> HIDE DEF row
    <3> QED
      BY <3>1, <3>2
  <2> HIDE DEF row
  <2> QED
    BY <1>1, <2>1
<1>3. problems = <<>>
  <2>1. problems \in Seq({})
    <3> HIDE DEF rows, m
    <3> QED
      BY <1>1, <1>2, Flattened
  <2> HIDE DEF problems
  <2>2. Len(problems) \in Nat /\ \A k \in 1..Len(problems) : problems[k] \in {}
    BY <2>1
  <2> QED
    BY <2>1, <2>2
<1>4. MergeIssues(<<>>) = <<>>
  BY DEF MergeIssues, FlattenSeq
<1>5. all = <<>>
  <2> HIDE DEF problems
  <2> QED
    BY <1>3
<1>6. BuildIssuesFromGateSummary(s, agents, results, n, known) = MergeIssues(all)
  BY DEF BuildIssuesFromGateSummary
<1> QED
  BY <1>4, <1>5, <1>6

\* What a decision leads to, and from what.
LEMMA DecisionLeads ==
  ASSUME NEW s \in State, NEW round \in Nat, NEW approved \in BOOLEAN,
         NEW found \in SUBSET Issue, NEW owner, NEW next,
         next = DecideNextState(s, round, approved, found, owner)
  PROVE  /\ ~approved => next.gate \in {"CHANGES_REQUESTED", "BLOCKED"}
         /\ next.gate = "BLOCKED" => next.status \in BlockedStatus
         /\ next.gate = "DRAFT" => ~(s.gate = "CHANGES_REQUESTED" /\ RequiresRecheck(s.issues))
<1> DEFINE status == FailedStatus(s, found, s.failures + 1)
<1>1. status \in {"BLOCKED_BY_SYSTEM", "NEEDS_USER", "NEEDS_FIX"}
  BY DEF FailedStatus
<1>2. /\ AfterRecheckRequest(s, round).gate = "RECHECK_REQUIRED"
      /\ AfterApproval(s, round).gate \in {"APPROVED", "DRAFT"}
  BY DEF AfterRecheckRequest, AfterApproval, WorkflowState
<1>3. /\ AfterRework(s, round, found, owner).gate = "CHANGES_REQUESTED"
      /\ AfterBlock(s, round, status, found).status = status
      /\ AfterBlock(s, round, status, found).gate = "BLOCKED"
  BY DEF AfterRework, AfterBlock, WorkflowState
<1>4. CASE approved
  <2>1. next = IF s.gate = "CHANGES_REQUESTED" /\ RequiresRecheck(s.issues)
               THEN AfterRecheckRequest(s, round) ELSE AfterApproval(s, round)
    BY <1>4 DEF DecideNextState
  <2> QED
    BY <1>2, <1>4, <2>1
<1>5. CASE ~approved
  <2>1. next = IF status = "NEEDS_FIX" THEN AfterRework(s, round, found, owner)
               ELSE AfterBlock(s, round, status, found)
    BY <1>5 DEF DecideNextState
  <2> HIDE DEF status
  <2> QED
    BY <1>1, <1>3, <1>5, <2>1 DEF BlockedStatus
<1> QED
  BY <1>4, <1>5

\* One round.
LEMMA RoundCarries ==
  ASSUME IssueInv, IssuesAreCarried, NextRound
  PROVE  /\ IssuesAreCarried'
         /\ loop'.gate = "DRAFT" => FormAlone(Abstract(open))
<1>0. PICK agents \in Seq(Worker) : \E results :
        /\ \A k \in DOMAIN agents : results[agents[k]] \in Result
        /\ Round(agents, results)
  BY PlannedRound
<1>1. PICK results :
        /\ \A k \in DOMAIN agents : results[agents[k]] \in Result
        /\ Round(agents, results)
  BY <1>0
<1> DEFINE n == loop.round + 1
           issues == BuildIssuesFromGateSummary(loop, agents, results, n, confirmed)
           approved == \A k \in DOMAIN agents : RowPassed(agents[k], loop.phase, results[agents[k]], n)
           inconsistent ==
             \E k \in DOMAIN agents : VerifierInconsistent(agents[k], loop.phase, results[agents[k]], n)
           found == Abstract(issues)
                    \union (IF inconsistent THEN {[type |-> "engine", human |-> FALSE]} ELSE {})
           owners == IF OwnerAgents(issues) # <<>> THEN OwnerAgents(issues)
                     ELSE RepairAgents(loop.phase)
           next == DecideNextState(loop, n, approved, found, OwnerClass(owners))
<1>2. open' = issues /\ loop' = [next EXCEPT !.issues = Abstract(issues)]
  BY <1>1 DEF Round, AfterRound
<1>3. loop \in State /\ n \in Nat /\ GateOf(loop.phase) \in Gates
  BY DEF IssueInv, State, Gates
<1>4. approved => issues = <<>>
  BY PassedRoundIsClean
<1>5. issues \in Seq(SoundIssue)
  <2> DEFINE made == issues
  <2>1. made = BuildIssuesFromGateSummary(loop, agents, results, n, confirmed)
    OBVIOUS
  <2> HIDE DEF made, n
  <2>2. made \in Seq(SoundIssue)
    BY <1>1, <1>3, <2>1, RoundIssues
  <2> QED
    BY <2>2 DEF made
<1> HIDE DEF issues
<1>6. Abstract(issues) \in SUBSET Issue
  BY <1>5, AbstractIsIssues
<1>7. found \in SUBSET Issue /\ approved \in BOOLEAN
  <2>1. [type |-> "engine", human |-> FALSE] \in Issue
    BY DEF Issue, IssueType
  <2> QED
    BY <1>6, <2>1
<1> HIDE DEF found, approved
<1>8. /\ ~approved => next.gate \in {"CHANGES_REQUESTED", "BLOCKED"}
      /\ next.gate = "BLOCKED" => next.status \in BlockedStatus
      /\ next.gate = "DRAFT" => ~(loop.gate = "CHANGES_REQUESTED" /\ RequiresRecheck(loop.issues))
  BY <1>3, <1>7, DecisionLeads
<1>9. next \in State
  BY <1>3, <1>7, DecisionType
<1> HIDE DEF next
<1>10. loop'.status = next.status /\ loop'.gate = next.gate /\ loop'.issues = Abstract(issues)
  BY <1>2, <1>9 DEF State
<1>11. Abstract(issues) = Abstract(open)'
  BY <1>2 DEF Abstract
<1>12. IssuesAreCarried'
  BY <1>2, <1>4, <1>8, <1>10, <1>11 DEF IssuesAreCarried, BlockedStatus
<1>13. ASSUME loop'.gate = "DRAFT" PROVE FormAlone(Abstract(open))
  <2>1. CASE loop.gate = "CHANGES_REQUESTED"
    <3>1. ~RequiresRecheck(loop.issues) /\ loop.issues = Abstract(open)
      BY <1>8, <1>10, <1>13, <2>1 DEF IssuesAreCarried
    <3> QED
      BY <3>1 DEF RequiresRecheck, FormAlone
  <2>2. CASE loop.gate # "CHANGES_REQUESTED"
    <3>1. loop.status \in {"READY", "NEEDS_FIX"}
      BY DEF NextRound
    <3>2. open = <<>>
      BY <2>2, <3>1 DEF IssuesAreCarried
    <3> QED
      BY <3>2 DEF Abstract, FormAlone
  <2> QED
    BY <2>1, <2>2
<1> QED
  BY <1>12, <1>13

\* One answer.
LEMMA AnswerCarries ==
  ASSUME IssueInv, IssuesAreCarried, NEW k \in DOMAIN open, DecideIssue(k)
  PROVE  IssuesAreCarried'
<1>1. /\ loop.status = "NEEDS_USER" /\ open' = open
      /\ \/ /\ loop'.issues = loop.issues /\ loop'.gate = "CHANGES_REQUESTED"
         \/ loop' = loop
  BY DEF DecideIssue, WorkflowState
<1>2. Abstract(open)' = Abstract(open)
  BY <1>1 DEF Abstract
<1> QED
  BY <1>1, <1>2 DEF IssuesAreCarried

\* Straight after a round that found more than form the phase is never approved.
THEOREM RecheckFollows == IssueSpec => LastRoundIsRechecked
<1>1. IssueInit => IssuesAreCarried
  BY DEF IssueInit, InPhase, WorkflowState, IssuesAreCarried, Abstract
<1>2. IssueInv /\ IssuesAreCarried /\ [IssueNext]_issueVars => IssuesAreCarried'
  <2> SUFFICES ASSUME IssueInv, IssuesAreCarried, [IssueNext]_issueVars PROVE IssuesAreCarried'
    OBVIOUS
  <2>1. CASE UNCHANGED issueVars
    BY <2>1 DEF issueVars, IssuesAreCarried, Abstract
  <2> QED
    BY <2>1, RoundCarries, AnswerCarries DEF IssueNext
<1>3. IssueInv /\ IssuesAreCarried /\ [IssueNext]_issueVars =>
        [RoundEnds /\ loop'.gate = "DRAFT" => FormAlone(Abstract(open))]_issueVars
  <2> SUFFICES ASSUME IssueInv, IssuesAreCarried, IssueNext, RoundEnds, loop'.gate = "DRAFT"
               PROVE  FormAlone(Abstract(open))
    OBVIOUS
  <2>1. NextRound
    BY AnswerStep DEF IssueNext
  <2> QED
    BY <2>1, RoundCarries
<1> QED
  BY <1>1, <1>2, <1>3, IssueInvariant, PTL DEF IssueSpec, LastRoundIsRechecked

==============================================================================
