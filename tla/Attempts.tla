------------------------------- MODULE Attempts -------------------------------
(***************************************************************************)
(* The attempts the compatibility engine makes at one round. The command   *)
(* next starts an agent per task, each in a terminal of its own and in the *)
(* worktree of its task, polls for the status files their scripts write,   *)
(* and has the gate judge the round when all are there. It gives up when   *)
(* the time is over, a file cannot be read, a launch fails or it is        *)
(* stopped; the agents do not learn of it. The round is then tried again,  *)
(* under another run directory, with the same tasks.                       *)
(***************************************************************************)
EXTENDS Naturals

CONSTANTS
  LoopTask,    \* tasks of the round
  MaxAttempts  \* bound on attempts

ASSUME AttemptsAssumption == MaxAttempts \in Nat

Launched == (1..MaxAttempts) \X LoopTask  \* an agent: by attempt and task

VARIABLES
  attempt,     \* the attempt the command makes, or made last
  reached,     \* where the command is
  pending,     \* tasks still to be launched, then those whose status is awaited
  agent,       \* agents and the scripts that run them
  statusFile,  \* the status files
  taskRecord   \* the status of each task in current-tasks.json

attemptVars == <<attempt, reached, pending, agent, statusFile, taskRecord>>

AttemptsTypeOK ==
  /\ attempt \in 0..MaxAttempts
  /\ reached \in {"idle", "launching", "waiting", "judging", "finished"}
  /\ pending \subseteq LoopTask
  /\ agent \in [Launched -> {"none", "working", "reporting", "gone"}]
  /\ statusFile \in [Launched -> {"absent", "torn", "DONE", "FAILED", "ABORTED"}]
  /\ taskRecord \in [LoopTask -> {"PLANNED", "RUNNING", "DONE", "FAILED", "ABORTED",
                                  "TIMEOUT", "LOST"}]

AttemptsInit ==
  /\ attempt = 0 /\ reached = "idle" /\ pending = {}
  /\ agent = [l \in Launched |-> "none"]
  /\ statusFile = [l \in Launched |-> "absent"]
  /\ taskRecord = [t \in LoopTask |-> "PLANNED"]

\* Mutant: the status file of a task is not that of a run.
StatusOfTask(n, t) == <<1, t>>
\* The status file an attempt has for a task, in its run directory.
StatusPath(n, t) == <<n, t>>

------------------------------------------------------------------------------
(* The command.                                                             *)

StartAttempt ==
  /\ reached = "idle" /\ attempt < MaxAttempts
  /\ attempt' = attempt + 1 /\ reached' = "launching" /\ pending' = LoopTask
  /\ taskRecord' = [t \in LoopTask |-> "PLANNED"]
  /\ UNCHANGED <<agent, statusFile>>

LaunchAgent(t) ==
  /\ reached = "launching" /\ t \in pending
  /\ agent' = [agent EXCEPT ![<<attempt, t>>] = "working"]
  /\ pending' = pending \ {t}
  /\ taskRecord' = [taskRecord EXCEPT ![t] = "RUNNING"]
  /\ UNCHANGED <<attempt, reached, statusFile>>

AllLaunched ==
  /\ reached = "launching" /\ pending = {}
  /\ reached' = "waiting" /\ pending' = LoopTask
  /\ UNCHANGED <<attempt, agent, statusFile, taskRecord>>

\* The command ends with an error; tasks without a status get this one.
GiveUp(status) ==
  /\ reached' = "idle" /\ pending' = {}
  /\ taskRecord' = [t \in LoopTask |-> IF taskRecord[t] \in {"PLANNED", "RUNNING"}
                                       THEN status ELSE taskRecord[t]]
  /\ UNCHANGED <<attempt, agent, statusFile>>

ReadStatus(t) ==
  LET status == statusFile[StatusPath(attempt, t)] IN
  /\ reached = "waiting" /\ t \in pending /\ status \notin {"absent", "torn"}
  /\ pending' = pending \ {t}
  /\ taskRecord' = [taskRecord EXCEPT ![t] = status]
  /\ reached' = IF pending' = {} THEN "judging" ELSE "waiting"
  /\ UNCHANGED <<attempt, agent, statusFile>>

\* A status file is found before all of it is written.
ReadTorn(t) ==
  /\ reached = "waiting" /\ t \in pending /\ statusFile[StatusPath(attempt, t)] = "torn"
  /\ GiveUp("LOST")

TimeOut == reached = "waiting" /\ GiveUp("TIMEOUT")

\* A worktree, a terminal or the judgement fails.
StepFails == reached \in {"launching", "judging"} /\ GiveUp("LOST")

Interrupted == reached \in {"launching", "waiting", "judging"} /\ GiveUp("ABORTED")

CommandKilled ==
  /\ reached \in {"launching", "waiting", "judging"}
  /\ reached' = "idle" /\ pending' = {}
  /\ UNCHANGED <<attempt, agent, statusFile, taskRecord>>

\* The gate has judged and the next round is written.
Judged ==
  /\ reached = "judging" /\ reached' = "finished"
  /\ UNCHANGED <<attempt, pending, agent, statusFile, taskRecord>>

------------------------------------------------------------------------------
(* Agents and their scripts, whether or not the command still waits.        *)

\* The agent is over, by itself or by a signal its script catches; the script
\* opens the status file,
AgentEnds(n, t) ==
  /\ agent[<<n, t>>] = "working"
  /\ agent' = [agent EXCEPT ![<<n, t>>] = "reporting"]
  /\ statusFile' = [statusFile EXCEPT ![StatusPath(n, t)] = "torn"]
  /\ UNCHANGED <<attempt, reached, pending, taskRecord>>

\* and writes to it.
AgentReports(n, t) ==
  /\ agent[<<n, t>>] = "reporting"
  /\ agent' = [agent EXCEPT ![<<n, t>>] = "gone"]
  /\ \E status \in {"DONE", "FAILED", "ABORTED"} :
       statusFile' = [statusFile EXCEPT ![StatusPath(n, t)] = status]
  /\ UNCHANGED <<attempt, reached, pending, taskRecord>>

AgentKilled(n, t) ==
  /\ agent[<<n, t>>] \in {"working", "reporting"}
  /\ agent' = [agent EXCEPT ![<<n, t>>] = "gone"]
  /\ UNCHANGED <<attempt, reached, pending, statusFile, taskRecord>>

AttemptsNext ==
  \/ StartAttempt \/ AllLaunched \/ TimeOut \/ StepFails \/ Interrupted
  \/ CommandKilled \/ Judged
  \/ \E t \in LoopTask : LaunchAgent(t) \/ ReadStatus(t) \/ ReadTorn(t)
  \/ \E n \in 1..MaxAttempts, t \in LoopTask :
       AgentEnds(n, t) \/ AgentReports(n, t) \/ AgentKilled(n, t)

AttemptsSpec == AttemptsInit /\ [][AttemptsNext]_attemptVars

------------------------------------------------------------------------------
\* What is judged is finished: when the gate looks at the worktrees, every agent
\* this attempt started has ended and the records say how, whatever is left of
\* earlier attempts (tmux-runner.mjs:24-62, codex-runner.mjs:39-106).
JudgedWhenEnded ==
  reached \in {"judging", "finished"} =>
    \A t \in LoopTask : /\ agent[<<attempt, t>>] = "gone"
                        /\ taskRecord[t] = statusFile[<<attempt, t>>]

\* An agent has its worktree to itself (scripts/agent-loop/README.md:160). It is
\* not so: an agent that is given up works on, and the next attempt starts
\* another one beside it.
OneAgentPerWorktree ==
  \A t \in LoopTask : \A m, n \in 1..MaxAttempts :
    agent[<<m, t>>] = "working" /\ agent[<<n, t>>] = "working" => m = n
==============================================================================
