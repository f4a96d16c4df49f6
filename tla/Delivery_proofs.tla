--------------------------- MODULE Delivery_proofs ---------------------------
(***************************************************************************)
(* Proofs about integration and release, for every number of calls, paths, *)
(* branches, commits and commands, and about the delivery of code in the   *)
(* compatibility engine, for any files and any number of rounds.           *)
(***************************************************************************)
EXTENDS GitIntegration, ReleaseService, CodeDelivery, TLAPS

\* The worktree of a call is at the path it was given, and only a call that
\* began has one.
TreesAtTheirPlace ==
  \A p \in Place : worktrees[p] # NoTree =>
    input[worktrees[p].by].place = p /\ step[worktrees[p].by] # "new"

\* A call that verifies has merged everything and waits for an answer.
VerifyingIsUnderway ==
  \A i \in Integration :
    /\ step[i] = "new" => results[i] = <<>>
    /\ step[i] = "verifying" =>
         merged[i] = input[i].commits /\ Len(results[i]) < input[i].checks

\* The inductive invariant of integration.
IntegrationInv ==
  /\ IntegrationTypeOK
  /\ VerifiedInPlace /\ PassedIsWhole
  /\ TreesAtTheirPlace /\ VerifyingIsUnderway

\* What the arguments of a call are.
LEMMA InputType ==
  ASSUME IntegrationTypeOK, NEW i \in Integration
  PROVE  /\ input[i].place \in Place /\ input[i].branch \in Branch
         /\ input[i].commits \in Nat /\ input[i].checks \in Nat
         /\ input[i].cleanupWorktree \in BOOLEAN
         /\ [branch |-> input[i].branch, by |-> i] \in Tree
         /\ [branch |-> input[i].branch, by |-> i] # NoTree
<1>1. input[i] \in Input
  BY DEF IntegrationTypeOK
<1>2. input[i].branch \in Branch /\ input[i].place \in Place /\ input[i].cleanupWorktree \in BOOLEAN
  BY <1>1 DEF Input
<1>3. input[i].commits \in Nat /\ input[i].checks \in Nat
  BY <1>1, MaxCommitsAssumption DEF Input
<1>4. [branch |-> input[i].branch, by |-> i] \in Tree
  BY <1>2 DEF Tree
<1>5. QED
  BY <1>2, <1>3, <1>4, NoTreeAssumption DEF Tree

\* How the parts of the invariant that speak of worktrees fare in a step of one
\* call: its path changes hands only as CanAdd and the cleanup allow.
LEMMA TreesKeep ==
  ASSUME IntegrationInv, NEW i \in Integration, step[i] \in {"new", "verifying"},
         step[i] = "new" => CanAdd(i), NEW outcome \in Step \ {"new"},
         NEW removed \in BOOLEAN,
         outcome = "verifying" => ~removed,
         UNCHANGED input, step' = [step EXCEPT ![i] = outcome],
         worktrees' = [worktrees EXCEPT ![input[i].place] =
           IF removed THEN NoTree ELSE [branch |-> input[i].branch, by |-> i]]
  PROVE  /\ worktrees' \in [Place -> Tree \cup {NoTree}]
         /\ step' \in [Integration -> Step]
         /\ VerifiedInPlace' /\ TreesAtTheirPlace'
<1> DEFINE own == [branch |-> input[i].branch, by |-> i]
           place == input[i].place
<1>1. place \in Place /\ own \in Tree /\ own # NoTree /\ own.by = i
  BY InputType DEF IntegrationInv
<1>2. step \in [Integration -> Step] /\ worktrees \in [Place -> Tree \cup {NoTree}]
  BY DEF IntegrationInv, IntegrationTypeOK
<1>3. worktrees[place] = NoTree \/ worktrees[place] = own
  BY DEF CanAdd, IntegrationInv, VerifiedInPlace
<1>4. \A j \in Integration : j # i => step'[j] = step[j]
  BY <1>2
<1>5. step'[i] = outcome /\ outcome # "new"
  BY <1>2
<1>6. worktrees'[place] = (IF removed THEN NoTree ELSE own) /\
      \A p \in Place : p # place => worktrees'[p] = worktrees[p]
  BY <1>1, <1>2
<1>7. \A p \in Place : worktrees[p] # NoTree => worktrees[p].by \in Integration
  BY <1>2 DEF Tree
<1> HIDE DEF own, place
<1>8. VerifiedInPlace'
  <2>1. SUFFICES ASSUME NEW j \in Integration, step'[j] = "verifying"
                 PROVE  worktrees'[input[j].place] = [branch |-> input[j].branch, by |-> j]
    BY DEF VerifiedInPlace
  <2>2. CASE j = i
    BY <1>5, <1>6, <2>1, <2>2 DEF own, place
  <2>3. CASE j # i
    <3> DEFINE other == [branch |-> input[j].branch, by |-> j]
    <3>1. worktrees[input[j].place] = other
      BY <1>4, <2>1, <2>3 DEF IntegrationInv, VerifiedInPlace
    <3>2. other # NoTree /\ other.by = j /\ input[j].place \in Place
      BY InputType DEF IntegrationInv
    <3> HIDE DEF other
    <3>3. input[j].place # place
      BY <1>1, <1>3, <2>3, <3>1, <3>2
    <3>4. QED
      BY <1>6, <3>1, <3>2, <3>3 DEF other
  <2>4. QED
    BY <2>2, <2>3
<1>9. TreesAtTheirPlace'
  <2>1. SUFFICES ASSUME NEW p \in Place, worktrees'[p] # NoTree
                 PROVE  input[worktrees'[p].by].place = p /\ step'[worktrees'[p].by] # "new"
    BY DEF TreesAtTheirPlace
  <2>2. CASE p = place
    BY <1>1, <1>5, <1>6, <2>1, <2>2 DEF place
  <2>3. CASE p # place
    <3>1. worktrees'[p] = worktrees[p]
      BY <1>6, <2>3
    <3>2. input[worktrees[p].by].place = p /\ step[worktrees[p].by] # "new"
      BY <2>1, <3>1 DEF IntegrationInv, TreesAtTheirPlace
    <3>3. QED
      BY <1>4, <1>5, <1>7, <2>1, <3>1, <3>2
  <2>4. QED
    BY <2>2, <2>3
<1>10. worktrees' \in [Place -> Tree \cup {NoTree}] /\ step' \in [Integration -> Step]
  BY <1>1, <1>2 DEF own, place
<1>11. QED
  BY <1>8, <1>9, <1>10

\* The end of a call, with its cleanup, is such a step.
LEMMA EndKeeps ==
  ASSUME IntegrationInv, NEW i \in Integration, NEW outcome \in Ended, NEW trees,
         \/ step[i] = "new" /\ CanAdd(i) /\ trees = Added(i)
         \/ step[i] = "verifying" /\ trees = worktrees,
         UNCHANGED input, End(i, trees, outcome)
  PROVE  /\ worktrees' \in [Place -> Tree \cup {NoTree}]
         /\ step' \in [Integration -> Step]
         /\ VerifiedInPlace' /\ TreesAtTheirPlace'
<1> DEFINE own == [branch |-> input[i].branch, by |-> i]
           place == input[i].place
<1>1. outcome \in Step \ {"new"} /\ outcome # "verifying"
  BY DEF Ended, Step
<1>2. place \in Place /\ worktrees \in [Place -> Tree \cup {NoTree}]
  BY InputType DEF IntegrationInv, IntegrationTypeOK
<1>3. trees = [worktrees EXCEPT ![place] = own]
  <2>1. CASE step[i] = "verifying" /\ trees = worktrees
    <3>1. worktrees[place] = own
      BY <2>1 DEF IntegrationInv, VerifiedInPlace
    <3>2. QED
      BY <1>2, <2>1, <3>1
  <2>2. QED
    BY <2>1 DEF Added
<1>4. PICK removed \in BOOLEAN :
        worktrees' = [worktrees EXCEPT ![place] = IF removed THEN NoTree ELSE own]
  <2>1. worktrees' \in CleanedUp(trees, i)
    BY DEF End
  <2>2. CASE worktrees' = trees
    BY <1>3, <2>2
  <2>3. CASE worktrees' = [trees EXCEPT ![place] = NoTree]
    BY <1>2, <1>3, <2>3
  <2>4. QED
    BY <2>1, <2>2, <2>3 DEF CleanedUp
<1>5. step' = [step EXCEPT ![i] = outcome]
  BY DEF End
<1>6. QED
  BY <1>1, <1>4, <1>5, TreesKeep

\* Every step of a call keeps the invariant.
LEMMA IntegrationStep == IntegrationInv /\ [IntegrationNext]_integrationVars => IntegrationInv'
<1> SUFFICES ASSUME IntegrationInv, [IntegrationNext]_integrationVars
             PROVE  IntegrationInv'
  OBVIOUS
<1>1. /\ input \in [Integration -> Input] /\ step \in [Integration -> Step]
      /\ merged \in [Integration -> Nat] /\ results \in [Integration -> Seq(BOOLEAN)]
      /\ worktrees \in [Place -> Tree \cup {NoTree}]
  BY DEF IntegrationInv, IntegrationTypeOK
<1>2. PassedIsWhole /\ VerifyingIsUnderway
  BY DEF IntegrationInv
<1>3. ASSUME NEW i \in Integration, CreateFails(i)
      PROVE  IntegrationInv'
  <2>1. /\ step[i] = "new" /\ step' = [step EXCEPT ![i] = "thrown"]
        /\ UNCHANGED <<worktrees, input, merged, results>>
    BY <1>3 DEF CreateFails
  <2>2. \A p \in Place : worktrees[p] # NoTree => worktrees[p].by # i /\ worktrees[p].by \in Integration
    BY <1>1, <2>1 DEF IntegrationInv, TreesAtTheirPlace, Tree
  <2>3. step' \in [Integration -> Step]
    BY <1>1, <2>1 DEF Step
  <2>4. \A j \in Integration : j # i => step'[j] = step[j]
    BY <1>1, <2>1
  <2>5. step'[i] = "thrown"
    BY <1>1, <2>1
  <2>6. IntegrationTypeOK'
    BY <1>1, <2>1, <2>3 DEF IntegrationTypeOK
  <2>7. VerifiedInPlace' /\ PassedIsWhole' /\ VerifyingIsUnderway'
    BY <1>2, <2>1, <2>4, <2>5 DEF IntegrationInv, VerifiedInPlace, PassedIsWhole,
       VerifyingIsUnderway
  <2>8. TreesAtTheirPlace'
    BY <2>1, <2>2, <2>4, <2>5 DEF IntegrationInv, TreesAtTheirPlace
  <2>9. QED
    BY <2>6, <2>7, <2>8 DEF IntegrationInv
<1>4. ASSUME NEW i \in Integration, Conflict(i)
      PROVE  IntegrationInv'
  <2>1. step[i] = "new" /\ CanAdd(i) /\ UNCHANGED <<input, results>> /\ End(i, Added(i), "conflict")
    BY <1>4 DEF Conflict
  <2>2. "conflict" \in Ended
    BY DEF Ended
  <2>3. /\ worktrees' \in [Place -> Tree \cup {NoTree}] /\ step' \in [Integration -> Step]
        /\ VerifiedInPlace' /\ TreesAtTheirPlace'
    BY <2>1, <2>2, EndKeeps
  <2>4. PICK before \in 0..(input[i].commits - 1) : merged' = [merged EXCEPT ![i] = before]
    BY <1>4 DEF Conflict
  <2>5. input[i].commits \in Nat
    BY InputType DEF IntegrationInv
  <2>6. before \in Nat /\ before < input[i].commits
    BY <2>4, <2>5
  <2>7. merged' \in [Integration -> Nat] /\ merged'[i] = before
        /\ \A j \in Integration : j # i => merged'[j] = merged[j]
    BY <1>1, <2>4, <2>6
  <2>8. step'[i] = "conflict" /\ \A j \in Integration : j # i => step'[j] = step[j]
    BY <1>1, <2>1 DEF End
  <2>9. IntegrationTypeOK'
    BY <1>1, <2>1, <2>3, <2>7 DEF IntegrationTypeOK
  <2>10. PassedIsWhole' /\ VerifyingIsUnderway'
    BY <1>2, <2>1, <2>6, <2>7, <2>8 DEF PassedIsWhole, VerifyingIsUnderway
  <2>11. QED
    BY <2>3, <2>9, <2>10 DEF IntegrationInv
<1>5. ASSUME NEW i \in Integration, HeadUnavailable(i)
      PROVE  IntegrationInv'
  <2>1. /\ step[i] = "new" /\ CanAdd(i) /\ UNCHANGED <<input, results>>
        /\ End(i, Added(i), "thrown") /\ merged' = [merged EXCEPT ![i] = input[i].commits]
    BY <1>5 DEF HeadUnavailable
  <2>2. "thrown" \in Ended
    BY DEF Ended
  <2>3. /\ worktrees' \in [Place -> Tree \cup {NoTree}] /\ step' \in [Integration -> Step]
        /\ VerifiedInPlace' /\ TreesAtTheirPlace'
    BY <2>1, <2>2, EndKeeps
  <2>4. merged' \in [Integration -> Nat] /\ \A j \in Integration : j # i => merged'[j] = merged[j]
    BY <1>1, <2>1, InputType DEF IntegrationInv
  <2>5. step'[i] = "thrown" /\ \A j \in Integration : j # i => step'[j] = step[j]
    BY <1>1, <2>1 DEF End
  <2>6. IntegrationTypeOK'
    BY <1>1, <2>1, <2>3, <2>4 DEF IntegrationTypeOK
  <2>7. PassedIsWhole' /\ VerifyingIsUnderway'
    BY <1>2, <2>1, <2>4, <2>5 DEF PassedIsWhole, VerifyingIsUnderway
  <2>8. QED
    BY <2>3, <2>6, <2>7 DEF IntegrationInv
<1>6. ASSUME NEW i \in Integration, MergeAll(i)
      PROVE  IntegrationInv'
  <2>1. /\ step[i] = "new" /\ CanAdd(i) /\ UNCHANGED <<input, results>>
        /\ merged' = [merged EXCEPT ![i] = input[i].commits]
    BY <1>6 DEF MergeAll
  <2>2. input[i].commits \in Nat /\ input[i].checks \in Nat
    BY InputType DEF IntegrationInv
  <2>3. /\ merged' \in [Integration -> Nat] /\ merged'[i] = input[i].commits
        /\ \A j \in Integration : j # i => merged'[j] = merged[j]
    BY <1>1, <2>1, <2>2
  <2>4. results[i] = <<>>
    BY <1>2, <2>1 DEF VerifyingIsUnderway
  <2>5. CASE input[i].checks = 0
    <3>1. End(i, Added(i), Outcome(<<>>))
      BY <1>6, <2>5 DEF MergeAll
    <3>2. Outcome(<<>>) = "passed"
      BY DEF Outcome
    <3>3. "passed" \in Ended /\ End(i, Added(i), "passed")
      BY <3>1, <3>2 DEF Ended
    <3>4. /\ worktrees' \in [Place -> Tree \cup {NoTree}] /\ step' \in [Integration -> Step]
          /\ VerifiedInPlace' /\ TreesAtTheirPlace'
      BY <2>1, <3>3, EndKeeps
    <3>5. step'[i] = "passed" /\ \A j \in Integration : j # i => step'[j] = step[j]
      BY <1>1, <3>3 DEF End
    <3>6. IntegrationTypeOK'
      BY <1>1, <2>1, <2>3, <3>4 DEF IntegrationTypeOK
    <3>7. PassedIsWhole' /\ VerifyingIsUnderway'
      BY <1>2, <2>1, <2>3, <2>4, <2>5, <3>5 DEF PassedIsWhole, VerifyingIsUnderway
    <3>8. QED
      BY <3>4, <3>6, <3>7 DEF IntegrationInv
  <2>6. CASE input[i].checks # 0
    <3>1. step' = [step EXCEPT ![i] = "verifying"] /\ worktrees' = Added(i)
      BY <1>6, <2>6 DEF MergeAll
    <3>2. "verifying" \in Step \ {"new"} /\ "verifying" \notin Ended
      BY DEF Step, Ended
    <3>3. worktrees' = [worktrees EXCEPT ![input[i].place] =
            IF FALSE THEN NoTree ELSE [branch |-> input[i].branch, by |-> i]]
      BY <3>1 DEF Added
    <3>4. /\ worktrees' \in [Place -> Tree \cup {NoTree}] /\ step' \in [Integration -> Step]
          /\ VerifiedInPlace' /\ TreesAtTheirPlace'
      <4>1. \A removed \in BOOLEAN : ~removed /\ worktrees' = [worktrees EXCEPT ![input[i].place] =
              IF removed THEN NoTree ELSE [branch |-> input[i].branch, by |-> i]] =>
              /\ worktrees' \in [Place -> Tree \cup {NoTree}] /\ step' \in [Integration -> Step]
              /\ VerifiedInPlace' /\ TreesAtTheirPlace'
        BY <2>1, <3>1, <3>2, TreesKeep
      <4>2. QED
        BY <3>3, <4>1
    <3>5. step'[i] = "verifying" /\ \A j \in Integration : j # i => step'[j] = step[j]
      BY <1>1, <3>1
    <3>6. IntegrationTypeOK'
      BY <1>1, <2>1, <2>3, <3>4 DEF IntegrationTypeOK
    <3>7. Len(results[i]) < input[i].checks
      BY <2>2, <2>4, <2>6
    <3>8. PassedIsWhole' /\ VerifyingIsUnderway'
      BY <1>2, <2>1, <2>3, <3>5, <3>7 DEF PassedIsWhole, VerifyingIsUnderway
    <3>9. QED
      BY <3>4, <3>6, <3>8 DEF IntegrationInv
  <2>7. QED
    BY <2>5, <2>6
<1>7. ASSUME NEW i \in Integration, NEW ok \in BOOLEAN, Verified(i, ok)
      PROVE  IntegrationInv'
  <2> DEFINE answers == Append(results[i], ok)
  <2>1. /\ step[i] = "verifying" /\ UNCHANGED <<input, merged>>
        /\ results' = [results EXCEPT ![i] = answers]
    BY <1>7 DEF Verified
  <2>2. results[i] \in Seq(BOOLEAN) /\ input[i].checks \in Nat
    BY <1>1, InputType DEF IntegrationInv
  <2>3. answers \in Seq(BOOLEAN) /\ Len(answers) = Len(results[i]) + 1 /\ Len(results[i]) \in Nat
    BY <2>2
  <2>4. merged[i] = input[i].commits /\ Len(results[i]) < input[i].checks
    BY <1>2, <2>1 DEF VerifyingIsUnderway
  <2>5. IF Len(answers) < input[i].checks THEN UNCHANGED <<step, worktrees>>
        ELSE End(i, worktrees, Outcome(answers))
    BY <1>7 DEF Verified
  <2> HIDE DEF answers
  <2>6. /\ results' \in [Integration -> Seq(BOOLEAN)] /\ results'[i] = answers
        /\ \A j \in Integration : j # i => results'[j] = results[j]
    BY <1>1, <2>1, <2>3
  <2>7. CASE Len(answers) < input[i].checks
    <3>1. UNCHANGED <<step, worktrees, input, merged>>
      BY <2>1, <2>5, <2>7
    <3>2. IntegrationTypeOK' /\ VerifiedInPlace' /\ TreesAtTheirPlace'
      BY <2>6, <3>1 DEF IntegrationInv, IntegrationTypeOK, VerifiedInPlace, 
                        TreesAtTheirPlace
    <3>3. PassedIsWhole' /\ VerifyingIsUnderway'
      BY <1>2, <2>1, <2>6, <2>7, <3>1 DEF PassedIsWhole, VerifyingIsUnderway
    <3>4. QED
      BY <3>2, <3>3 DEF IntegrationInv
  <2>8. CASE ~(Len(answers) < input[i].checks)
    <3>1. Outcome(answers) \in Ended /\ End(i, worktrees, Outcome(answers))
      BY <2>5, <2>8 DEF Outcome, Ended
    <3>2. /\ worktrees' \in [Place -> Tree \cup {NoTree}] /\ step' \in [Integration -> Step]
          /\ VerifiedInPlace' /\ TreesAtTheirPlace'
      BY <2>1, <3>1, EndKeeps
    <3>3. step'[i] = Outcome(answers) /\ \A j \in Integration : j # i => step'[j] = step[j]
      BY <1>1, <3>1 DEF End
    <3>4. IntegrationTypeOK'
      BY <1>1, <2>1, <2>6, <3>2 DEF IntegrationTypeOK
    <3>5. Len(answers) = input[i].checks
      BY <2>2, <2>3, <2>4, <2>8
    <3>6. /\ step'[i] # "new" /\ step'[i] # "verifying" /\ step'[i] # "conflict"
          /\ step'[i] = "passed" => \A n \in DOMAIN answers : answers[n]
      BY <3>3 DEF Outcome
    <3>7. PassedIsWhole' /\ VerifyingIsUnderway'
      BY <1>2, <2>1, <2>4, <2>6, <3>3, <3>5, <3>6 DEF PassedIsWhole, VerifyingIsUnderway
    <3>8. QED
      BY <3>2, <3>4, <3>7 DEF IntegrationInv
  <2>9. QED
    BY <2>7, <2>8
<1>8. ASSUME NEW i \in Integration, VerifyThrows(i)
      PROVE  IntegrationInv'
  <2>1. /\ step[i] = "verifying" /\ UNCHANGED <<input, merged, results>>
        /\ End(i, worktrees, "thrown")
    BY <1>8 DEF VerifyThrows
  <2>2. "thrown" \in Ended
    BY DEF Ended
  <2>3. /\ worktrees' \in [Place -> Tree \cup {NoTree}] /\ step' \in [Integration -> Step]
        /\ VerifiedInPlace' /\ TreesAtTheirPlace'
    BY <2>1, <2>2, EndKeeps
  <2>4. step'[i] = "thrown" /\ \A j \in Integration : j # i => step'[j] = step[j]
    BY <1>1, <2>1 DEF End
  <2>5. IntegrationTypeOK'
    BY <1>1, <2>1, <2>3 DEF IntegrationTypeOK
  <2>6. PassedIsWhole' /\ VerifyingIsUnderway'
    BY <1>2, <2>1, <2>4 DEF PassedIsWhole, VerifyingIsUnderway
  <2>7. QED
    BY <2>3, <2>5, <2>6 DEF IntegrationInv
<1>9. CASE UNCHANGED integrationVars
  BY <1>9 DEF integrationVars, IntegrationInv, IntegrationTypeOK, VerifiedInPlace, PassedIsWhole,
              TreesAtTheirPlace, VerifyingIsUnderway
<1>10. QED
  BY <1>3, <1>4, <1>5, <1>6, <1>7, <1>8, <1>9 DEF IntegrationNext, Proceed

\* Nothing has begun.
LEMMA IntegrationStart == IntegrationInit => IntegrationInv
<1> SUFFICES ASSUME IntegrationInit
             PROVE  IntegrationInv
  OBVIOUS
<1>1. IntegrationTypeOK
  BY DEF IntegrationInit, IntegrationTypeOK, Step
<1>2. VerifiedInPlace /\ PassedIsWhole
  BY DEF IntegrationInit, VerifiedInPlace, PassedIsWhole, Ended
<1>3. TreesAtTheirPlace /\ VerifyingIsUnderway
  BY DEF IntegrationInit, TreesAtTheirPlace, VerifyingIsUnderway
<1>4. QED
  BY <1>1, <1>2, <1>3 DEF IntegrationInv

\* Whatever calls for the same path or branch do, the verification commands of a
\* call run on its own merges, and what it says at the end is what they said.
THEOREM IntegrationSound ==
  IntegrationSpec => []IntegrationTypeOK /\ []VerifiedInPlace /\ []PassedIsWhole
<1>1. IntegrationInv => IntegrationTypeOK /\ VerifiedInPlace /\ PassedIsWhole
  BY DEF IntegrationInv
<1>2. QED
  BY <1>1, IntegrationStart, IntegrationStep, PTL DEF IntegrationSpec

\* A step touches no worktree of a call that has ended, and a call whose path or
\* branch such a worktree occupies can only fail.
LEMMA LeftTreesKeep ==
  ASSUME IntegrationInv, IntegrationNext, NEW p \in Place, LeftBehind(p)
  PROVE  /\ worktrees'[p] = worktrees[p]
         /\ \A i \in Integration :
              /\ step[i] = "new"
              /\ input[i].place = p \/ input[i].branch = worktrees[p].branch
              => step'[i] \in {"new", "thrown"} /\ merged'[i] = merged[i]
<1>1. /\ step \in [Integration -> Step] /\ merged \in [Integration -> Nat]
      /\ worktrees \in [Place -> Tree \cup {NoTree}]
  BY DEF IntegrationInv, IntegrationTypeOK
<1>2. worktrees[p] # NoTree /\ step[worktrees[p].by] \notin {"new", "verifying"}
  BY DEF LeftBehind, Ended
<1>3. PICK i \in Integration : Proceed(i)
  BY DEF IntegrationNext
<1> DEFINE place == input[i].place
           own == [branch |-> input[i].branch, by |-> i]
<1>4. place \in Place
  BY InputType DEF IntegrationInv
<1>5. \A j \in Integration : j # i => step'[j] = step[j] /\ merged'[j] = merged[j]
  <2>1. UNCHANGED step \/ \E outcome : step' = [step EXCEPT ![i] = outcome]
    BY <1>3 DEF Proceed, CreateFails, Conflict, HeadUnavailable, MergeAll, Verified, VerifyThrows, End
  <2>2. UNCHANGED merged \/ \E n : merged' = [merged EXCEPT ![i] = n]
    BY <1>3 DEF Proceed, CreateFails, Conflict, HeadUnavailable, MergeAll, Verified, VerifyThrows
  <2>3. QED
    BY <1>1, <2>1, <2>2
<1>6. CASE CreateFails(i)
  BY <1>1, <1>5, <1>6 DEF CreateFails
<1>7. CASE step[i] = "new" /\ CanAdd(i) /\ worktrees' \in CleanedUp(Added(i), i) \union {Added(i)}
  <2>1. place # p /\ input[i].branch # worktrees[p].branch
    BY <1>2, <1>7 DEF CanAdd
  <2>2. worktrees'[p] = worktrees[p]
    BY <1>1, <1>4, <1>7, <2>1 DEF CleanedUp, Added
  <2>3. QED
    BY <1>5, <2>1, <2>2
<1>8. CASE step[i] = "verifying" /\ worktrees' \in CleanedUp(worktrees, i)
  <2>1. worktrees[place].by = i
    <3>1. worktrees[place] = own
      BY <1>8 DEF IntegrationInv, VerifiedInPlace
    <3>2. own.by = i
      OBVIOUS
    <3>3. QED
      BY <3>1, <3>2
  <2>2. place # p
    BY <1>2, <1>8, <2>1
  <2>3. worktrees'[p] = worktrees[p]
    BY <1>1, <1>4, <1>8, <2>2 DEF CleanedUp
  <2>4. QED
    BY <1>5, <1>8, <2>3
<1>9. CASE Conflict(i) \/ HeadUnavailable(i)
  BY <1>7, <1>9 DEF Conflict, HeadUnavailable, End
<1>10. CASE MergeAll(i)
  BY <1>7, <1>10 DEF MergeAll, End
<1>11. CASE VerifyThrows(i) \/ \E ok \in BOOLEAN : Verified(i, ok)
  <2>1. worktrees' \in CleanedUp(worktrees, i)
    BY <1>11 DEF VerifyThrows, Verified, End, CleanedUp
  <2>2. QED
    BY <1>8, <1>11, <2>1 DEF VerifyThrows, Verified
<1>12. QED
  BY <1>3, <1>6, <1>9, <1>10, <1>11 DEF Proceed

\* What a call left behind is there until somebody else removes it, and refuses
\* every retry.
THEOREM LeftTreesAreKept == IntegrationSpec => LeftTreesStay
<1>1. IntegrationInv /\ [IntegrationNext]_integrationVars =>
        [\A p \in Place : LeftBehind(p) =>
           /\ worktrees'[p] = worktrees[p]
           /\ \A i \in Integration :
                /\ step[i] = "new"
                /\ input[i].place = p \/ input[i].branch = worktrees[p].branch
                => step'[i] \in {"new", "thrown"} /\ merged'[i] = merged[i]]_integrationVars
  BY LeftTreesKeep
<1>2. QED
  BY <1>1, IntegrationStart, IntegrationStep, PTL DEF IntegrationSpec, LeftTreesStay

\* The three kinds, by their place in the order.
LEMMA KindsInOrder ==
  /\ DOMAIN Kinds = 1..3 /\ Len(Kinds) = 3
  /\ Kinds[1] = "MIGRATION" /\ Kinds[2] = "RELEASE" /\ Kinds[3] = "HEALTH_CHECK"
BY DEF Kinds

\* A kind is known by its place, and none is the rollback.
LEMMA KindsAreApart ==
  /\ \A n \in 1..3 : Kinds[n] \in Kind /\ Kinds[n] # "ROLLBACK"
  /\ \A m, n \in 1..3 : Kinds[m] = Kinds[n] => m = n
BY KindsInOrder DEF Kind

\* Some command that has effects is planned.
EffectPlanned == \E kind \in Kind : CausesEffect(kind) /\ plan.commands[kind] > 0

\* All results of a kind are good, and more are to come.
Underway(kind) ==
  /\ Len(commandResults[kind]) < plan.commands[kind]
  /\ \A k \in DOMAIN commandResults[kind] : commandResults[kind][k]

\* The results of the kinds up to the n-th one.
PastIsOrdered ==
  /\ \A m, n \in 1..3 : m < n /\ commandResults[Kinds[n]] # <<>> => AllPassed(Kinds[m])
  /\ \A n \in 1..3 : \A k \in 1..MaxCommands :
       k < Len(commandResults[Kinds[n]]) => commandResults[Kinds[n]][k]

\* Where the call is agrees with the results so far.
StageAgrees ==
  /\ stage \in {"new", "refused"} => failureStage = "none" /\ \A kind \in Kind : commandResults[kind] = <<>>
  /\ \A n \in 1..3 : stage = Kinds[n] =>
       /\ failureStage = "none" /\ Underway(Kinds[n])
       /\ \A m \in 1..3 : (m < n => AllPassed(Kinds[m])) /\ (m > n => commandResults[Kinds[m]] = <<>>)
  /\ stage = "ROLLBACK" => failureStage # "none" /\ Underway("ROLLBACK") /\ sideEffectsStarted
  /\ stage = "ROLLED_BACK" => plan.commands["ROLLBACK"] > 0 /\ AllPassed("ROLLBACK")
  /\ stage = "RELEASED" => \A n \in 1..3 : AllPassed(Kinds[n])

\* Rollback results come after a failure and after side effects were planned.
RollbackAgrees ==
  /\ commandResults["ROLLBACK"] # <<>> => failureStage # "none" /\ sideEffectsStarted
  /\ sideEffectsStarted => EffectPlanned

\* The inductive invariant of the release.
ReleaseInv == ReleaseTypeOK /\ PastIsOrdered /\ StageAgrees /\ RollbackAgrees

\* It implies the two properties.
LEMMA ReleaseInvImplies == ReleaseInv => NothingPastFailure /\ RollbackIsTrue
<1> SUFFICES ASSUME ReleaseInv
             PROVE  NothingPastFailure /\ RollbackIsTrue
  OBVIOUS
<1>1. NothingPastFailure
  BY KindsInOrder DEF ReleaseInv, PastIsOrdered, StageAgrees, NothingPastFailure
<1>2. RollbackIsTrue
  BY DEF ReleaseInv, StageAgrees, RollbackAgrees, RollbackIsTrue, EffectPlanned
<1>3. QED
  BY <1>1, <1>2

\* The types of what the plan and the results hold.
LEMMA ReleaseTypes ==
  ASSUME ReleaseTypeOK, NEW kind \in Kind
  PROVE  /\ plan.commands[kind] \in Nat /\ plan.commands[kind] <= MaxCommands
         /\ commandResults[kind] \in Seq(BOOLEAN) /\ Len(commandResults[kind]) \in Nat
<1>1. plan.commands \in [Kind -> 0..MaxCommands]
  BY DEF ReleaseTypeOK
<1>2. QED
  BY <1>1, MaxCommandsAssumption DEF ReleaseTypeOK

\* Starting a command counts as a side effect only if one is planned.
LEMMA AwaitEffects ==
  ASSUME ReleaseTypeOK, sideEffectsStarted => EffectPlanned, NEW kind \in Kind,
         plan.commands[kind] > 0, UNCHANGED plan, Await(kind)
  PROVE  sideEffectsStarted' \in BOOLEAN /\ (sideEffectsStarted' => EffectPlanned')
BY DEF Await, ReleaseTypeOK, EffectPlanned, CausesEffect

\* Going on to the first command from the n-th kind on keeps the invariant.
LEMMA AdvanceKeeps ==
  ASSUME ReleaseTypeOK, NEW n \in 1..4, UNCHANGED plan, Advance(n),
         commandResults' \in [Kind -> Seq(BOOLEAN)], failureStage = "none",
         \A m \in 1..3 : m < n => AllPassed(Kinds[m])',
         \A m \in 1..3 : m >= n => commandResults'[Kinds[m]] = <<>>,
         commandResults'["ROLLBACK"] = <<>>, PastIsOrdered',
         sideEffectsStarted => EffectPlanned
  PROVE  ReleaseInv'
<1>1. Remaining(n) \subseteq 1..3 /\ Remaining(n) = {m \in n..3 : plan.commands[Kinds[m]] > 0}
  BY KindsInOrder DEF Remaining
<1>2. UNCHANGED <<failureStage, rollbackFailed>>
  BY DEF Advance
<1>3. \A m \in 1..3 : plan.commands[Kinds[m]] \in Nat
  BY KindsAreApart, ReleaseTypes
<1>4. ASSUME NEW m \in 1..3, m >= n, plan.commands[Kinds[m]] = 0
      PROVE  AllPassed(Kinds[m])'
  BY <1>4 DEF AllPassed
<1>5. CASE Remaining(n) = {}
  <2>1. stage' = "RELEASED" /\ sideEffectsStarted' = sideEffectsStarted
    BY <1>5 DEF Advance
  <2>2. \A m \in 1..3 : AllPassed(Kinds[m])'
    <3>1. \A m \in 1..3 : m >= n => plan.commands[Kinds[m]] = 0
      BY <1>1, <1>3, <1>5
    <3>2. \A m \in 1..3 : m < n \/ m >= n
      OBVIOUS
    <3>3. QED
      BY <1>4, <3>1, <3>2
  <2>3. ReleaseTypeOK'
    BY <1>2, <2>1 DEF ReleaseTypeOK, ReleaseStatus
  <2>4. StageAgrees'
    BY <2>1, <2>2, KindsInOrder DEF StageAgrees
  <2>5. RollbackAgrees'
    BY <2>1 DEF RollbackAgrees, EffectPlanned
  <2>6. QED
    BY <2>3, <2>4, <2>5 DEF ReleaseInv
<1>6. CASE Remaining(n) # {}
  <2>1. PICK m \in Remaining(n) : (\A k \in Remaining(n) : m <= k) /\ Await(Kinds[m])
    BY <1>6 DEF Advance
  <2>2. m \in 1..3 /\ m >= n /\ plan.commands[Kinds[m]] > 0 /\ Kinds[m] \in Kind
    BY <1>1, KindsAreApart
  <2>3. stage' = Kinds[m] /\ sideEffectsStarted' \in BOOLEAN /\ (sideEffectsStarted' => EffectPlanned')
    BY <2>1, <2>2, AwaitEffects DEF Await
  <2>4. \A k \in 1..3 : k < m => AllPassed(Kinds[k])'
    <3>1. \A k \in 1..3 : k >= n /\ k < m => plan.commands[Kinds[k]] = 0
      BY <1>1, <1>3, <2>1, <2>2
    <3>2. \A k \in 1..3 : k < n \/ k >= n
      OBVIOUS
    <3>3. QED
      BY <1>4, <3>1, <3>2
  <2>5. \A k \in 1..3 : k > m => commandResults'[Kinds[k]] = <<>>
    BY <2>2
  <2>6. Underway(Kinds[m])'
    BY <2>2 DEF Underway
  <2>7. ReleaseTypeOK'
    BY <1>2, <2>2, <2>3 DEF ReleaseTypeOK
  <2>8. StageAgrees'
    <3>1. stage' \notin {"new", "refused", "ROLLBACK", "ROLLED_BACK", "RELEASED"}
      BY <2>2, <2>3, KindsInOrder
    <3>2. \A k \in 1..3 : stage' = Kinds[k] => k = m
      BY <2>2, <2>3, KindsAreApart
    <3>3. QED
      BY <1>2, <2>4, <2>5, <2>6, <3>1, <3>2 DEF StageAgrees
  <2>9. RollbackAgrees'
    BY <2>3 DEF RollbackAgrees
  <2>10. QED
    BY <2>7, <2>8, <2>9 DEF ReleaseInv
<1>7. QED
  BY <1>5, <1>6

\* A failure, and the rollback it may start, keep the invariant.
LEMMA FailKeeps ==
  ASSUME ReleaseTypeOK, NEW failed \in {"MIGRATION", "RELEASE", "HEALTH_CHECK", "SYSTEM"},
         UNCHANGED plan, Fail(failed),
         commandResults' \in [Kind -> Seq(BOOLEAN)], commandResults'["ROLLBACK"] = <<>>,
         PastIsOrdered', sideEffectsStarted => EffectPlanned
  PROVE  ReleaseInv'
<1>1. failureStage' = failed /\ failureStage' # "none" /\ rollbackFailed' = rollbackFailed
  BY DEF Fail
<1>2. plan.commands["ROLLBACK"] \in Nat /\ "ROLLBACK" \in Kind
  BY ReleaseTypes DEF Kind
<1>3. CASE plan.autoRollback /\ sideEffectsStarted /\ plan.commands["ROLLBACK"] > 0
  <2>1. Await("ROLLBACK")
    BY <1>3 DEF Fail
  <2>2. stage' = "ROLLBACK" /\ sideEffectsStarted'
    BY <1>3, <2>1 DEF Await
  <2>3. EffectPlanned'
    BY <1>3 DEF EffectPlanned
  <2>4. Underway("ROLLBACK")'
    BY <1>3 DEF Underway
  <2>5. ReleaseTypeOK'
    <3>1. sideEffectsStarted' \in BOOLEAN
      BY <1>2, <1>3, <2>1, AwaitEffects
    <3>2. QED
      BY <1>1, <1>2, <2>2, <3>1 DEF ReleaseTypeOK
  <2>6. StageAgrees'
    BY <1>1, <2>2, <2>4, KindsInOrder DEF StageAgrees
  <2>7. RollbackAgrees'
    BY <2>3 DEF RollbackAgrees
  <2>8. QED
    BY <2>5, <2>6, <2>7 DEF ReleaseInv
<1>4. CASE ~(plan.autoRollback /\ sideEffectsStarted /\ plan.commands["ROLLBACK"] > 0)
  <2>1. stage' = "FAILED" /\ sideEffectsStarted' = sideEffectsStarted
    BY <1>4 DEF Fail, Finish, RolledBack
  <2>2. ReleaseTypeOK'
    BY <1>1, <2>1 DEF ReleaseTypeOK, ReleaseStatus
  <2>3. StageAgrees'
    BY <2>1, KindsInOrder DEF StageAgrees
  <2>4. RollbackAgrees'
    BY <2>1 DEF RollbackAgrees, EffectPlanned
  <2>5. QED
    BY <2>2, <2>3, <2>4 DEF ReleaseInv
<1>5. QED
  BY <1>3, <1>4

\* What the invariant says while a command of the n-th kind runs.
LEMMA RunningFacts ==
  ASSUME ReleaseInv, NEW n \in 1..3, stage = Kinds[n]
  PROVE  /\ failureStage = "none" /\ Underway(Kinds[n]) /\ Kinds[n] \in Kind
         /\ \A m \in 1..3 : (m < n => AllPassed(Kinds[m])) /\ (m > n => commandResults[Kinds[m]] = <<>>)
         /\ commandResults["ROLLBACK"] = <<>>
         /\ sideEffectsStarted => EffectPlanned
         /\ ReleaseTypeOK /\ PastIsOrdered
<1>1. failureStage = "none"
  BY DEF ReleaseInv, StageAgrees
<1>2. QED
  BY <1>1, KindsAreApart DEF ReleaseInv, StageAgrees, RollbackAgrees

\* What an answer leaves in the results.
LEMMA ToldKeeps ==
  ASSUME ReleaseTypeOK, NEW kind \in Kind, stage = kind, NEW ok \in BOOLEAN, Told(ok)
  PROVE  /\ commandResults' \in [Kind -> Seq(BOOLEAN)]
         /\ \A other \in Kind : other # kind => commandResults'[other] = commandResults[other]
         /\ Len(commandResults'[kind]) = Len(commandResults[kind]) + 1
         /\ commandResults'[kind][Len(commandResults[kind]) + 1] = ok
         /\ \A k \in 1..Len(commandResults[kind]) : commandResults'[kind][k] = commandResults[kind][k]
<1>1. commandResults[kind] \in Seq(BOOLEAN) /\ commandResults \in [Kind -> Seq(BOOLEAN)]
  BY DEF ReleaseTypeOK
<1>2. Append(commandResults[kind], ok) \in Seq(BOOLEAN)
  BY <1>1
<1>3. commandResults' = [commandResults EXCEPT ![kind] = Append(commandResults[kind], ok)]
  BY DEF Told
<1>4. commandResults'[kind] = Append(commandResults[kind], ok)
  BY <1>1, <1>3
<1>5. commandResults' \in [Kind -> Seq(BOOLEAN)]
  BY <1>1, <1>2, <1>3
<1>6. QED
  BY <1>1, <1>3, <1>4, <1>5

\* After a good answer of an underway kind, all its answers are good.
LEMMA GoodAnswers ==
  ASSUME ReleaseTypeOK, NEW kind \in Kind, stage = kind, NEW ok \in BOOLEAN, Told(ok), Underway(kind)
  PROVE  /\ Len(commandResults'[kind]) <= plan.commands[kind]
         /\ commandResults'[kind] # <<>>
         /\ \A k \in 1..MaxCommands : k < Len(commandResults'[kind]) => commandResults'[kind][k]
         /\ ok => \A k \in DOMAIN commandResults'[kind] : commandResults'[kind][k]
<1>1. /\ Len(commandResults[kind]) \in Nat /\ plan.commands[kind] \in Nat
      /\ commandResults[kind] \in Seq(BOOLEAN)
  BY ReleaseTypes
<1>2. DOMAIN commandResults[kind] = 1..Len(commandResults[kind])
  BY <1>1
<1>3. commandResults'[kind] \in Seq(BOOLEAN)
  BY ToldKeeps
<1>4. \A k \in 1..Len(commandResults[kind]) : commandResults'[kind][k]
  BY <1>2, ToldKeeps DEF Underway
<1>5. Len(commandResults'[kind]) = Len(commandResults[kind]) + 1
  BY ToldKeeps
<1>6. DOMAIN commandResults'[kind] = 1..(Len(commandResults[kind]) + 1)
  BY <1>3, <1>5
<1>7. ok => \A k \in DOMAIN commandResults'[kind] : commandResults'[kind][k]
  <2>1. \A k \in 1..(Len(commandResults[kind]) + 1) :
          k \in 1..Len(commandResults[kind]) \/ k = Len(commandResults[kind]) + 1
    BY <1>1
  <2>2. QED
    BY <1>4, <1>6, <2>1, ToldKeeps
<1>8. \A k \in 1..MaxCommands : k < Len(commandResults'[kind]) => commandResults'[kind][k]
  <2>1. \A k \in 1..MaxCommands : k < Len(commandResults[kind]) + 1 => k \in 1..Len(commandResults[kind])
    BY <1>1, MaxCommandsAssumption
  <2>2. QED
    BY <1>4, <1>5, <2>1
<1>9. commandResults'[kind] # <<>> /\ Len(commandResults'[kind]) <= plan.commands[kind]
  BY <1>1, <1>3, <1>5 DEF Underway
<1>10. QED
  BY <1>7, <1>8, <1>9

\* The end of a command keeps the invariant.
LEMMA CommandKeeps ==
  ASSUME ReleaseInv, NEW n \in 1..3, NEW ok \in BOOLEAN, CommandEnds(n, ok)
  PROVE  ReleaseInv'
<1> DEFINE kind == Kinds[n]
<1>1. stage = kind /\ Told(ok) /\ UNCHANGED plan
  BY DEF CommandEnds
<1>2. /\ failureStage = "none" /\ Underway(kind) /\ kind \in Kind
      /\ \A m \in 1..3 : (m < n => AllPassed(Kinds[m])) /\ (m > n => commandResults[Kinds[m]] = <<>>)
      /\ commandResults["ROLLBACK"] = <<>> /\ (sideEffectsStarted => EffectPlanned)
      /\ ReleaseTypeOK /\ PastIsOrdered
  BY <1>1, RunningFacts
<1>3. \A m \in 1..3 : m # n => Kinds[m] # kind /\ commandResults'[Kinds[m]] = commandResults[Kinds[m]]
  BY <1>1, <1>2, ToldKeeps, KindsAreApart
<1>4. "ROLLBACK" \in Kind /\ kind # "ROLLBACK" /\ kind \in {"MIGRATION", "RELEASE", "HEALTH_CHECK", "SYSTEM"}
  BY KindsAreApart DEF Kind
<1>5. commandResults' \in [Kind -> Seq(BOOLEAN)] /\ commandResults'["ROLLBACK"] = <<>>
  BY <1>1, <1>2, <1>4, ToldKeeps
<1>6. /\ Len(commandResults'[kind]) <= plan.commands[kind] /\ commandResults'[kind] # <<>>
      /\ \A k \in 1..MaxCommands : k < Len(commandResults'[kind]) => commandResults'[kind][k]
      /\ ok => \A k \in DOMAIN commandResults'[kind] : commandResults'[kind][k]
  BY <1>1, <1>2, GoodAnswers
<1>7. \A m \in 1..3 : m < n => AllPassed(Kinds[m])'
  <2>1. \A m \in 1..3 : m < n => m # n
    OBVIOUS
  <2>2. QED
    BY <1>1, <1>2, <1>3, <2>1 DEF AllPassed
<1>8. \A m \in 1..3 : m > n => commandResults'[Kinds[m]] = <<>>
  BY <1>2, <1>3
<1>9. PastIsOrdered'
  <2>1. \A l, m \in 1..3 : l < m /\ commandResults'[Kinds[m]] # <<>> => AllPassed(Kinds[l])'
    <3>1. SUFFICES ASSUME NEW l \in 1..3, NEW m \in 1..3, l < m, commandResults'[Kinds[m]] # <<>>
                   PROVE  AllPassed(Kinds[l])'
      OBVIOUS
    <3>2. m <= n
      BY <1>8, <3>1
    <3>3. QED
      BY <1>7, <3>1, <3>2
  <2>2. \A m \in 1..3 : \A k \in 1..MaxCommands :
          k < Len(commandResults'[Kinds[m]]) => commandResults'[Kinds[m]][k]
    BY <1>2, <1>3, <1>6 DEF PastIsOrdered
  <2>3. QED
    BY <2>1, <2>2 DEF PastIsOrdered
<1>10. IF GoesOn(n, ok) THEN UNCHANGED <<stage, sideEffectsStarted, failureStage, rollbackFailed>>
       ELSE IF ok THEN Advance(n + 1) ELSE Fail(kind)
  BY DEF CommandEnds
<1> HIDE DEF kind
<1>11. CASE GoesOn(n, ok)
  <2>1. UNCHANGED <<stage, sideEffectsStarted, failureStage, rollbackFailed>>
    BY <1>10, <1>11
  <2>2. ReleaseTypeOK'
    BY <1>1, <1>2, <1>5, <2>1 DEF ReleaseTypeOK
  <2>3. Underway(kind)'
    BY <1>1, <1>6, <1>11 DEF GoesOn, Underway, kind
  <2>4. StageAgrees'
    <3>1. \A m \in 1..3 : stage' = Kinds[m] => m = n
      BY <1>1, <2>1, KindsAreApart DEF kind
    <3>2. stage' \notin {"new", "refused", "ROLLBACK", "ROLLED_BACK", "RELEASED"}
      BY <1>1, <2>1, KindsInOrder DEF kind
    <3>3. \A m \in 1..3 : stage' = Kinds[m] =>
            /\ failureStage' = "none" /\ Underway(Kinds[m])'
            /\ \A l \in 1..3 : (l < m => AllPassed(Kinds[l])') /\
                               (l > m => commandResults'[Kinds[l]] = <<>>)
      BY <1>2, <1>7, <1>8, <2>1, <2>3, <3>1 DEF kind
    <3>4. QED
      BY <3>2, <3>3 DEF StageAgrees
  <2>5. RollbackAgrees'
    BY <1>1, <1>2, <1>5, <2>1 DEF RollbackAgrees, EffectPlanned
  <2>6. QED
    BY <1>9, <2>2, <2>4, <2>5 DEF ReleaseInv
<1>12. CASE ~GoesOn(n, ok) /\ ok
  <2>1. Advance(n + 1) /\ n + 1 \in 1..4
    BY <1>10, <1>12
  <2>2. AllPassed(kind)'
    <3>1. plan.commands[kind] \in Nat
      BY <1>2, ReleaseTypes
    <3>2. commandResults'[kind] \in Seq(BOOLEAN)
      BY <1>2, <1>5
    <3>3. Len(commandResults'[kind]) = plan.commands[kind]
      BY <1>6, <1>12, <3>1, <3>2 DEF GoesOn, kind
    <3>4. QED
      BY <1>1, <1>6, <1>12, <3>3 DEF AllPassed
  <2>3. \A m \in 1..3 : m < n + 1 => AllPassed(Kinds[m])'
    <3>1. \A m \in 1..3 : m < n + 1 => m < n \/ m = n
      OBVIOUS
    <3>2. QED
      BY <1>7, <2>2, <3>1 DEF kind
  <2>4. \A m \in 1..3 : m >= n + 1 => commandResults'[Kinds[m]] = <<>>
    BY <1>8
  <2>5. QED
    BY <1>1, <1>2, <1>5, <1>9, <2>1, <2>3, <2>4, AdvanceKeeps
<1>13. CASE ~GoesOn(n, ok) /\ ~ok
  <2>1. Fail(kind)
    BY <1>10, <1>13
  <2>2. QED
    BY <1>1, <1>2, <1>4, <1>5, <1>9, <2>1, FailKeeps DEF kind
<1>14. QED
  BY <1>11, <1>12, <1>13

\* The end of a rollback command keeps the invariant.
LEMMA RollbackKeeps ==
  ASSUME ReleaseInv, NEW ok \in BOOLEAN, RollbackEnds(ok)
  PROVE  ReleaseInv'
<1>1. stage = "ROLLBACK" /\ Told(ok) /\ UNCHANGED <<plan, sideEffectsStarted, failureStage>>
      /\ rollbackFailed' = ~ok
  BY DEF RollbackEnds
<1>2. ReleaseTypeOK /\ Underway("ROLLBACK") /\ failureStage # "none" /\ sideEffectsStarted /\ EffectPlanned
  BY <1>1 DEF ReleaseInv, StageAgrees, RollbackAgrees
<1>3. "ROLLBACK" \in Kind
  BY DEF Kind
<1>4. \A m \in 1..3 : commandResults'[Kinds[m]] = commandResults[Kinds[m]]
  BY <1>1, <1>2, <1>3, ToldKeeps, KindsAreApart
<1>5. commandResults' \in [Kind -> Seq(BOOLEAN)]
  BY <1>1, <1>2, <1>3, ToldKeeps
<1>6. PastIsOrdered'
  BY <1>1, <1>4 DEF ReleaseInv, PastIsOrdered, AllPassed
<1>7. RollbackAgrees'
  BY <1>1, <1>2 DEF RollbackAgrees, EffectPlanned
<1>8. /\ Len(commandResults'["ROLLBACK"]) <= plan.commands["ROLLBACK"]
      /\ commandResults'["ROLLBACK"] # <<>>
      /\ ok => \A k \in DOMAIN commandResults'["ROLLBACK"] : commandResults'["ROLLBACK"][k]
  BY <1>1, <1>2, <1>3, GoodAnswers
<1>9. CASE ok /\ Len(commandResults'["ROLLBACK"]) < plan.commands["ROLLBACK"]
  <2>1. stage' = "ROLLBACK"
    BY <1>1, <1>9 DEF RollbackEnds
  <2>2. Underway("ROLLBACK")'
    BY <1>1, <1>8, <1>9 DEF Underway
  <2>3. ReleaseTypeOK'
    BY <1>1, <1>2, <1>3, <1>5, <2>1 DEF ReleaseTypeOK
  <2>4. StageAgrees'
    BY <1>1, <1>2, <2>1, <2>2, KindsAreApart DEF StageAgrees
  <2>5. QED
    BY <1>6, <1>7, <2>3, <2>4 DEF ReleaseInv
<1>10. CASE ~(ok /\ Len(commandResults'["ROLLBACK"]) < plan.commands["ROLLBACK"])
  <2>1. Finish(~ok)
    BY <1>10 DEF RollbackEnds
  <2>2. stage' \in {"FAILED", "ROLLED_BACK"}
    BY <2>1 DEF Finish
  <2>3. stage' = "ROLLED_BACK" => ok /\ plan.commands["ROLLBACK"] > 0
    BY <2>1 DEF Finish, RolledBack
  <2>4. stage' = "ROLLED_BACK" => AllPassed("ROLLBACK")'
    <3>1. SUFFICES ASSUME stage' = "ROLLED_BACK" PROVE AllPassed("ROLLBACK")'
      OBVIOUS
    <3>2. Len(commandResults'["ROLLBACK"]) \in Nat /\ plan.commands["ROLLBACK"] \in Nat
      BY <1>2, <1>3, <1>5, ReleaseTypes
    <3>3. Len(commandResults'["ROLLBACK"]) = plan.commands["ROLLBACK"]
      BY <1>8, <1>10, <2>3, <3>1, <3>2
    <3>4. QED
      BY <1>1, <1>8, <2>3, <3>1, <3>3 DEF AllPassed
  <2>5. ReleaseTypeOK'
    BY <1>1, <1>2, <1>5, <2>2 DEF ReleaseTypeOK, ReleaseStatus
  <2>6. StageAgrees'
    BY <1>1, <2>2, <2>3, <2>4, KindsInOrder DEF StageAgrees
  <2>7. QED
    BY <1>6, <1>7, <2>5, <2>6 DEF ReleaseInv
<1>11. QED
  BY <1>9, <1>10

\* Every step of the release keeps the invariant.
LEMMA ReleaseStep == ReleaseInv /\ [ReleaseNext]_releaseVars => ReleaseInv'
<1> SUFFICES ASSUME ReleaseInv, [ReleaseNext]_releaseVars
             PROVE  ReleaseInv'
  OBVIOUS
<1>1. ReleaseTypeOK /\ PastIsOrdered /\ (sideEffectsStarted => EffectPlanned)
  BY DEF ReleaseInv, RollbackAgrees
<1>2. CASE Refuse
  <2>1. stage = "new" /\ stage' = "refused"
        /\ UNCHANGED <<plan, commandResults, sideEffectsStarted, failureStage, rollbackFailed>>
    BY <1>2 DEF Refuse
  <2>2. ReleaseTypeOK' /\ PastIsOrdered' /\ RollbackAgrees'
    BY <2>1 DEF ReleaseInv, ReleaseTypeOK, PastIsOrdered, AllPassed, RollbackAgrees, EffectPlanned
  <2>3. StageAgrees'
    BY <2>1, KindsInOrder DEF ReleaseInv, StageAgrees
  <2>4. QED
    BY <2>2, <2>3 DEF ReleaseInv
<1>3. CASE Begin
  <2>1. stage = "new" /\ Advance(1) /\ UNCHANGED <<plan, commandResults>>
    BY <1>3 DEF Begin
  <2>2. failureStage = "none" /\ \A kind \in Kind : commandResults[kind] = <<>>
    BY <2>1 DEF ReleaseInv, StageAgrees
  <2>3. commandResults'["ROLLBACK"] = <<>> /\ \A m \in 1..3 : commandResults'[Kinds[m]] = <<>>
    BY <2>1, <2>2, KindsAreApart DEF Kind
  <2>4. commandResults' \in [Kind -> Seq(BOOLEAN)] /\ PastIsOrdered'
    BY <1>1, <2>1 DEF ReleaseTypeOK, PastIsOrdered, AllPassed
  <2>5. 1 \in 1..4 /\ \A m \in 1..3 : ~(m < 1)
    OBVIOUS
  <2>6. QED
    BY <1>1, <2>1, <2>2, <2>3, <2>4, <2>5, AdvanceKeeps
<1>4. ASSUME NEW n \in DOMAIN Kinds, CommandThrows(n)
      PROVE  ReleaseInv'
  <2>1. n \in 1..3 /\ stage = Kinds[n] /\ Fail("SYSTEM") /\ UNCHANGED <<plan, commandResults>>
    BY <1>4, KindsInOrder DEF CommandThrows
  <2>2. commandResults["ROLLBACK"] = <<>>
    BY <2>1, RunningFacts
  <2>3. commandResults' \in [Kind -> Seq(BOOLEAN)] /\ PastIsOrdered'
    BY <1>1, <2>1 DEF ReleaseTypeOK, PastIsOrdered, AllPassed
  <2>4. QED
    BY <1>1, <2>1, <2>2, <2>3, FailKeeps
<1>5. ASSUME NEW n \in DOMAIN Kinds, NEW ok \in BOOLEAN, CommandEnds(n, ok)
      PROVE  ReleaseInv'
  BY <1>5, CommandKeeps, KindsInOrder
<1>6. CASE RollbackThrows
  <2>1. /\ rollbackFailed' = TRUE /\ Finish(TRUE)
        /\ UNCHANGED <<plan, commandResults, sideEffectsStarted, failureStage>>
    BY <1>6 DEF RollbackThrows
  <2>2. stage' = "FAILED"
    BY <2>1 DEF Finish, RolledBack
  <2>3. ReleaseTypeOK' /\ PastIsOrdered' /\ RollbackAgrees'
    BY <2>1, <2>2 DEF ReleaseInv, ReleaseTypeOK, ReleaseStatus, PastIsOrdered, AllPassed,
                      RollbackAgrees, EffectPlanned
  <2>4. StageAgrees'
    BY <2>2, KindsInOrder DEF StageAgrees
  <2>5. QED
    BY <2>3, <2>4 DEF ReleaseInv
<1>7. ASSUME NEW ok \in BOOLEAN, RollbackEnds(ok)
      PROVE  ReleaseInv'
  BY <1>7, RollbackKeeps
<1>8. CASE UNCHANGED releaseVars
  BY <1>8 DEF releaseVars, ReleaseInv, ReleaseTypeOK, PastIsOrdered, StageAgrees, RollbackAgrees,
              AllPassed, Underway, EffectPlanned
<1>9. QED
  BY <1>2, <1>3, <1>4, <1>5, <1>6, <1>7, <1>8 DEF ReleaseNext

\* Nothing has run.
LEMMA ReleaseStart == ReleaseInit => ReleaseInv
<1> SUFFICES ASSUME ReleaseInit
             PROVE  ReleaseInv
  OBVIOUS
<1>1. /\ stage = "new" /\ failureStage = "none" /\ ~sideEffectsStarted
      /\ \A kind \in Kind : commandResults[kind] = <<>>
  BY DEF ReleaseInit
<1>2. ReleaseTypeOK
  <2>1. commandResults \in [Kind -> Seq(BOOLEAN)]
    BY DEF ReleaseInit
  <2>2. plan \in [commands : [Kind -> 0..MaxCommands], autoRollback : BOOLEAN]
    BY DEF ReleaseInit
  <2>3. sideEffectsStarted \in BOOLEAN /\ rollbackFailed \in BOOLEAN
    BY DEF ReleaseInit
  <2>4. QED
    BY <1>1, <2>1, <2>2, <2>3 DEF ReleaseTypeOK
<1>3. \A n \in 1..3 : Kinds[n] # "new" /\ commandResults[Kinds[n]] = <<>>
  BY <1>1, KindsInOrder, KindsAreApart
<1>4. PastIsOrdered
  BY <1>3, MaxCommandsAssumption DEF PastIsOrdered
<1>5. StageAgrees /\ RollbackAgrees
  BY <1>1, <1>3 DEF StageAgrees, RollbackAgrees, Kind
<1>6. QED
  BY <1>2, <1>4, <1>5 DEF ReleaseInv

\* For every plan of commands and every way they end, nothing runs past a
\* failure, and a release that says it was rolled back was.
THEOREM ReleaseSound == ReleaseSpec => []ReleaseTypeOK /\ []NothingPastFailure /\ []RollbackIsTrue
<1>1. ReleaseInv => ReleaseTypeOK
  BY DEF ReleaseInv
<1>2. QED
  BY <1>1, ReleaseInvImplies, ReleaseStart, ReleaseStep, PTL DEF ReleaseSpec

------------------------------------------------------------------------------

\* A round goes on in a phase that has one after it, within the bound, and with
\* tasks of its own.
RoundUnderway ==
  at # "idle" => codePhase \in DOMAIN LaterPhase /\ round < MaxDeliveries /\ left \subseteq CodingTasks

\* Only the tasks of the round have worktrees, commits or merges.
OthersHaveNothing ==
  /\ \A a \in Coder \ CodingTasks : tree[a] = NoWorktree
  /\ \A a \in Coder : tree[a] = NoWorktree => committed[a] = Unchanged /\ base[a] = Unchanged

\* The tasks that are past preparation,
ReadyTasks ==
  CASE at = "prepare"                      -> CodingTasks \ left
    [] at \in {"work", "integrate", "copy"} -> CodingTasks
    [] OTHER                               -> {}

\* have a worktree, with what the main tree had if it was loaded and is not
\* copied back yet.
ReadyTreesAreLoaded ==
  \A a \in ReadyTasks :
    /\ tree[a] # NoWorktree
    /\ ShouldPreload =>
         \A f \in File : (at = "copy" => f \in files[a]) => root[f] \subseteq tree[a][f]

\* A collected file is of one task,
CollectedAreApart ==
  /\ \A a, b \in Coder : a # b => files[a] \cap files[b] = {}
  /\ at \in {"prepare", "work"} => \A a \in Coder : files[a] = {}
  /\ at \in {"integrate", "copy"} => \A a \in Coder : files[a] # {} => a \in CodingTasks

\* and merged when its task was integrated and no task failed.
CollectedAreMerged ==
  /\ at \in {"integrate", "copy"} /\ verdict = "clean" =>
       \A a \in Coder \ left : files[a] # {} => base[a] = tree[a]
  /\ at = "copy" => left = {} /\ verdict = "clean"

\* What was merged from a worktree that still exists is on the branch.
MergedIsOnBranch == \A a \in Coder, f \in File : base[a][f] \subseteq branch[f]

Several == \E a, b \in CodingTasks : a # b

\* Where two worktrees could undo one another's merges, no worktree has less than
\* what was committed in it, and no commit less than what was merged of it.
NothingIsUndone ==
  ~ShouldPreload \/ Several =>
    \A a \in Coder, f \in File : tree[a] # NoWorktree =>
      base[a][f] \subseteq committed[a][f] /\ committed[a][f] \subseteq tree[a][f]

\* The round has begun to integrate, now or in an attempt before.
Begun == at \in {"integrate", "copy"} \/ \E a \in Coder : committed[a] # Unchanged

\* Several worktrees that were loaded with code of earlier rounds clash in it: if
\* they begin to integrate, the main tree had none, and all there is to load in
\* a later attempt is of this round.
LoadedTreesClash ==
  ShouldPreload /\ Several =>
    /\ Begun => \A f \in File : root[f] \subseteq {round}
    /\ \A a \in Coder, f \in File : tree[a] # NoWorktree => tree[a][f] \subseteq root[f] \cup {round}

\* The inductive invariant of code delivery.
DeliveryInv ==
  /\ DeliveryTypeOK /\ RootIsIntegrated
  /\ RoundUnderway /\ OthersHaveNothing /\ ReadyTreesAreLoaded
  /\ CollectedAreApart /\ CollectedAreMerged /\ MergedIsOnBranch
  /\ NothingIsUndone /\ LoadedTreesClash


\* The tasks of a round are coders, and are the same all through it.
LEMMA CodersAtWork == DeliveryTypeOK => CodingTasks \subseteq Coder
BY DEF DeliveryTypeOK, CodingTasks, Coder

\* A step that leaves the tasks alone leaves all that is made of them.
LEMMA SameRound ==
  ASSUME UNCHANGED taskVars
  PROVE  /\ CodingTasks' = CodingTasks /\ ShouldPreload' = ShouldPreload /\ Several' = Several
         /\ codePhase' = codePhase /\ due' = due /\ owners' = owners /\ round' = round
BY DEF taskVars, CodingTasks, ShouldPreload, Several

\* A file that nobody edited is in the work tree as HEAD has it.
LEMMA UnchangedType == Unchanged \in Content /\ \A f \in File : Unchanged[f] = {}
BY DEF Unchanged, Content

\* A loaded worktree has the edited files of the main tree and HEAD in the others.
LEMMA PreloadedType ==
  ASSUME DeliveryTypeOK, NEW content \in Content
  PROVE  /\ Preloaded(content) \in Content /\ Preloaded(content) # NoWorktree
         /\ \A f \in File :
              Preloaded(content)[f] = IF ShouldPreload /\ root[f] # {} THEN root[f] ELSE content[f]
<1>1. Preloaded(content) \in Content
  BY DEF DeliveryTypeOK, Preloaded, Content
<1> QED BY <1>1, DeliveryAssumption DEF Preloaded

\* The end of a round keeps the invariant: it forgets all worktrees.
LEMMA EndRoundKeeps ==
  ASSUME DeliveryInv, at # "idle", EndRound, IsSentBack \/ Advances, UNCHANGED <<root, branch>>
  PROVE  DeliveryInv'
<1> USE DEF DeliveryInv, EndRound, FreshRound
<1>1. DeliveryTypeOK'
  BY DeliveryAssumption DEF DeliveryTypeOK, IsSentBack, Advances, RoundUnderway, LaterPhase,
     Coder, Content, Unchanged
<1>2. /\ RoundUnderway' /\ OthersHaveNothing' /\ ReadyTreesAreLoaded' /\ CollectedAreApart'
      /\ CollectedAreMerged'
  BY DEF RoundUnderway, OthersHaveNothing, ReadyTreesAreLoaded, ReadyTasks, CollectedAreApart,
     CollectedAreMerged
<1>3. RootIsIntegrated' /\ MergedIsOnBranch'
  BY DEF RootIsIntegrated, MergedIsOnBranch, Unchanged
<1>4. NothingIsUndone' /\ LoadedTreesClash'
  BY DEF NothingIsUndone, LoadedTreesClash, Begun
<1> QED BY <1>1, <1>2, <1>3, <1>4

\* Every step of a round, and every round cut short, preserves it.
LEMMA DeliveryStep == DeliveryInv /\ [DeliveryNext]_deliveryVars => DeliveryInv'
<1> SUFFICES ASSUME DeliveryInv, [DeliveryNext]_deliveryVars
             PROVE  DeliveryInv'
  OBVIOUS
<1> USE DeliveryAssumption DEF DeliveryInv
<1>0. CodingTasks \subseteq Coder
  BY CodersAtWork
<1>1. CASE Launch
  <2>0. UNCHANGED taskVars
    BY <1>1 DEF Launch
  <2> USE SameRound, <2>0
  <2>1. DeliveryTypeOK'
    BY <1>0, <1>1 DEF Launch, workVars, DeliveryTypeOK, Content, Unchanged
  <2>2. RootIsIntegrated'
    BY <1>0, <1>1 DEF Launch, workVars, RootIsIntegrated, DeliveryTypeOK, Content
  <2>3. RoundUnderway'
    BY <1>0, <1>1 DEF Launch, workVars, RoundUnderway, DeliveryTypeOK, Content
  <2>4. OthersHaveNothing'
    BY <1>0, <1>1 DEF Launch, workVars, OthersHaveNothing, DeliveryTypeOK, Content
  <2>5. ReadyTreesAreLoaded'
    BY <1>0, <1>1 DEF Launch, workVars, ReadyTreesAreLoaded, ReadyTasks, CollectedAreApart,
       DeliveryTypeOK, Content
  <2>6. CollectedAreApart'
    BY <1>0, <1>1 DEF Launch, workVars, CollectedAreApart, DeliveryTypeOK, Content
  <2>7. CollectedAreMerged'
    BY <1>0, <1>1 DEF Launch, workVars, CollectedAreMerged, CollectedAreApart, DeliveryTypeOK,
       Content
  <2>8. MergedIsOnBranch'
    BY <1>0, <1>1 DEF Launch, workVars, MergedIsOnBranch, NothingIsUndone, OthersHaveNothing,
       DeliveryTypeOK, Content
  <2>9. NothingIsUndone'
    BY <1>0, <1>1 DEF Launch, workVars, NothingIsUndone, OthersHaveNothing, DeliveryTypeOK,
       Content
  <2>10. LoadedTreesClash'
    BY <1>0, <1>1 DEF Launch, workVars, LoadedTreesClash, Begun, ReadyTreesAreLoaded,
       ReadyTasks, DeliveryTypeOK, Content
  <2> QED BY <2>1, <2>2, <2>3, <2>4, <2>5, <2>6, <2>7, <2>8, <2>9, <2>10
<1>2. ASSUME NEW a \in Coder, Prepare(a) PROVE DeliveryInv'
  <2>0. UNCHANGED taskVars
    BY <1>2 DEF Prepare
  <2> USE SameRound, <2>0
  <2>a. a \in left /\ at = "prepare" /\ left' = left \ {a} /\ tree[a] \in Content \cup {NoWorktree}
    BY <1>2 DEF Prepare, DeliveryTypeOK
  <2>b. UNCHANGED <<codePhase, due, owners, round, at, root, branch, files, verdict, failures>>
    BY <1>2 DEF Prepare, taskVars
  <2>c. PICK old \in Content :
          /\ tree' = [tree EXCEPT ![a] = Preloaded(old)]
          /\ \/ /\ old = Unchanged
                /\ committed' = [committed EXCEPT ![a] = Unchanged]
                /\ base' = [base EXCEPT ![a] = Unchanged]
             \/ /\ old = tree[a] /\ tree[a] # NoWorktree
                /\ UNCHANGED <<committed, base>>
    BY <1>2, <2>a, UnchangedType DEF Prepare
  <2>d. /\ Preloaded(old) \in Content /\ Preloaded(old) # NoWorktree
        /\ \A f \in File : Preloaded(old)[f] = IF ShouldPreload /\ root[f] # {} THEN root[f] ELSE old[f]
    BY PreloadedType
  <2>e. /\ tree'[a] = Preloaded(old) /\ \A b \in Coder : b # a => tree'[b] = tree[b]
        /\ \A b \in Coder : b # a => committed'[b] = committed[b] /\ base'[b] = base[b]
        /\ \/ committed'[a] = Unchanged /\ base'[a] = Unchanged /\ old = Unchanged
           \/ committed'[a] = committed[a] /\ base'[a] = base[a] /\ old = tree[a] /\ tree[a] # NoWorktree
    BY <2>c DEF DeliveryTypeOK
  <2> HIDE DEF DeliveryInv
  <2>1. DeliveryTypeOK'
    BY <1>0, <2>a, <2>b, <2>c, <2>d, <2>e, UnchangedType DEF DeliveryInv, DeliveryTypeOK
  <2>2. RootIsIntegrated'
    BY <1>0, <2>a, <2>b, <2>c, <2>d, <2>e, UnchangedType DEF DeliveryInv, RootIsIntegrated
  <2>3. RoundUnderway'
    BY <1>0, <2>a, <2>b, <2>c, <2>d, <2>e, UnchangedType DEF DeliveryInv, RoundUnderway
  <2>4. OthersHaveNothing'
    BY <1>0, <2>a, <2>b, <2>c, <2>d, <2>e, UnchangedType DEF DeliveryInv, OthersHaveNothing,
       RoundUnderway
  <2>5. ReadyTreesAreLoaded'
    <3> SUFFICES ASSUME NEW b \in ReadyTasks'
                 PROVE  tree'[b] # NoWorktree /\ (ShouldPreload => \A f \in File : root[f] \subseteq tree'[b][f])
      BY <2>a, <2>b DEF ReadyTreesAreLoaded
    <3>1. b = a \/ (b \in ReadyTasks /\ b # a)
      BY <2>a, <2>b DEF ReadyTasks
    <3>2. CASE b = a
      BY <3>2, <2>d, <2>e
    <3>3. CASE b \in ReadyTasks /\ b # a
      <4>1. b \in Coder
        BY <3>3, <2>a, <1>0 DEF ReadyTasks
      <4> QED BY <3>3, <4>1, <2>a, <2>e DEF DeliveryInv, ReadyTreesAreLoaded
    <3> QED BY <3>1, <3>2, <3>3
  <2>6. CollectedAreApart'
    BY <1>0, <2>a, <2>b, <2>c, <2>d, <2>e, UnchangedType DEF DeliveryInv, CollectedAreApart
  <2>7. CollectedAreMerged'
    BY <1>0, <2>a, <2>b, <2>c, <2>d, <2>e, UnchangedType DEF DeliveryInv, CollectedAreMerged
  <2>8. MergedIsOnBranch'
    BY <1>0, <2>a, <2>b, <2>c, <2>d, <2>e, UnchangedType DEF DeliveryInv, MergedIsOnBranch
  <2>9. NothingIsUndone'
    <3> SUFFICES ASSUME ~ShouldPreload \/ Several, NEW b \in Coder, NEW f \in File, tree'[b] # NoWorktree
                 PROVE  base'[b][f] \subseteq committed'[b][f] /\ committed'[b][f] \subseteq tree'[b][f]
      BY DEF NothingIsUndone
    <3>1. CASE b # a
      BY <3>1, <2>e DEF DeliveryInv, NothingIsUndone
    <3>2. CASE b = a /\ committed'[a] = Unchanged /\ base'[a] = Unchanged
      BY <3>2, UnchangedType
    <3>3. CASE b = a /\ committed'[a] = committed[a] /\ base'[a] = base[a] /\ old = tree[a] /\ tree[a] # NoWorktree
      <4>1. base[a][f] \subseteq committed[a][f] /\ committed[a][f] \subseteq tree[a][f]
        BY <3>3 DEF DeliveryInv, NothingIsUndone
      <4>2. CASE ShouldPreload /\ root[f] # {} /\ committed[a] # Unchanged
        <5>1. Several /\ Begun
          BY <4>2 DEF Begun
        <5>2. root[f] \subseteq {round} /\ tree[a][f] \subseteq root[f] \cup {round}
          BY <5>1, <4>2, <3>3 DEF DeliveryInv, LoadedTreesClash
        <5> QED BY <4>1, <4>2, <5>2, <2>d, <2>e, <3>3
      <4>3. CASE committed[a] = Unchanged
        BY <4>1, <4>3, <3>3, UnchangedType
      <4>4. CASE ~(ShouldPreload /\ root[f] # {})
        BY <4>1, <4>4, <3>3, <2>d, <2>e
      <4> QED BY <4>2, <4>3, <4>4
    <3> QED BY <3>1, <3>2, <3>3, <2>e
  <2>10. LoadedTreesClash'
    <3> SUFFICES ASSUME ShouldPreload, Several
                 PROVE  /\ Begun' => \A f \in File : root[f] \subseteq {round}
                        /\ \A b \in Coder, f \in File :
                             tree'[b] # NoWorktree => tree'[b][f] \subseteq root[f] \cup {round}
      BY <2>b DEF LoadedTreesClash
    <3>1. Begun' => Begun
      BY <2>a, <2>b, <2>e DEF Begun
    <3>2. \A b \in Coder, f \in File : tree[b] # NoWorktree => tree[b][f] \subseteq root[f] \cup {round}
      BY DEF DeliveryInv, LoadedTreesClash
    <3>3. \A f \in File : tree'[a][f] \subseteq root[f] \cup {round}
      BY <2>d, <2>e, <3>2, UnchangedType
    <3> QED BY <3>1, <3>2, <3>3, <2>e DEF DeliveryInv, LoadedTreesClash
  <2> QED BY <2>1, <2>2, <2>3, <2>4, <2>5, <2>6, <2>7, <2>8, <2>9, <2>10 DEF DeliveryInv
<1>3. CASE Prepared
  <2>0. UNCHANGED taskVars
    BY <1>3 DEF Prepared
  <2> USE SameRound, <2>0
  <2>1. DeliveryTypeOK'
    BY <1>0, <1>3 DEF Prepared, workVars, DeliveryTypeOK, Content, Unchanged
  <2>2. RootIsIntegrated'
    BY <1>0, <1>3 DEF Prepared, workVars, RootIsIntegrated, DeliveryTypeOK, Content
  <2>3. RoundUnderway'
    BY <1>0, <1>3 DEF Prepared, workVars, RoundUnderway, DeliveryTypeOK, Content
  <2>4. OthersHaveNothing'
    BY <1>0, <1>3 DEF Prepared, workVars, OthersHaveNothing, DeliveryTypeOK, Content
  <2>5. ReadyTreesAreLoaded'
    BY <1>0, <1>3 DEF Prepared, workVars, ReadyTreesAreLoaded, ReadyTasks, CollectedAreApart,
       DeliveryTypeOK, Content
  <2>6. CollectedAreApart'
    BY <1>0, <1>3 DEF Prepared, workVars, CollectedAreApart, DeliveryTypeOK, Content
  <2>7. CollectedAreMerged'
    BY <1>0, <1>3 DEF Prepared, workVars, CollectedAreMerged, CollectedAreApart, DeliveryTypeOK,
       Content
  <2>8. MergedIsOnBranch'
    BY <1>0, <1>3 DEF Prepared, workVars, MergedIsOnBranch, NothingIsUndone, OthersHaveNothing,
       DeliveryTypeOK, Content
  <2>9. NothingIsUndone'
    BY <1>0, <1>3 DEF Prepared, workVars, NothingIsUndone, OthersHaveNothing, DeliveryTypeOK,
       Content
  <2>10. LoadedTreesClash'
    BY <1>0, <1>3 DEF Prepared, workVars, LoadedTreesClash, Begun, ReadyTreesAreLoaded,
       ReadyTasks, DeliveryTypeOK, Content
  <2> QED BY <2>1, <2>2, <2>3, <2>4, <2>5, <2>6, <2>7, <2>8, <2>9, <2>10
<1>4. ASSUME NEW a \in Coder, NEW f \in File, Work(a, f) PROVE DeliveryInv'
  <2>0. UNCHANGED taskVars
    BY <1>4 DEF Work
  <2> USE SameRound, <2>0
  <2>a. a \in CodingTasks /\ at = "work" /\ tree[a] \in Content
    BY <1>4, <1>0 DEF Work, ReadyTreesAreLoaded, ReadyTasks, DeliveryTypeOK
  <2>b. UNCHANGED <<codePhase, due, owners, round, at, root, branch, committed, base, files, left,
                    verdict, failures>>
    BY <1>4 DEF Work, taskVars
  <2> DEFINE new == [tree[a] EXCEPT ![f] = @ \cup {round}]
  <2>c. tree' = [tree EXCEPT ![a] = new]
    BY <1>4 DEF Work
  <2>d. /\ new \in Content /\ new # NoWorktree
        /\ \A g \in File : tree[a][g] \subseteq new[g] /\ new[g] \subseteq tree[a][g] \cup {round}
    BY <2>a DEF DeliveryTypeOK, Content
  <2>e. tree'[a] = new /\ \A b \in Coder : b # a => tree'[b] = tree[b]
    BY <2>c DEF DeliveryTypeOK
  <2> HIDE DEF new, DeliveryInv
  <2>1. DeliveryTypeOK'
    BY <1>0, <2>a, <2>b, <2>c, <2>d, <2>e DEF DeliveryInv, DeliveryTypeOK
  <2>2. RootIsIntegrated'
    BY <1>0, <2>a, <2>b, <2>c, <2>d, <2>e DEF DeliveryInv, RootIsIntegrated
  <2>3. RoundUnderway'
    BY <1>0, <2>a, <2>b, <2>c, <2>d, <2>e DEF DeliveryInv, RoundUnderway
  <2>4. OthersHaveNothing'
    BY <1>0, <2>a, <2>b, <2>c, <2>d, <2>e DEF DeliveryInv, OthersHaveNothing
  <2>5. ReadyTreesAreLoaded'
    BY <1>0, <2>a, <2>b, <2>c, <2>d, <2>e DEF DeliveryInv, ReadyTreesAreLoaded, ReadyTasks
  <2>6. CollectedAreApart'
    BY <1>0, <2>a, <2>b, <2>c, <2>d, <2>e DEF DeliveryInv, CollectedAreApart
  <2>7. CollectedAreMerged'
    BY <1>0, <2>a, <2>b, <2>c, <2>d, <2>e DEF DeliveryInv, CollectedAreMerged
  <2>8. MergedIsOnBranch'
    BY <1>0, <2>a, <2>b, <2>c, <2>d, <2>e DEF DeliveryInv, MergedIsOnBranch
  <2>9. NothingIsUndone'
    <3> SUFFICES ASSUME ~ShouldPreload \/ Several, NEW b \in Coder, NEW g \in File, tree'[b] # NoWorktree
                 PROVE  base[b][g] \subseteq committed[b][g] /\ committed[b][g] \subseteq tree'[b][g]
      BY <2>b DEF NothingIsUndone
    <3>1. tree[b] # NoWorktree /\ tree[b][g] \subseteq tree'[b][g]
      BY <2>a, <2>d, <2>e, DeliveryAssumption
    <3> QED BY <3>1 DEF DeliveryInv, NothingIsUndone
  <2>10. LoadedTreesClash'
    <3> SUFFICES ASSUME ShouldPreload, Several
                 PROVE  /\ Begun' => \A g \in File : root[g] \subseteq {round}
                        /\ \A b \in Coder, g \in File :
                             tree'[b] # NoWorktree => tree'[b][g] \subseteq root[g] \cup {round}
      BY <2>b DEF LoadedTreesClash
    <3>1. Begun' => Begun
      BY <2>b DEF Begun
    <3>2. \A b \in Coder, g \in File : tree[b] # NoWorktree => tree[b][g] \subseteq root[g] \cup {round}
      BY DEF DeliveryInv, LoadedTreesClash
    <3>3. \A g \in File : tree'[a][g] \subseteq root[g] \cup {round}
      BY <2>a, <2>d, <2>e, <3>2, <1>0, DeliveryAssumption
    <3> QED BY <3>1, <3>2, <3>3, <2>e DEF DeliveryInv, LoadedTreesClash
  <2> QED BY <2>1, <2>2, <2>3, <2>4, <2>5, <2>6, <2>7, <2>8, <2>9, <2>10 DEF DeliveryInv
<1>5. CASE GatePasses
  <2>0. UNCHANGED taskVars
    BY <1>5 DEF GatePasses
  <2> USE SameRound, <2>0
  <2>1. DeliveryTypeOK'
    BY <1>0, <1>5 DEF GatePasses, MayPass, Clash, Changed, workVars, DeliveryTypeOK, Content,
       Unchanged
  <2>2. RootIsIntegrated'
    BY <1>0, <1>5 DEF GatePasses, MayPass, Clash, Changed, workVars, RootIsIntegrated,
       DeliveryTypeOK, Content
  <2>3. RoundUnderway'
    BY <1>0, <1>5 DEF GatePasses, MayPass, Clash, Changed, workVars, RoundUnderway,
       DeliveryTypeOK, Content
  <2>4. OthersHaveNothing'
    BY <1>0, <1>5 DEF GatePasses, MayPass, Clash, Changed, workVars, OthersHaveNothing,
       DeliveryTypeOK, Content
  <2>5. ReadyTreesAreLoaded'
    BY <1>0, <1>5 DEF GatePasses, MayPass, Clash, Changed, workVars, ReadyTreesAreLoaded,
       ReadyTasks, CollectedAreApart, DeliveryTypeOK, Content
  <2>6. CollectedAreApart'
    BY <1>0, <1>5 DEF GatePasses, MayPass, Clash, Changed, workVars, CollectedAreApart,
       DeliveryTypeOK, Content
  <2>7. CollectedAreMerged'
    BY <1>0, <1>5 DEF GatePasses, MayPass, Clash, Changed, workVars, CollectedAreMerged,
       CollectedAreApart, DeliveryTypeOK, Content
  <2>8. MergedIsOnBranch'
    BY <1>0, <1>5 DEF GatePasses, MayPass, Clash, Changed, workVars, MergedIsOnBranch,
       NothingIsUndone, OthersHaveNothing, DeliveryTypeOK, Content
  <2>9. NothingIsUndone'
    BY <1>0, <1>5 DEF GatePasses, MayPass, Clash, Changed, workVars, NothingIsUndone,
       OthersHaveNothing, DeliveryTypeOK, Content
  <2>10. LoadedTreesClash'
    <3> SUFFICES ASSUME ShouldPreload, Several
                 PROVE  \A f \in File : root[f] \subseteq {round}
      BY <1>5 DEF GatePasses, workVars, LoadedTreesClash
    <3>1. CASE Begun
      BY <3>1 DEF LoadedTreesClash
    <3>2. ASSUME ~Begun, NEW f \in File PROVE root[f] = {}
      <4>1. PICK a \in CodingTasks, b \in CodingTasks : a # b
        BY DEF Several
      <4>2. f \notin Changed(a) \/ f \notin Changed(b)
        BY <1>5, <4>1 DEF GatePasses, MayPass, Clash
      <4>3. committed[a] = Unchanged /\ committed[b] = Unchanged
        BY <3>2, <1>0 DEF Begun
      <4>4. root[f] \subseteq tree[a][f] /\ root[f] \subseteq tree[b][f]
        BY <1>5, <4>1 DEF GatePasses, ReadyTreesAreLoaded, ReadyTasks
      <4> QED BY <4>2, <4>3, <4>4, UnchangedType DEF Changed
    <3> QED BY <3>1, <3>2
  <2> QED BY <2>1, <2>2, <2>3, <2>4, <2>5, <2>6, <2>7, <2>8, <2>9, <2>10
<1>6. ASSUME NEW a \in Coder, Commit(a) PROVE DeliveryInv'
  <2>0. UNCHANGED taskVars
    BY <1>6 DEF Commit
  <2> USE SameRound, <2>0
  <2>a. a \in CodingTasks /\ at = "integrate" /\ tree[a] \in Content /\ tree[a] # NoWorktree
    BY <1>6, <1>0 DEF Commit, RoundUnderway, ReadyTreesAreLoaded, ReadyTasks, DeliveryTypeOK
  <2>1. DeliveryTypeOK'
    BY <1>6, <2>a DEF Commit, DeliveryTypeOK
  <2>2. RootIsIntegrated'
    BY <1>0, <1>6 DEF Commit, AwaitsMerge, Changed, workVars, RootIsIntegrated, DeliveryTypeOK,
       Content
  <2>3. RoundUnderway'
    BY <1>0, <1>6 DEF Commit, AwaitsMerge, Changed, workVars, RoundUnderway, DeliveryTypeOK,
       Content
  <2>4. OthersHaveNothing'
    BY <1>6, <2>a DEF Commit, OthersHaveNothing, DeliveryTypeOK
  <2>5. ReadyTreesAreLoaded'
    BY <1>0, <1>6 DEF Commit, AwaitsMerge, Changed, workVars, ReadyTreesAreLoaded, ReadyTasks,
       CollectedAreApart, DeliveryTypeOK, Content
  <2>6. CollectedAreApart'
    BY <1>0, <1>6 DEF Commit, AwaitsMerge, Changed, workVars, CollectedAreApart, DeliveryTypeOK,
       Content
  <2>7. CollectedAreMerged'
    BY <1>0, <1>6 DEF Commit, AwaitsMerge, Changed, workVars, CollectedAreMerged,
       CollectedAreApart, DeliveryTypeOK, Content
  <2>8. MergedIsOnBranch'
    BY <1>0, <1>6 DEF Commit, AwaitsMerge, Changed, workVars, MergedIsOnBranch, NothingIsUndone,
       OthersHaveNothing, DeliveryTypeOK, Content
  <2>9. NothingIsUndone'
    <3>1. ASSUME NEW b \in Coder PROVE committed'[b] \in {committed[b], tree[b]}
      BY <1>6, <2>a DEF Commit, DeliveryTypeOK
    <3>2. tree' = tree /\ base' = base
      BY <1>6 DEF Commit
    <3>3. ASSUME NEW b \in Coder, NEW f \in File, base[b][f] \subseteq committed[b][f],
                 committed[b][f] \subseteq tree[b][f]
          PROVE  base[b][f] \subseteq committed'[b][f] /\ committed'[b][f] \subseteq tree[b][f]
      BY <3>1, <3>3
    <3> QED BY <1>0, <3>2, <3>3 DEF NothingIsUndone
  <2>10. LoadedTreesClash'
    BY <1>0, <1>6 DEF Commit, AwaitsMerge, Changed, workVars, LoadedTreesClash, Begun,
       ReadyTreesAreLoaded, ReadyTasks, DeliveryTypeOK, Content
  <2> QED BY <2>1, <2>2, <2>3, <2>4, <2>5, <2>6, <2>7, <2>8, <2>9, <2>10
<1>7. ASSUME NEW a \in Coder, Merge(a) PROVE DeliveryInv'
  <2>0. UNCHANGED taskVars
    BY <1>7 DEF Merge
  <2> USE SameRound, <2>0
  <2>a. /\ a \in CodingTasks /\ at = "integrate" /\ tree[a] \in Content /\ tree[a] # NoWorktree
        /\ committed[a] \in Content /\ base[a] \in Content /\ branch \in Content /\ root \in Content
    BY <1>7, <1>0 DEF Merge, AwaitsMerge, RoundUnderway, ReadyTreesAreLoaded, ReadyTasks,
       DeliveryTypeOK
  <2>b. committed[a] = tree[a]
    BY <1>7, <2>a DEF Merge, AwaitsMerge, Changed, Content
  <2>c. UNCHANGED <<codePhase, due, owners, round, at, root, tree, committed, files, failures>>
          /\ left' = left \ {a}
    BY <1>7 DEF Merge, taskVars
  <2>d. CASE UNCHANGED <<branch, base>> /\ verdict' = "conflict"
    BY <1>0, <2>a, <2>c, <2>d
    DEF DeliveryTypeOK, RootIsIntegrated, RoundUnderway, OthersHaveNothing, ReadyTreesAreLoaded, ReadyTasks,
        CollectedAreApart, CollectedAreMerged, MergedIsOnBranch, NothingIsUndone, LoadedTreesClash, Begun
  <2> DEFINE mergedCode == [f \in File |-> Merged(branch[f], base[a][f], committed[a][f])]
  <2>e. CASE branch' = mergedCode /\ base' = [base EXCEPT ![a] = committed[a]] /\ UNCHANGED verdict
    <3>1. /\ mergedCode \in Content
          /\ \A f \in File : mergedCode[f] = (branch[f] \cap committed[a][f]) \cup (branch[f] \ base[a][f])
                                          \cup (committed[a][f] \ base[a][f])
      BY <2>a DEF Merged, Content
    <3>2. base'[a] = committed[a] /\ \A b \in Coder : b # a => base'[b] = base[b]
      BY <2>e DEF DeliveryTypeOK
    <3>3. \A f \in File : base[a][f] \subseteq branch[f] /\ root[f] \subseteq branch[f]
      BY <1>0, <2>a DEF MergedIsOnBranch, RootIsIntegrated
    <3> HIDE DEF mergedCode
    <3>4. DeliveryTypeOK'
      BY <2>a, <2>c, <2>e, <3>1 DEF DeliveryTypeOK
    <3>5. RootIsIntegrated'
      <4>1. CASE ShouldPreload
        <5>1. \A f \in File : root[f] \subseteq committed[a][f]
          BY <2>a, <2>b, <4>1 DEF ReadyTreesAreLoaded, ReadyTasks
        <5> QED BY <5>1, <2>c, <2>e, <3>1, <3>3 DEF RootIsIntegrated
      <4>2. CASE ~ShouldPreload
        <5>1. \A f \in File : base[a][f] \subseteq committed[a][f]
          BY <1>0, <2>a, <4>2 DEF NothingIsUndone
        <5> QED BY <5>1, <2>c, <2>e, <3>1, <3>3 DEF RootIsIntegrated
      <4> QED BY <4>1, <4>2
    <3>6. RoundUnderway' /\ OthersHaveNothing' /\ ReadyTreesAreLoaded' /\ CollectedAreApart'
      BY <1>0, <2>a, <2>c, <2>e, <3>2
      DEF RoundUnderway, OthersHaveNothing, ReadyTreesAreLoaded, ReadyTasks, CollectedAreApart
    <3>7. CollectedAreMerged'
      BY <2>a, <2>b, <2>c, <2>e, <3>2 DEF CollectedAreMerged
    <3>8. MergedIsOnBranch'
      <4> SUFFICES ASSUME NEW b \in Coder, NEW f \in File PROVE base'[b][f] \subseteq mergedCode[f]
        BY <2>e DEF MergedIsOnBranch
      <4>1. CASE b = a
        BY <4>1, <3>1, <3>2, <3>3
      <4>2. CASE b # a /\ (~ShouldPreload \/ Several)
        <5>1. base[a][f] \subseteq committed[a][f] /\ base[b][f] \subseteq branch[f]
          BY <1>0, <2>a, <4>2 DEF NothingIsUndone, MergedIsOnBranch
        <5> QED BY <5>1, <4>2, <3>1, <3>2
      <4>3. CASE b # a /\ ~Several
        <5>1. b \notin CodingTasks
          BY <2>a, <4>3 DEF Several
        <5>2. base[b][f] = {}
          BY <5>1, UnchangedType DEF OthersHaveNothing
        <5> QED BY <5>2, <4>3, <3>2
      <4> QED BY <4>1, <4>2, <4>3
    <3>9. NothingIsUndone'
      <4> SUFFICES ASSUME ~ShouldPreload \/ Several, NEW b \in Coder, NEW f \in File, tree[b] # NoWorktree
                   PROVE  base'[b][f] \subseteq committed[b][f] /\ committed[b][f] \subseteq tree[b][f]
        BY <2>c DEF NothingIsUndone
      <4> QED BY <3>2 DEF NothingIsUndone
    <3>10. LoadedTreesClash'
      BY <2>a, <2>c DEF LoadedTreesClash, Begun
    <3> QED BY <3>4, <3>5, <3>6, <3>7, <3>8, <3>9, <3>10
  <2> QED BY <1>7, <2>d, <2>e DEF Merge
<1>8. ASSUME NEW a \in Coder, NEW f \in File, CopyFile(a, f) PROVE DeliveryInv'
  <2>0. UNCHANGED taskVars
    BY <1>8 DEF CopyFile
  <2> USE SameRound, <2>0
  <2>a. /\ at = "copy" /\ left = {} /\ verdict = "clean" /\ f \in files[a] /\ a \in CodingTasks
        /\ tree[a] \in Content /\ tree[a] # NoWorktree /\ root \in Content
    BY <1>8, <1>0
    DEF CopyFile, CollectedAreMerged, CollectedAreApart, ReadyTreesAreLoaded, ReadyTasks, DeliveryTypeOK
  <2>b. UNCHANGED <<codePhase, due, owners, round, at, branch, tree, committed, base, left, verdict, failures>>
    BY <1>8 DEF CopyFile, taskVars, workVars
  <2>c. /\ root' = [root EXCEPT ![f] = tree[a][f]] /\ files' = [files EXCEPT ![a] = @ \ {f}]
        /\ root'[f] = tree[a][f] /\ \A g \in File : g # f => root'[g] = root[g]
        /\ \A b \in Coder : files'[b] = files[b] \ {f}
    BY <1>8, <2>a DEF CopyFile, DeliveryTypeOK, Content, CollectedAreApart
  <2>d. tree[a][f] \subseteq branch[f]
    BY <2>a DEF CollectedAreMerged, MergedIsOnBranch
  <2> HIDE DEF DeliveryInv
  <2>1. DeliveryTypeOK'
    BY <1>0, <2>a, <2>b, <2>c, <2>d DEF DeliveryInv, DeliveryTypeOK, Content
  <2>2. RootIsIntegrated'
    BY <1>0, <2>a, <2>b, <2>c, <2>d DEF DeliveryInv, RootIsIntegrated
  <2>3. RoundUnderway'
    BY <1>0, <2>a, <2>b, <2>c, <2>d DEF DeliveryInv, RoundUnderway
  <2>4. OthersHaveNothing'
    BY <1>0, <2>a, <2>b, <2>c, <2>d DEF DeliveryInv, OthersHaveNothing
  <2>5. ReadyTreesAreLoaded'
    BY <1>0, <2>a, <2>b, <2>c, <2>d DEF DeliveryInv, ReadyTreesAreLoaded, ReadyTasks
  <2>6. CollectedAreApart'
    BY <1>0, <2>a, <2>b, <2>c, <2>d DEF DeliveryInv, CollectedAreApart
  <2>7. CollectedAreMerged'
    BY <1>0, <2>a, <2>b, <2>c, <2>d DEF DeliveryInv, CollectedAreMerged
  <2>8. MergedIsOnBranch'
    BY <1>0, <2>a, <2>b, <2>c, <2>d DEF DeliveryInv, MergedIsOnBranch
  <2>9. NothingIsUndone'
    BY <1>0, <2>a, <2>b, <2>c, <2>d DEF DeliveryInv, NothingIsUndone
  <2>10. LoadedTreesClash'
    <3> SUFFICES ASSUME ShouldPreload, Several
                 PROVE  /\ \A g \in File : root'[g] \subseteq {round}
                        /\ \A b \in Coder, g \in File : tree[b] # NoWorktree => tree[b][g] \subseteq root'[g] \cup {round}
      BY <2>b DEF LoadedTreesClash
    <3>1. Begun
      BY <2>a DEF Begun
    <3>2. /\ \A g \in File : root[g] \subseteq {round}
          /\ \A b \in Coder, g \in File : tree[b] # NoWorktree => tree[b][g] \subseteq {round}
      BY <3>1 DEF DeliveryInv, LoadedTreesClash
    <3> QED BY <3>2, <2>a, <2>c, <1>0
  <2> QED BY <2>1, <2>2, <2>3, <2>4, <2>5, <2>6, <2>7, <2>8, <2>9, <2>10 DEF DeliveryInv
<1>9. CASE RoundFails
  <2>0. UNCHANGED taskVars
    BY <1>9 DEF RoundFails
  <2> USE SameRound, <2>0
  <2>1. DeliveryTypeOK'
    BY <1>0, <1>9 DEF RoundFails, workVars, DeliveryTypeOK, Content, Unchanged
  <2>2. RootIsIntegrated'
    BY <1>0, <1>9 DEF RoundFails, workVars, RootIsIntegrated, DeliveryTypeOK, Content
  <2>3. RoundUnderway'
    BY <1>0, <1>9 DEF RoundFails, workVars, RoundUnderway, DeliveryTypeOK, Content
  <2>4. OthersHaveNothing'
    BY <1>0, <1>9 DEF RoundFails, workVars, OthersHaveNothing, DeliveryTypeOK, Content
  <2>5. ReadyTreesAreLoaded'
    BY <1>0, <1>9 DEF RoundFails, workVars, ReadyTreesAreLoaded, ReadyTasks, CollectedAreApart,
       DeliveryTypeOK, Content
  <2>6. CollectedAreApart'
    BY <1>0, <1>9 DEF RoundFails, workVars, CollectedAreApart, DeliveryTypeOK, Content
  <2>7. CollectedAreMerged'
    BY <1>0, <1>9 DEF RoundFails, workVars, CollectedAreMerged, CollectedAreApart,
       DeliveryTypeOK, Content
  <2>8. MergedIsOnBranch'
    BY <1>0, <1>9 DEF RoundFails, workVars, MergedIsOnBranch, NothingIsUndone,
       OthersHaveNothing, DeliveryTypeOK, Content
  <2>9. NothingIsUndone'
    BY <1>0, <1>9 DEF RoundFails, workVars, NothingIsUndone, OthersHaveNothing, DeliveryTypeOK,
       Content
  <2>10. LoadedTreesClash'
    BY <1>0, <1>9 DEF RoundFails, workVars, LoadedTreesClash, Begun, ReadyTreesAreLoaded,
       ReadyTasks, DeliveryTypeOK, Content
  <2> QED BY <2>1, <2>2, <2>3, <2>4, <2>5, <2>6, <2>7, <2>8, <2>9, <2>10
<1>10. CASE UNCHANGED deliveryVars
  <2>0. UNCHANGED taskVars
    BY <1>10 DEF deliveryVars, taskVars
  <2> USE SameRound, <2>0
  <2>1. DeliveryTypeOK'
    BY <1>0, <1>10 DEF deliveryVars, workVars, DeliveryTypeOK, Content, Unchanged
  <2>2. RootIsIntegrated'
    BY <1>0, <1>10 DEF deliveryVars, workVars, RootIsIntegrated, DeliveryTypeOK, Content
  <2>3. RoundUnderway'
    BY <1>0, <1>10 DEF deliveryVars, workVars, RoundUnderway, DeliveryTypeOK, Content
  <2>4. OthersHaveNothing'
    BY <1>0, <1>10 DEF deliveryVars, workVars, OthersHaveNothing, DeliveryTypeOK, Content
  <2>5. ReadyTreesAreLoaded'
    BY <1>0, <1>10 DEF deliveryVars, workVars, ReadyTreesAreLoaded, ReadyTasks,
       CollectedAreApart, DeliveryTypeOK, Content
  <2>6. CollectedAreApart'
    BY <1>0, <1>10 DEF deliveryVars, workVars, CollectedAreApart, DeliveryTypeOK, Content
  <2>7. CollectedAreMerged'
    BY <1>0, <1>10 DEF deliveryVars, workVars, CollectedAreMerged, CollectedAreApart,
       DeliveryTypeOK, Content
  <2>8. MergedIsOnBranch'
    BY <1>0, <1>10 DEF deliveryVars, workVars, MergedIsOnBranch, NothingIsUndone,
       OthersHaveNothing, DeliveryTypeOK, Content
  <2>9. NothingIsUndone'
    BY <1>0, <1>10 DEF deliveryVars, workVars, NothingIsUndone, OthersHaveNothing,
       DeliveryTypeOK, Content
  <2>10. LoadedTreesClash'
    BY <1>0, <1>10 DEF deliveryVars, workVars, LoadedTreesClash, Begun, ReadyTreesAreLoaded,
       ReadyTasks, DeliveryTypeOK, Content
  <2> QED BY <2>1, <2>2, <2>3, <2>4, <2>5, <2>6, <2>7, <2>8, <2>9, <2>10
<1>11. CASE GateFails
  BY <1>11, EndRoundKeeps DEF GateFails
<1>12. CASE Integrated
  <2>1. CASE MayCopy
    <3>1. UNCHANGED taskVars /\ UNCHANGED <<root, branch, tree, committed, base, files, left, verdict, failures>>
          /\ at = "integrate" /\ at' = "copy" /\ left = {} /\ verdict = "clean"
      BY <1>12, <2>1 DEF Integrated, MayCopy, workVars
    <3>2. DeliveryTypeOK' /\ RootIsIntegrated' /\ RoundUnderway' /\ OthersHaveNothing'
      BY <3>1, SameRound DEF DeliveryTypeOK, RootIsIntegrated, RoundUnderway, OthersHaveNothing
    <3>3. ReadyTreesAreLoaded' /\ CollectedAreApart' /\ CollectedAreMerged' /\ MergedIsOnBranch'
      BY <3>1, SameRound DEF ReadyTreesAreLoaded, ReadyTasks, CollectedAreApart,
         CollectedAreMerged, MergedIsOnBranch
    <3>4. NothingIsUndone' /\ LoadedTreesClash'
      BY <3>1, SameRound DEF NothingIsUndone, LoadedTreesClash, Begun
    <3> QED BY <3>2, <3>3, <3>4
  <2>2. CASE ~MayCopy
    BY <1>12, <2>2, EndRoundKeeps DEF Integrated
  <2> QED BY <2>1, <2>2
<1>13. CASE Copied
  BY <1>13, EndRoundKeeps DEF Copied
<1> QED BY <1>1, <1>2, <1>3, <1>4, <1>5, <1>6, <1>7, <1>8, <1>9, <1>10, <1>11, <1>12, <1>13
           DEF DeliveryNext

\* The invariant of code delivery holds from the start on.
LEMMA DeliveryInvariant == DeliverySpec => []DeliveryInv
<1>1. DeliveryInit => DeliveryInv
  <2> SUFFICES ASSUME DeliveryInit
               PROVE  DeliveryInv
    OBVIOUS
  <2>1. DeliveryTypeOK
    BY DeliveryAssumption, UnchangedType DEF DeliveryInit, DeliveryTypeOK, LaterPhase
  <2>2. RootIsIntegrated /\ MergedIsOnBranch
    BY UnchangedType DEF DeliveryInit, RootIsIntegrated, MergedIsOnBranch
  <2>3. RoundUnderway /\ OthersHaveNothing /\ ReadyTreesAreLoaded /\ CollectedAreApart /\ CollectedAreMerged
    BY DEF DeliveryInit, RoundUnderway, OthersHaveNothing, ReadyTreesAreLoaded, ReadyTasks,
       CollectedAreApart,
           CollectedAreMerged
  <2>4. NothingIsUndone /\ LoadedTreesClash
    BY DEF DeliveryInit, NothingIsUndone, LoadedTreesClash, Begun
  <2> QED BY <2>1, <2>2, <2>3, <2>4 DEF DeliveryInv
<1> QED
  BY <1>1, DeliveryStep, PTL DEF DeliverySpec

\* Code comes to the main tree by way of the integration branch only.
THEOREM RootStaysIntegrated == DeliverySpec => []RootIsIntegrated
<1>1. DeliveryInv => RootIsIntegrated
  BY DEF DeliveryInv
<1> QED
  BY <1>1, DeliveryInvariant, PTL

\* What CodeIsKept says of a step.
KeepsCode == codePhase # "IMPLEMENTATION" => \A f \in File : root[f] \subseteq root'[f]

\* From the tests on, no round takes code away from the main tree.
THEOREM CodeStays == DeliverySpec => CodeIsKept
<1>1. DeliveryInv /\ [DeliveryNext]_deliveryVars => [KeepsCode]_deliveryVars
  <2> SUFFICES ASSUME DeliveryInv, DeliveryNext, codePhase # "IMPLEMENTATION"
               PROVE  \A f \in File : root[f] \subseteq root'[f]
    BY DEF KeepsCode
  <2>1. ASSUME NEW a \in Coder, NEW f \in File, CopyFile(a, f)
        PROVE  \A g \in File : root[g] \subseteq root'[g]
    <3>1. at = "copy" /\ f \in files[a] /\ root \in Content /\ a \in CodingTasks /\ ShouldPreload
      BY <2>1
      DEF CopyFile, DeliveryInv, CollectedAreApart, DeliveryTypeOK, RoundUnderway, ShouldPreload, LaterPhase
    <3>2. root[f] \subseteq tree[a][f]
      BY <3>1 DEF DeliveryInv, ReadyTreesAreLoaded, ReadyTasks
    <3> QED BY <2>1, <3>1, <3>2 DEF CopyFile, Content
  <2>2. CASE UNCHANGED root
    BY <2>2
  <2> QED BY <2>1, <2>2
    DEF DeliveryNext, Launch, Prepare, Prepared, Work, GateFails, GatePasses, Commit, Merge, Integrated, Copied,
        RoundFails
<1> QED
  BY <1>1, DeliveryInvariant, PTL DEF DeliverySpec, CodeIsKept, KeepsCode
==============================================================================
