--------------------------- MODULE Evidence_proofs ---------------------------
(***************************************************************************)
(* Proofs about the evidence plane: the two registries, for every set of   *)
(* keys and projects and every bound on what is registered, the file       *)
(* store, for any calls of which no three share a millisecond, and the     *)
(* events of the OS runtime, for any workflows, tasks and gates.           *)
(***************************************************************************)
EXTENDS ArtifactRegistry, TraceRegistry, JsonFileStore, OsRuntime, Iteration

\* What replacing the active artifact of a key returns: the same artifacts, of
\* the same keys.
LEMMA SupersededType ==
  ASSUME RegistryTypeOK, ActiveIsIndexed, NEW key \in LogicalKey, NEW id \in Nat
  PROVE  /\ Superseded(key, id) \in Seq(Artifact)
         /\ Len(Superseded(key, id)) = Len(artifacts)
         /\ \A other \in 1..Len(artifacts) :
              /\ Superseded(key, id)[other].key = artifacts[other].key
              /\ other = activeByKey[key] /\ other # id =>
                   /\ Superseded(key, id)[other].status = "SUPERSEDED"
                   /\ Superseded(key, id)[other].supersededBy = id
              /\ other # activeByKey[key] \/ other = id =>
                   Superseded(key, id)[other] = artifacts[other]
<1> DEFINE previous == activeByKey[key]
           replaced == [artifacts[previous] EXCEPT !.status = "SUPERSEDED", !.supersededBy = id]
<1>1. artifacts \in Seq(Artifact) /\ \A other \in 1..Len(artifacts) : artifacts[other] \in Artifact
  BY DEF RegistryTypeOK
<1>2. CASE previous = 0 \/ previous = id
  <2>1. Superseded(key, id) = artifacts
    BY <1>2 DEF Superseded
  <2>2. \A other \in 1..Len(artifacts) : ~(other = activeByKey[key] /\ other # id)
    BY <1>2
  <2>3. QED
    BY <1>1, <2>1, <2>2
<1>3. CASE previous # 0 /\ previous # id
  <2>1. previous \in 1..Len(artifacts)
    BY <1>1, <1>3 DEF ActiveIsIndexed
  <2>2. artifacts[previous] \in Artifact
    BY <1>1, <2>1
  <2>3. /\ replaced \in Artifact /\ replaced.key = artifacts[previous].key
        /\ replaced.status = "SUPERSEDED" /\ replaced.supersededBy = id
    BY <2>2 DEF Artifact, ArtifactStatus
  <2>4. Superseded(key, id) = [artifacts EXCEPT ![previous] = replaced]
    BY <1>3 DEF Superseded
  <2> HIDE DEF replaced
  <2>5. /\ Superseded(key, id) \in Seq(Artifact)
        /\ Len(Superseded(key, id)) = Len(artifacts)
        /\ Superseded(key, id)[previous] = replaced
        /\ \A other \in 1..Len(artifacts) :
             other # previous => Superseded(key, id)[other] = artifacts[other]
    BY <1>1, <2>1, <2>3, <2>4
  <2>6. QED
    BY <1>1, <1>3, <2>3, <2>5
<1>4. QED
  BY <1>2, <1>3

\* The version of a new artifact is a number.
LEMMA VersionType ==
  ASSUME RegistryTypeOK, ActiveIsIndexed, NEW key \in LogicalKey
  PROVE  NextVersion(key) \in Nat
<1>1. CASE activeByKey[key] = 0
  BY <1>1 DEF NextVersion
<1>2. CASE activeByKey[key] # 0
  <2>1. artifacts[activeByKey[key]] \in Artifact
    BY <1>2 DEF ActiveIsIndexed, RegistryTypeOK
  <2>2. QED
    BY <1>2, <2>1 DEF NextVersion, Artifact
<1>3. QED
  BY <1>1, <1>2

\* What registering a new artifact leaves in the records.
LEMMA RegisterStep ==
  ASSUME RegistryTypeOK, ActiveIsIndexed, NEW key \in LogicalKey, NEW activate \in BOOLEAN,
         Register(key, activate)
  PROVE  /\ RegistryTypeOK'
         /\ Len(artifacts') = Len(artifacts) + 1
         /\ artifacts'[Len(artifacts) + 1].key = key
         /\ artifacts'[Len(artifacts) + 1].status = IF activate THEN "ACTIVE" ELSE "DRAFT"
         /\ \A other \in 1..Len(artifacts) : artifacts'[other] =
              IF activate THEN Superseded(key, Len(artifacts) + 1)[other] ELSE artifacts[other]
         /\ activeByKey' = IF activate THEN [activeByKey EXCEPT ![key] = Len(artifacts) + 1]
                                       ELSE activeByKey
<1> DEFINE id == Len(artifacts) + 1
           old == IF activate THEN Superseded(key, id) ELSE artifacts
           new == NewArtifact(key, NextVersion(key), IF activate THEN "ACTIVE" ELSE "DRAFT",
                              activeByKey[key])
<1>1. id \in Nat
  BY DEF RegistryTypeOK
<1>2. old \in Seq(Artifact) /\ Len(old) = Len(artifacts)
  BY <1>1, SupersededType DEF RegistryTypeOK
<1>3. NextVersion(key) \in Nat /\ activeByKey[key] \in Nat
  BY VersionType DEF RegistryTypeOK
<1>4. new \in Artifact /\ new.key = key /\ new.status = IF activate THEN "ACTIVE" ELSE "DRAFT"
  BY <1>3 DEF NewArtifact, Artifact, ArtifactStatus
<1>5. /\ artifacts' = Append(old, new)
      /\ activeByKey' = IF activate THEN [activeByKey EXCEPT ![key] = id] ELSE activeByKey
  BY DEF Register
<1> HIDE DEF old, new
<1>6. artifacts' \in Seq(Artifact) /\ Len(artifacts') = Len(artifacts) + 1
  BY <1>2, <1>4, <1>5
<1>7. artifacts'[id] = new /\ \A other \in 1..Len(artifacts) : artifacts'[other] = old[other]
  BY <1>2, <1>4, <1>5 DEF RegistryTypeOK
<1>8. RegistryTypeOK'
  BY <1>1, <1>5, <1>6 DEF RegistryTypeOK
<1>9. QED
  BY <1>4, <1>5, <1>6, <1>7, <1>8 DEF old

\* What activating an artifact leaves in the records.
LEMMA ActivateStep ==
  ASSUME RegistryTypeOK, ActiveIsIndexed, NEW id \in DOMAIN artifacts, Activate(id)
  PROVE  /\ RegistryTypeOK'
         /\ Len(artifacts') = Len(artifacts)
         /\ artifacts'[id].key = artifacts[id].key
         /\ artifacts'[id].status = "ACTIVE"
         /\ \A other \in 1..Len(artifacts) : other # id =>
              artifacts'[other] = Superseded(artifacts[id].key, id)[other]
         /\ activeByKey' = [activeByKey EXCEPT ![artifacts[id].key] = id]
<1> DEFINE key == artifacts[id].key
           supersedes == IF activeByKey[key] = 0 THEN artifacts[id].supersedes ELSE activeByKey[key]
           new == [artifacts[id] EXCEPT !.status = "ACTIVE", !.supersedes = supersedes]
<1>1. id \in Nat /\ id \in 1..Len(artifacts) /\ artifacts[id] \in Artifact
  BY DEF RegistryTypeOK
<1>2. key \in LogicalKey /\ supersedes \in Nat
  BY <1>1 DEF Artifact, RegistryTypeOK
<1>3. new \in Artifact /\ new.key = key /\ new.status = "ACTIVE"
  BY <1>1, <1>2 DEF Artifact, ArtifactStatus
<1>4. Superseded(key, id) \in Seq(Artifact) /\ Len(Superseded(key, id)) = Len(artifacts)
  BY <1>1, <1>2, SupersededType
<1>5. /\ artifacts' = [Superseded(key, id) EXCEPT ![id] = new]
      /\ activeByKey' = [activeByKey EXCEPT ![key] = id]
  BY DEF Activate
<1> HIDE DEF new, key
<1>6. artifacts' \in Seq(Artifact) /\ Len(artifacts') = Len(artifacts) /\ artifacts'[id] = new
  BY <1>1, <1>3, <1>4, <1>5
<1>7. \A other \in 1..Len(artifacts) : other # id => artifacts'[other] = Superseded(key, id)[other]
  BY <1>1, <1>4, <1>5 DEF RegistryTypeOK
<1>8. RegistryTypeOK'
  BY <1>1, <1>5, <1>6 DEF RegistryTypeOK
<1>9. QED
  BY <1>3, <1>5, <1>6, <1>7, <1>8 DEF key

\* What rejecting or archiving an artifact leaves in the records.
LEMMA RetireStep ==
  ASSUME RegistryTypeOK, NEW id \in DOMAIN artifacts, NEW status \in RetiredStatus,
         Retire(id, status)
  PROVE  /\ RegistryTypeOK'
         /\ Len(artifacts') = Len(artifacts)
         /\ artifacts'[id].key = artifacts[id].key
         /\ artifacts'[id].status = status
         /\ artifacts'[id] = WithStatus(artifacts[id], status)
         /\ \A other \in 1..Len(artifacts) : other # id => artifacts'[other] = artifacts[other]
         /\ \A key \in LogicalKey :
              activeByKey'[key] = IF activeByKey[key] = id THEN 0 ELSE activeByKey[key]
<1>1. id \in 1..Len(artifacts) /\ artifacts[id] \in Artifact
  BY DEF RegistryTypeOK
<1>2. /\ WithStatus(artifacts[id], status) \in Artifact
      /\ WithStatus(artifacts[id], status).key = artifacts[id].key
      /\ WithStatus(artifacts[id], status).status = status
  BY <1>1 DEF WithStatus, Artifact, ArtifactStatus, RetiredStatus
<1>3. artifacts' = [artifacts EXCEPT ![id] = WithStatus(artifacts[id], status)]
  BY DEF Retire
<1>4. activeByKey' \in [LogicalKey -> Nat] /\ \A key \in LogicalKey :
        activeByKey'[key] = IF activeByKey[key] = id THEN 0 ELSE activeByKey[key]
  BY DEF Retire, WithoutActive, RegistryTypeOK
<1>5. QED
  BY <1>1, <1>2, <1>3, <1>4 DEF RegistryTypeOK

\* The index and the records still agree after every operation.
LEMMA RegistryStep ==
  ASSUME RegistryTypeOK, ActiveIsIndexed, [RegistryNext]_registryVars
  PROVE  RegistryTypeOK' /\ ActiveIsIndexed'
<1>1. DOMAIN artifacts = 1..Len(artifacts) /\ Len(artifacts) \in Nat
  BY DEF RegistryTypeOK
<1>2. activeByKey \in [LogicalKey -> Nat] /\ \A key \in LogicalKey : activeByKey[key] # 0 =>
        activeByKey[key] \in 1..Len(artifacts) /\ artifacts[activeByKey[key]].key = key
  BY <1>1 DEF ActiveIsIndexed, RegistryTypeOK
<1>3. \A id \in 1..Len(artifacts) : artifacts[id].key \in LogicalKey
  <2>1. \A id \in 1..Len(artifacts) : artifacts[id] \in Artifact
    BY DEF RegistryTypeOK
  <2>2. QED
    BY <2>1 DEF Artifact
<1>4. \A id \in 1..Len(artifacts) : artifacts[id].status = "ACTIVE" <=> activeByKey[artifacts[id].key] = id
  BY <1>1 DEF ActiveIsIndexed
<1>5. ASSUME NEW key \in LogicalKey, NEW activate \in BOOLEAN, Register(key, activate)
      PROVE  RegistryTypeOK' /\ ActiveIsIndexed'
  <2> DEFINE new == Len(artifacts) + 1
  <2>1. RegistryTypeOK'
    BY <1>5, RegisterStep
  <2>2. \A id \in 1..Len(artifacts) :
          /\ artifacts'[id].key = artifacts[id].key
          /\ activate /\ id = activeByKey[key] => artifacts'[id].status = "SUPERSEDED"
          /\ ~activate \/ id # activeByKey[key] => artifacts'[id] = artifacts[id]
    <3>1. CASE activate
      <4>1. \A id \in 1..Len(artifacts) : artifacts'[id] = Superseded(key, new)[id]
        BY <1>5, <3>1, RegisterStep
      <4>2. new \in Nat /\ \A id \in 1..Len(artifacts) : id # new
        BY <1>1
      <4>3. QED
        BY <3>1, <4>1, <4>2, SupersededType
    <3>2. CASE ~activate
      BY <1>5, <3>2, RegisterStep
    <3>3. QED
      BY <3>1, <3>2
  <2>3. \A id \in 1..Len(artifacts) :
          artifacts'[id].status = "ACTIVE" <=> activeByKey'[artifacts'[id].key] = id
    <3>1. CASE activate
      <4>1. activeByKey' = [activeByKey EXCEPT ![key] = new]
        BY <1>5, <3>1, RegisterStep
      <4>2. QED
        BY <1>1, <1>2, <1>3, <1>4, <2>2, <3>1, <4>1
    <3>2. CASE ~activate
      <4>1. activeByKey' = activeByKey
        BY <1>5, <3>2, RegisterStep
      <4>2. QED
        BY <1>4, <2>2, <3>2, <4>1
    <3>3. QED
      BY <3>1, <3>2
  <2>4. artifacts'[new].status = "ACTIVE" <=> activeByKey'[artifacts'[new].key] = new
    <3>1. CASE activate
      <4>1. activeByKey' = [activeByKey EXCEPT ![key] = new] /\ artifacts'[new].key = key
            /\ artifacts'[new].status = "ACTIVE"
        BY <1>5, <3>1, RegisterStep
      <4>2. QED
        BY <1>2, <4>1
    <3>2. CASE ~activate
      <4>1. activeByKey' = activeByKey /\ artifacts'[new].key = key
            /\ artifacts'[new].status = "DRAFT"
        BY <1>5, <3>2, RegisterStep
      <4>2. QED
        BY <1>1, <1>2, <4>1
    <3>3. QED
      BY <3>1, <3>2
  <2>5. \A k \in LogicalKey : activeByKey'[k] # 0 =>
          activeByKey'[k] \in 1..new /\ artifacts'[activeByKey'[k]].key = k
    <3>1. artifacts'[new].key = key
      BY <1>5, RegisterStep
    <3>2. \A k \in LogicalKey : activeByKey'[k] = activeByKey[k] \/ (k = key /\ activeByKey'[k] = new)
      <4>1. activeByKey' = activeByKey \/ activeByKey' = [activeByKey EXCEPT ![key] = new]
        BY <1>5, RegisterStep
      <4>2. QED
        BY <1>2, <4>1
    <3>3. new \in 1..new /\ \A i \in 1..Len(artifacts) : i \in 1..new
      BY <1>1
    <3>4. QED
      BY <1>2, <2>2, <3>1, <3>2, <3>3
  <2>6. DOMAIN artifacts' = 1..new /\ 1..new = 1..Len(artifacts) \cup {new}
    BY <1>1, <1>5, RegisterStep DEF RegistryTypeOK
  <2>7. QED
    BY <2>1, <2>3, <2>4, <2>5, <2>6 DEF ActiveIsIndexed
<1>6. ASSUME NEW id \in DOMAIN artifacts, Activate(id)
      PROVE  RegistryTypeOK' /\ ActiveIsIndexed'
  <2> DEFINE key == artifacts[id].key
  <2>1. RegistryTypeOK' /\ DOMAIN artifacts' = 1..Len(artifacts)
    BY <1>6, ActivateStep DEF RegistryTypeOK
  <2>2. key \in LogicalKey /\ id \in 1..Len(artifacts) /\ id \in Nat
    BY <1>1, <1>3
  <2>3. activeByKey' = [activeByKey EXCEPT ![key] = id]
    BY <1>6, ActivateStep
  <2>4. \A other \in 1..Len(artifacts) : other # id => artifacts'[other] = Superseded(key, id)[other]
    BY <1>6, ActivateStep
  <2> HIDE DEF key
  <2>5. \A other \in 1..Len(artifacts) : other # id =>
          /\ artifacts'[other].key = artifacts[other].key
          /\ other = activeByKey[key] => artifacts'[other].status = "SUPERSEDED"
          /\ other # activeByKey[key] => artifacts'[other] = artifacts[other]
    BY <2>2, <2>4, SupersededType
  <2>6. artifacts'[id].key = key /\ artifacts[id].key = key /\ artifacts'[id].status = "ACTIVE"
    BY <1>6, ActivateStep DEF key
  <2>7. \A other \in 1..Len(artifacts) :
          artifacts'[other].status = "ACTIVE" <=> activeByKey'[artifacts'[other].key] = other
    BY <1>2, <1>3, <1>4, <2>2, <2>3, <2>5, <2>6
  <2>8. \A k \in LogicalKey : activeByKey'[k] # 0 =>
          activeByKey'[k] \in 1..Len(artifacts) /\ artifacts'[activeByKey'[k]].key = k
    BY <1>2, <2>2, <2>3, <2>5, <2>6
  <2>9. QED
    BY <2>1, <2>7, <2>8 DEF ActiveIsIndexed
<1>7. ASSUME NEW id \in DOMAIN artifacts, NEW status \in RetiredStatus, Retire(id, status)
      PROVE  RegistryTypeOK' /\ ActiveIsIndexed'
  <2>1. RegistryTypeOK' /\ DOMAIN artifacts' = 1..Len(artifacts)
    BY <1>7, RetireStep DEF RegistryTypeOK
  <2>2. id \in 1..Len(artifacts) /\ status # "ACTIVE" /\ artifacts'[id].status = status
    BY <1>1, <1>7, RetireStep DEF RetiredStatus
  <2>3. \A other \in 1..Len(artifacts) :
          /\ artifacts'[other].key = artifacts[other].key
          /\ other # id => artifacts'[other] = artifacts[other]
    BY <1>7, RetireStep
  <2>4. \A k \in LogicalKey : activeByKey'[k] = IF activeByKey[k] = id THEN 0 ELSE activeByKey[k]
    BY <1>7, RetireStep
  <2>5. \A other \in 1..Len(artifacts) :
          artifacts'[other].status = "ACTIVE" <=> activeByKey'[artifacts'[other].key] = other
    BY <1>1, <1>2, <1>3, <1>4, <2>2, <2>3, <2>4
  <2>6. \A k \in LogicalKey : activeByKey'[k] # 0 =>
          activeByKey'[k] \in 1..Len(artifacts) /\ artifacts'[activeByKey'[k]].key = k
    BY <1>2, <2>3, <2>4
  <2>7. QED
    BY <2>1, <2>5, <2>6 DEF ActiveIsIndexed
<1>8. CASE UNCHANGED registryVars
  BY <1>8 DEF registryVars, ActiveIsIndexed, RegistryTypeOK
<1>9. QED
  BY <1>5, <1>6, <1>7, <1>8 DEF RegistryNext

\* The registry starts empty.
LEMMA RegistryStart == RegistryInit => RegistryTypeOK /\ ActiveIsIndexed /\ SupersessionIsTraced
<1> SUFFICES ASSUME RegistryInit
             PROVE  RegistryTypeOK /\ ActiveIsIndexed /\ SupersessionIsTraced
  OBVIOUS
<1>1. artifacts = <<>> /\ DOMAIN artifacts = {} /\ \A key \in LogicalKey : activeByKey[key] = 0
  BY DEF RegistryInit
<1>2. RegistryTypeOK
  BY DEF RegistryInit, RegistryTypeOK
<1>3. QED
  BY <1>1, <1>2 DEF ActiveIsIndexed, SupersessionIsTraced

\* In every reachable state of the registry, the index names exactly the active
\* artifacts, one per key, and every record has its type.
THEOREM ActiveIndexed == RegistrySpec => [](RegistryTypeOK /\ ActiveIsIndexed)
BY RegistryStart, RegistryStep, PTL DEF RegistrySpec

\* A superseded artifact always names another artifact of its key.
THEOREM SupersessionTraced == RegistrySpec => []SupersessionIsTraced
<1>1. RegistryTypeOK /\ ActiveIsIndexed /\ SupersessionIsTraced /\ [RegistryNext]_registryVars
        => SupersessionIsTraced'
  <2> SUFFICES ASSUME RegistryTypeOK, ActiveIsIndexed, SupersessionIsTraced,
                      [RegistryNext]_registryVars
               PROVE  SupersessionIsTraced'
    OBVIOUS
  <2>1. artifacts \in Seq(Artifact) /\ \A id \in 1..Len(artifacts) : artifacts[id] \in Artifact
    BY DEF RegistryTypeOK
  <2>2. \A key \in LogicalKey : activeByKey[key] \in Nat /\
          (activeByKey[key] # 0 => artifacts[activeByKey[key]].key = key)
    BY DEF ActiveIsIndexed, RegistryTypeOK
  <2>3. ASSUME NEW key \in LogicalKey, NEW activate \in BOOLEAN, Register(key, activate)
        PROVE  SupersessionIsTraced'
    <3> DEFINE new == Len(artifacts) + 1
    <3>1. /\ DOMAIN artifacts' = 1..new
          /\ artifacts'[new].key = key /\ artifacts'[new].status # "SUPERSEDED"
      BY <2>3, RegisterStep DEF RegistryTypeOK
    <3>2. \A id \in 1..Len(artifacts) :
            \/ artifacts'[id] = artifacts[id]
            \/ /\ artifacts[id].key = key /\ artifacts'[id].key = key
               /\ artifacts'[id].supersededBy = new
      <4>1. new \in Nat /\ \A id \in 1..Len(artifacts) : id # new /\ id # 0
        BY <2>1
      <4>2. CASE activate
        <5>1. \A id \in 1..Len(artifacts) : artifacts'[id] = Superseded(key, new)[id]
          BY <2>3, <4>2, RegisterStep
        <5>2. QED
          BY <2>2, <4>1, <5>1, SupersededType
      <4>3. CASE ~activate
        BY <2>3, <4>3, RegisterStep
      <4>4. QED
        BY <4>2, <4>3
    <3>3. QED
      BY <2>1, <3>1, <3>2 DEF SupersessionIsTraced
  <2>4. ASSUME NEW id \in DOMAIN artifacts, Activate(id)
        PROVE  SupersessionIsTraced'
    <3>1. /\ DOMAIN artifacts' = 1..Len(artifacts) /\ id \in 1..Len(artifacts)
          /\ artifacts'[id].key = artifacts[id].key /\ artifacts'[id].status # "SUPERSEDED"
      BY <2>4, ActivateStep DEF RegistryTypeOK
    <3>2. \A other \in 1..Len(artifacts) : other # id =>
            \/ artifacts'[other] = artifacts[other]
            \/ /\ artifacts[other].key = artifacts[id].key
               /\ artifacts'[other].key = artifacts[id].key
               /\ artifacts'[other].supersededBy = id
      <4>1. artifacts[id].key \in LogicalKey /\ id \in Nat
        BY <2>1, <3>1 DEF Artifact
      <4>2. \A other \in 1..Len(artifacts) : other # 0 /\
              (other # id => artifacts'[other] = Superseded(artifacts[id].key, id)[other])
        BY <2>4, ActivateStep
      <4>3. QED
        BY <2>2, <4>1, <4>2, SupersededType
    <3>3. QED
      BY <2>1, <3>1, <3>2 DEF SupersessionIsTraced
  <2>5. ASSUME NEW id \in DOMAIN artifacts, NEW status \in RetiredStatus, Retire(id, status)
        PROVE  SupersessionIsTraced'
    <3>1. /\ DOMAIN artifacts' = 1..Len(artifacts)
          /\ artifacts'[id].key = artifacts[id].key /\ artifacts'[id].status # "SUPERSEDED"
      BY <2>5, RetireStep DEF RetiredStatus, RegistryTypeOK
    <3>2. \A other \in 1..Len(artifacts) : other # id => artifacts'[other] = artifacts[other]
      BY <2>5, RetireStep
    <3>3. QED
      BY <2>1, <3>1, <3>2 DEF SupersessionIsTraced
  <2>6. CASE UNCHANGED registryVars
    BY <2>6 DEF registryVars, SupersessionIsTraced
  <2>7. QED
    BY <2>3, <2>4, <2>5, <2>6 DEF RegistryNext
<1>2. QED
  BY <1>1, RegistryStart, ActiveIndexed, PTL DEF RegistrySpec

\* No operation brings back what was rejected or archived, or changes more of it
\* than which of the two it is.
THEOREM RetiredStay == RegistrySpec => RetiredStays
<1>1. RegistryTypeOK /\ ActiveIsIndexed /\ [RegistryNext]_registryVars => [KeepsRetired]_registryVars
  <2> SUFFICES ASSUME RegistryTypeOK, ActiveIsIndexed, RegistryNext
               PROVE  KeepsRetired
    BY DEF registryVars
  <2>1. DOMAIN artifacts = 1..Len(artifacts) /\ \A id \in 1..Len(artifacts) : artifacts[id] \in Artifact
    BY DEF RegistryTypeOK
  <2>2. \A key \in LogicalKey : activeByKey[key] # 0 => artifacts[activeByKey[key]].status = "ACTIVE"
    BY DEF ActiveIsIndexed
  <2>3. ASSUME NEW key \in LogicalKey, NEW activate \in BOOLEAN, Register(key, activate),
               NEW id \in 1..Len(artifacts), artifacts[id].status \in RetiredStatus
        PROVE  artifacts'[id] = artifacts[id]
    <3>1. Len(artifacts) + 1 \in Nat
      BY DEF RegistryTypeOK
    <3>2. id # activeByKey[key]
      BY <2>2, <2>3 DEF RetiredStatus
    <3>3. Superseded(key, Len(artifacts) + 1)[id] = artifacts[id]
      BY <3>1, <3>2, SupersededType
    <3>4. QED
      BY <2>3, <3>3, RegisterStep
  <2>4. ASSUME NEW id \in DOMAIN artifacts, Activate(id),
               NEW other \in 1..Len(artifacts), artifacts[other].status \in RetiredStatus
        PROVE  artifacts'[other] = artifacts[other]
    <3>1. artifacts[id].key \in LogicalKey /\ id \in Nat
      BY <2>1 DEF Artifact
    <3>2. other # activeByKey[artifacts[id].key] /\ other # id
      BY <2>2, <2>4, <3>1 DEF RetiredStatus, Activate, Activatable
    <3>3. Superseded(artifacts[id].key, id)[other] = artifacts[other]
      BY <3>1, <3>2, SupersededType
    <3>4. QED
      BY <2>4, <3>2, <3>3, ActivateStep
  <2>5. ASSUME NEW other \in 1..Len(artifacts), artifacts[other].status \in RetiredStatus,
               artifacts'[other] = artifacts[other]
        PROVE  \E status \in RetiredStatus : artifacts'[other] = WithStatus(artifacts[other], status)
    <3>1. artifacts[other] \in Artifact
      BY <2>1
    <3>2. WithStatus(artifacts[other], artifacts[other].status) = artifacts[other]
      BY <3>1 DEF WithStatus, Artifact
    <3> QED BY <2>5, <3>2
  <2>6. ASSUME NEW id \in DOMAIN artifacts, NEW status \in RetiredStatus, Retire(id, status),
               NEW other \in 1..Len(artifacts), artifacts[other].status \in RetiredStatus
        PROVE  \E s \in RetiredStatus : artifacts'[other] = WithStatus(artifacts[other], s)
    <3>1. CASE other = id
      BY <2>6, <3>1, RetireStep
    <3>2. CASE other # id
      BY <2>5, <2>6, <3>2, RetireStep
    <3> QED BY <3>1, <3>2
  <2>7. QED
    BY <2>1, <2>3, <2>4, <2>5, <2>6 DEF RegistryNext, KeepsRetired
<1>2. QED
  BY <1>1, ActiveIndexed, PTL DEF RegistrySpec, RetiredStays

\* What a new map leaves in the older ones.
LEMMA SupersededMapsType ==
  ASSUME TraceTypeOK, NEW project \in Project, NEW id \in Nat
  PROVE  /\ SupersededMaps(project, id) \in Seq(ProjectMap)
         /\ Len(SupersededMaps(project, id)) = Len(projectMaps)
         /\ \A m \in 1..Len(projectMaps) :
              /\ SupersededMaps(project, id)[m].project = projectMaps[m].project
              /\ projectMaps[m].project = project =>
                   SupersededMaps(project, id)[m].status = "SUPERSEDED"
              /\ projectMaps[m].project # project =>
                   SupersededMaps(project, id)[m] = projectMaps[m]
<1> DEFINE old == SupersededMaps(project, id)
<1>1. DOMAIN projectMaps = 1..Len(projectMaps) /\ Len(projectMaps) \in Nat
  BY DEF TraceTypeOK
<1>2. ASSUME NEW m \in 1..Len(projectMaps)
      PROVE  /\ old[m] \in ProjectMap
             /\ old[m].project = projectMaps[m].project
             /\ projectMaps[m].project = project => old[m].status = "SUPERSEDED"
             /\ projectMaps[m].project # project => old[m] = projectMaps[m]
  <2>1. projectMaps[m] \in ProjectMap
    BY DEF TraceTypeOK
  <2>2. old[m] = IF projectMaps[m].project = project /\ projectMaps[m].status = "ACTIVE"
                 THEN [projectMaps[m] EXCEPT !.status = "SUPERSEDED", !.supersededBy = id]
                 ELSE projectMaps[m]
    BY <1>1 DEF SupersededMaps
  <2>3. QED
    BY <2>1, <2>2 DEF ProjectMap
<1>3. DOMAIN old = 1..Len(projectMaps) /\ old = [m \in 1..Len(projectMaps) |-> old[m]]
  BY <1>1 DEF SupersededMaps
<1> HIDE DEF old
<1>4. old \in Seq(ProjectMap) /\ Len(old) = Len(projectMaps)
  BY <1>1, <1>2, <1>3
<1>5. QED
  BY <1>2, <1>4 DEF old

\* What a new map leaves in the contexts.
LEMMA InvalidatedType ==
  ASSUME TraceTypeOK, NEW project \in Project
  PROVE  /\ InvalidatedContexts(project) \in Seq(Context)
         /\ Len(InvalidatedContexts(project)) = Len(contexts)
         /\ \A c \in 1..Len(contexts) :
              /\ InvalidatedContexts(project)[c].project = contexts[c].project
              /\ InvalidatedContexts(project)[c].projectMap = contexts[c].projectMap
              /\ InvalidatedContexts(project)[c].status = "ACTIVE" =>
                   contexts[c].status = "ACTIVE" /\ contexts[c].project # project
<1> DEFINE left == InvalidatedContexts(project)
<1>1. DOMAIN contexts = 1..Len(contexts) /\ Len(contexts) \in Nat
  BY DEF TraceTypeOK
<1>2. ASSUME NEW c \in 1..Len(contexts)
      PROVE  /\ left[c] \in Context
             /\ left[c].project = contexts[c].project /\ left[c].projectMap = contexts[c].projectMap
             /\ left[c].status = "ACTIVE" =>
                  contexts[c].status = "ACTIVE" /\ contexts[c].project # project
  <2>1. contexts[c] \in Context
    BY DEF TraceTypeOK
  <2>2. left[c] = IF contexts[c].project = project /\ contexts[c].status = "ACTIVE"
                  THEN [contexts[c] EXCEPT !.status = "INVALID"] ELSE contexts[c]
    BY <1>1 DEF InvalidatedContexts
  <2>3. QED
    BY <2>1, <2>2 DEF Context
<1>3. DOMAIN left = 1..Len(contexts) /\ left = [c \in 1..Len(contexts) |-> left[c]]
  BY <1>1 DEF InvalidatedContexts
<1> HIDE DEF left
<1>4. left \in Seq(Context) /\ Len(left) = Len(contexts)
  BY <1>1, <1>2, <1>3
<1>5. QED
  BY <1>2, <1>4 DEF left

\* The inductive invariant of the trace registry. That a context follows its
\* map rests on the active map being the latest: only a new map ends another.
TraceInv == TraceTypeOK /\ LatestMapIsActive /\ ContextsFollowMaps

\* A new map and a new context, and a context that is invalidated, keep it.
LEMMA TraceStep == TraceInv /\ [TraceNext]_traceVars => TraceInv'
<1> SUFFICES ASSUME TraceInv, [TraceNext]_traceVars
             PROVE  TraceInv'
  OBVIOUS
<1>1. /\ DOMAIN projectMaps = 1..Len(projectMaps) /\ Len(projectMaps) \in Nat
      /\ DOMAIN contexts = 1..Len(contexts) /\ Len(contexts) \in Nat
      /\ projectMaps \in Seq(ProjectMap) /\ contexts \in Seq(Context)
  BY DEF TraceInv, TraceTypeOK
<1>2. /\ \A m \in 1..Len(projectMaps) : projectMaps[m] \in ProjectMap
      /\ \A c \in 1..Len(contexts) : contexts[c] \in Context
  BY <1>1
<1>3. ASSUME NEW project \in Project, RegisterProjectMap(project)
      PROVE  TraceInv'
  <2> DEFINE id == Len(projectMaps) + 1
             old == SupersededMaps(project, id)
             new == [project |-> project, status |-> "ACTIVE", supersededBy |-> 0]
             left == InvalidatedContexts(project)
  <2>1. projectMaps' = Append(old, new) /\ contexts' = left
    BY <1>3 DEF RegisterProjectMap
  <2>2. id \in Nat /\ TraceTypeOK
    BY <1>1 DEF TraceInv
  <2>3. /\ old \in Seq(ProjectMap) /\ Len(old) = Len(projectMaps)
        /\ \A m \in 1..Len(projectMaps) :
             /\ old[m].project = projectMaps[m].project
             /\ projectMaps[m].project = project => old[m].status = "SUPERSEDED"
             /\ projectMaps[m].project # project => old[m] = projectMaps[m]
    BY <2>2, SupersededMapsType
  <2>4. /\ left \in Seq(Context) /\ Len(left) = Len(contexts)
        /\ \A c \in 1..Len(contexts) :
             /\ left[c].project = contexts[c].project
             /\ left[c].projectMap = contexts[c].projectMap
             /\ left[c].status = "ACTIVE" =>
                  contexts[c].status = "ACTIVE" /\ contexts[c].project # project
    BY <2>2, InvalidatedType
  <2>5. new \in ProjectMap /\ new.project = project /\ new.status = "ACTIVE"
    BY DEF ProjectMap
  <2> HIDE DEF old, new, left
  <2>6. /\ projectMaps' \in Seq(ProjectMap) /\ DOMAIN projectMaps' = 1..id
        /\ projectMaps'[id] = new
        /\ \A m \in 1..Len(projectMaps) : projectMaps'[m] = old[m]
    BY <1>1, <2>1, <2>3, <2>5
  <2>7. TraceTypeOK'
    BY <2>1, <2>4, <2>6 DEF TraceTypeOK
  <2>8. LatestMapIsActive'
    <3>1. \A m \in 1..id : m = id \/ m \in 1..Len(projectMaps)
      BY <1>1
    <3>2. \A m \in 1..Len(projectMaps) : m \in 1..id /\ ~(id <= m) /\ m <= id
      BY <1>1
    <3>3. \A m \in 1..id : m <= id
      BY <1>1
    <3>4. id \in 1..id
      BY <1>1
    <3>5. \A m \in 1..Len(projectMaps) : projectMaps[m].status = "ACTIVE" <=>
            \A n \in 1..Len(projectMaps) : projectMaps[n].project = projectMaps[m].project => n <= m
      BY <1>1 DEF TraceInv, LatestMapIsActive
    <3>6. \A m \in 1..Len(projectMaps) : projectMaps'[m].status = "ACTIVE" <=>
            \A n \in 1..id : projectMaps'[n].project = projectMaps'[m].project => n <= m
      <4>1. SUFFICES ASSUME NEW m \in 1..Len(projectMaps)
                     PROVE  projectMaps'[m].status = "ACTIVE" <=>
                              \A n \in 1..id : projectMaps'[n].project = projectMaps'[m].project => n <= m
        OBVIOUS
      <4>2. CASE projectMaps[m].project = project
        BY <2>3, <2>5, <2>6, <3>2, <3>4, <4>2
      <4>3. CASE projectMaps[m].project # project
        <5>1. projectMaps'[m] = projectMaps[m]
          BY <2>3, <2>6, <4>3
        <5>2. \A n \in 1..id : projectMaps'[n].project = projectMaps'[m].project <=>
                n \in 1..Len(projectMaps) /\ projectMaps[n].project = projectMaps[m].project
          BY <1>1, <2>3, <2>5, <2>6, <3>1, <4>3, <5>1
        <5>3. QED
          BY <3>2, <3>5, <5>1, <5>2
      <4>4. QED
        BY <4>2, <4>3
    <3>7. QED
      BY <2>5, <2>6, <3>1, <3>3, <3>6 DEF LatestMapIsActive
  <2>9. ContextsFollowMaps'
    <3>1. \A c \in 1..Len(contexts) :
            LET m == contexts[c].projectMap
            IN /\ m \in 1..Len(projectMaps) /\ projectMaps[m].project = contexts[c].project
               /\ contexts[c].status = "ACTIVE" => projectMaps[m].status = "ACTIVE"
      BY <1>1 DEF TraceInv, ContextsFollowMaps
    <3>2. DOMAIN contexts' = 1..Len(contexts) /\ \A m \in 1..Len(projectMaps) : m \in 1..id
      BY <1>1, <2>1, <2>4
    <3>3. ASSUME NEW c \in 1..Len(contexts)
          PROVE  LET m == contexts'[c].projectMap
                 IN /\ m \in DOMAIN projectMaps' /\ projectMaps'[m].project = contexts'[c].project
                    /\ contexts'[c].status = "ACTIVE" => projectMaps'[m].status = "ACTIVE"
      <4> DEFINE m == contexts[c].projectMap
      <4>1. /\ contexts'[c].projectMap = m /\ contexts'[c].project = contexts[c].project
            /\ contexts'[c].status = "ACTIVE" =>
                 contexts[c].status = "ACTIVE" /\ contexts[c].project # project
        BY <2>1, <2>4
      <4>2. /\ m \in 1..Len(projectMaps) /\ projectMaps[m].project = contexts[c].project
            /\ contexts[c].status = "ACTIVE" => projectMaps[m].status = "ACTIVE"
        BY <3>1
      <4>3. /\ projectMaps'[m].project = projectMaps[m].project
            /\ projectMaps[m].project # project => projectMaps'[m] = projectMaps[m]
        BY <2>3, <2>6, <4>2
      <4>4. m \in DOMAIN projectMaps'
        BY <2>6, <3>2, <4>2
      <4>5. QED
        BY <4>1, <4>2, <4>3, <4>4
    <3>4. QED
      BY <3>2, <3>3 DEF ContextsFollowMaps
  <2>10. QED
    BY <2>7, <2>8, <2>9 DEF TraceInv
<1>4. ASSUME NEW m \in DOMAIN projectMaps, CreateContextManifest(m)
      PROVE  TraceInv'
  <2> DEFINE new == [projectMap |-> m, project |-> projectMaps[m].project, status |-> "ACTIVE"]
  <2>1. contexts' = Append(contexts, new) /\ projectMaps' = projectMaps
        /\ projectMaps[m].status = "ACTIVE"
    BY <1>4 DEF CreateContextManifest
  <2>2. /\ new \in Context /\ new.projectMap = m /\ new.project = projectMaps[m].project
    BY <1>1, <1>2 DEF Context, ProjectMap
  <2> HIDE DEF new
  <2>3. /\ contexts' \in Seq(Context) /\ DOMAIN contexts' = 1..(Len(contexts) + 1)
        /\ contexts'[Len(contexts) + 1] = new
        /\ \A c \in 1..Len(contexts) : contexts'[c] = contexts[c]
    BY <1>1, <2>1, <2>2
  <2>4. \A c \in 1..(Len(contexts) + 1) : c \in 1..Len(contexts) \/ c = Len(contexts) + 1
    BY <1>1
  <2>5. TraceTypeOK' /\ LatestMapIsActive'
    BY <2>1, <2>3 DEF TraceInv, TraceTypeOK, LatestMapIsActive
  <2>6. ContextsFollowMaps'
    BY <1>1, <2>1, <2>2, <2>3, <2>4 DEF TraceInv, ContextsFollowMaps
  <2>7. QED
    BY <2>5, <2>6 DEF TraceInv
<1>5. ASSUME NEW c \in DOMAIN contexts, InvalidateContext(c)
      PROVE  TraceInv'
  <2> DEFINE new == [contexts[c] EXCEPT !.status = "INVALID"]
  <2>1. contexts' = [contexts EXCEPT ![c] = new] /\ projectMaps' = projectMaps
    BY <1>5 DEF InvalidateContext
  <2>2. /\ new \in Context /\ new.status # "ACTIVE"
        /\ new.project = contexts[c].project /\ new.projectMap = contexts[c].projectMap
    BY <1>1, <1>2 DEF Context
  <2> HIDE DEF new
  <2>3. /\ contexts' \in Seq(Context) /\ DOMAIN contexts' = 1..Len(contexts)
        /\ contexts'[c] = new
        /\ \A d \in 1..Len(contexts) : d # c => contexts'[d] = contexts[d]
    BY <1>1, <2>1, <2>2
  <2>4. TraceTypeOK' /\ LatestMapIsActive'
    BY <2>1, <2>3 DEF TraceInv, TraceTypeOK, LatestMapIsActive
  <2>5. ContextsFollowMaps'
    BY <1>1, <2>1, <2>2, <2>3 DEF TraceInv, ContextsFollowMaps
  <2>6. QED
    BY <2>4, <2>5 DEF TraceInv
<1>6. CASE UNCHANGED traceVars
  BY <1>6 DEF traceVars, TraceInv, TraceTypeOK, LatestMapIsActive, ContextsFollowMaps
<1>7. QED
  BY <1>3, <1>4, <1>5, <1>6 DEF TraceNext

\* In every reachable state of the trace registry, the active map of a project
\* is its latest, and an active context is one of the active map.
THEOREM ContextsFollow == TraceSpec => []TraceTypeOK /\ []LatestMapIsActive /\ []ContextsFollowMaps
<1>1. TraceInit => TraceInv
  <2> SUFFICES ASSUME TraceInit
               PROVE  TraceInv
    OBVIOUS
  <2>1. projectMaps = <<>> /\ contexts = <<>> /\ DOMAIN projectMaps = {} /\ DOMAIN contexts = {}
    BY DEF TraceInit
  <2>2. TraceTypeOK
    BY <2>1 DEF TraceTypeOK
  <2>3. QED
    BY <2>1, <2>2 DEF TraceInv, LatestMapIsActive, ContextsFollowMaps
<1>2. TraceInv => TraceTypeOK /\ LatestMapIsActive /\ ContextsFollowMaps
  BY DEF TraceInv
<1>3. QED
  BY <1>1, <1>2, TraceStep, PTL DEF TraceSpec

------------------------------------------------------------------------------
\* The calls that share a millisecond with a call.
AtMostTwo == \A c, d, e \in Call :
    moment[c] = moment[d] /\ moment[d] = moment[e] => c = d \/ d = e \/ c = e

\* A call that opened its temporary file and has not renamed it.
Opened == {"opened", "written", "synced"}

\* A temporary file belongs to a call of its millisecond that opened it and has
\* neither renamed nor removed it, and no other call believes to have it open.
TempsAreOwned ==
  \A m \in Moment : temp[m] # NoFile =>
     /\ moment[temp[m]] = m
     /\ writing[temp[m]] \in Opened \cup {"failing"}
     /\ \A c \in Call : c # temp[m] /\ moment[c] = m => writing[c] \notin Opened
\* A call whose temporary file is not there lost it to the other call of its
\* millisecond, which has failed and will not open one again.
LostToFailed ==
  \A c \in Call : writing[c] \in Opened /\ Temp(c) # c =>
    \E d \in Call : d # c /\ moment[d] = moment[c] /\ writing[d] = "failed"

\* Who is past writing wrote all of its file.
WrittenIsWhole == \A c \in Call : writing[c] \in {"written", "synced", "stored"} => c \in whole

\* The inductive invariant of the store.
StoreInv == StoreTypeOK /\ AtMostTwo /\ TempsAreOwned /\ LostToFailed /\ WrittenIsWhole /\ RecordsAreWhole

\* Every file operation preserves it.
LEMMA StoreStep == StoreInv /\ [StoreNext]_storeVars => StoreInv'
<1> SUFFICES ASSUME StoreInv, [StoreNext]_storeVars
             PROVE  StoreInv'
  OBVIOUS
<1> USE StoreAssumption DEF StoreInv, StoreTypeOK, AtMostTwo, TempsAreOwned, LostToFailed,
        WrittenIsWhole, RecordsAreWhole, Opened, CallGoes, Temp
<1>1. ASSUME NEW c \in Call, CheckRecord(c) PROVE StoreInv'
  BY <1>1 DEF CheckRecord
<1>2. ASSUME NEW c \in Call, OpenTemp(c) PROVE StoreInv'
  BY <1>2 DEF OpenTemp
<1>3. ASSUME NEW c \in Call, WriteTemp(c) PROVE StoreInv'
  BY <1>3 DEF WriteTemp
<1>4. ASSUME NEW c \in Call, SyncTemp(c) PROVE StoreInv'
  BY <1>4 DEF SyncTemp
<1>5. ASSUME NEW c \in Call, RenameTemp(c) PROVE StoreInv'
  BY <1>5 DEF RenameTemp
<1>6. ASSUME NEW c \in Call, RemoveTemp(c) PROVE StoreInv'
  BY <1>6 DEF RemoveTemp
<1>7. CASE UNCHANGED storeVars
  BY <1>7 DEF storeVars
<1> QED BY <1>1, <1>2, <1>3, <1>4, <1>5, <1>6, <1>7 DEF StoreNext

\* It holds at the start: if three calls shared a millisecond, the set of those
\* that do would have three members.
LEMMA StoreInitHolds ==
  ASSUME IsFiniteSet(Call), PerMoment \in 0..2, StoreInit
  PROVE  StoreInv
<1>1. ASSUME NEW c \in Call, NEW d \in Call, NEW e \in Call,
             moment[c] = moment[d], moment[d] = moment[e], c # d, d # e, c # e
      PROVE  FALSE
  <2> DEFINE same == {b \in Call : moment[b] = moment[c]}
  <2>1. {c, d, e} \subseteq same /\ same \subseteq Call
    BY <1>1
  <2>2. IsFiniteSet(same) /\ Cardinality(same) \in Nat
    BY <2>1, FS_Subset, FS_CardinalityType
  <2>3. Cardinality(same) <= 2
    <3>1. moment[c] \in Moment
      BY DEF StoreInit
    <3>2. Cardinality(same) <= PerMoment
      BY <3>1 DEF StoreInit
    <3> QED BY <3>2, <2>2
  <2>4. IsFiniteSet({c}) /\ Cardinality({c}) = 1
    BY FS_Singleton
  <2>5. IsFiniteSet({c} \cup {d}) /\ Cardinality({c} \cup {d}) = 2
    <3>1. d \notin {c} /\ 1 + 1 = 2
      BY <1>1
    <3> QED BY <2>4, <3>1, FS_AddElement
  <2>6. Cardinality(({c} \cup {d}) \cup {e}) = 3
    <3>1. e \notin {c} \cup {d} /\ 2 + 1 = 3
      BY <1>1
    <3> QED BY <2>5, <3>1, FS_AddElement
  <2>7. Cardinality({c, d, e}) = 3
    <3>1. {c, d, e} = ({c} \cup {d}) \cup {e}
      OBVIOUS
    <3> QED BY <3>1, <2>6
  <2>8. Cardinality({c, d, e}) <= Cardinality(same)
    BY <2>1, <2>2, FS_Subset
  <2> HIDE DEF same
  <2> QED BY <2>2, <2>3, <2>7, <2>8
<1>2. AtMostTwo
  BY <1>1 DEF AtMostTwo
<1> QED
  BY <1>2, StoreAssumption
  DEF StoreInit, StoreInv, StoreTypeOK, TempsAreOwned, LostToFailed, WrittenIsWhole, RecordsAreWhole, Opened

\* With at most two calls of one millisecond, the record is never anything but
\* the whole file of a call that reports success.
THEOREM RecordsStayWhole ==
  ASSUME IsFiniteSet(Call), PerMoment \in 0..2
  PROVE  StoreSpec => []RecordsAreWhole
<1>1. StoreInit => StoreInv
  BY StoreInitHolds
<1>2. StoreInv => RecordsAreWhole
  BY DEF StoreInv
<1> QED
  BY <1>1, <1>2, StoreStep, PTL DEF StoreSpec

----------------------------------------------------------------------------
(* OsRuntime. Two counters number the events: the size of the store for the *)
(* runtime's own, the version of the workflow for those of transitions. The *)
(* inductive invariant says that neither has produced a number beyond the   *)
(* size of the store, so that the next one is new; a transition whose event *)
(* is refused raises the version without adding to the store, but only when *)
(* its number was in use.                                                   *)

\* What append does to the log.
LEMMA AppendOnce ==
  ASSUME log \in Seq(StoredEvent), NEW event \in StoredEvent, log' = Appended(log, event)
  PROVE  \/ /\ event.id \in Ids(log) \/ event.key \in Keys(log)
            /\ log' = log
         \/ /\ event.id \notin Ids(log) /\ event.key \notin Keys(log)
            /\ log' \in Seq(StoredEvent)
            /\ Len(log') = Len(log) + 1
            /\ log'[Len(log) + 1] = event
            /\ \A i \in 1..Len(log) : log'[i] = log[i]
<1>1. CASE event.id \in Ids(log) \/ event.key \in Keys(log)
  BY <1>1 DEF Appended
<1>2. CASE ~(event.id \in Ids(log) \/ event.key \in Keys(log))
  <2>1. log' = Append(log, event)
    BY <1>2 DEF Appended
  <2>2. /\ log' \in Seq(StoredEvent)
        /\ Len(log') = Len(log) + 1
        /\ log'[Len(log) + 1] = event
        /\ \A i \in 1..Len(log) : log'[i] = log[i]
    BY <2>1
  <2> QED
    BY <1>2, <2>2
<1> QED
  BY <1>1, <1>2

\* The numbers of a stored event.
LEMMA StoredNumbers ==
  ASSUME NEW event \in StoredEvent
  PROVE  event.id[2] \in Nat /\ event.key[3] \in Nat
<1>1. event.id \in Workflow \X Nat
  BY DEF StoredEvent
<1>2. event.key \in Workflow \X (RuntimeEvent \union {"transition"}) \X Nat
  BY DEF StoredEvent
<1> QED
  BY <1>1, <1>2

Statuses == Phase \union Status \union TaskStatus

About == [task : Task \union {NoTask}, from : Seq(Statuses), to : Seq(Statuses), version : Nat]

\* No number beyond the size of the store has been used.
EventsNumbered ==
  \A i \in DOMAIN log : log[i].id[2] <= Len(log) /\ log[i].key[3] <= Len(log)

VersionsNumbered == \A w \in DOMAIN workflows : workflows[w].version <= Len(log)

\* Executions in flight are of tasks the runtime has.
ExecutionsHaveTasks ==
  \A w \in Workflow, t \in Task :
    inFlight[w][t] > 0 => w \in DOMAIN workflows /\ t \in DOMAIN tasks[w]

Inv == TypeOK /\ EventsNumbered /\ VersionsNumbered /\ EventsAreDistinct /\ ExecutionsHaveTasks

\* The number after the length of the log is in no stored event.
LEMMA RuntimeEventIsFresh ==
  ASSUME TypeOK, EventsNumbered, NEW w \in Workflow, NEW type \in RuntimeEvent
  PROVE  <<w, Len(log) + 1>> \notin Ids(log) /\ <<w, type, Len(log) + 1>> \notin Keys(log)
<1>1. \A i \in DOMAIN log : log[i].id[2] \in Nat /\ log[i].key[3] \in Nat
  <2>1. \A i \in DOMAIN log : log[i] \in StoredEvent
    BY DEF TypeOK
  <2> QED
    BY <2>1, StoredNumbers
<1>2. Len(log) \in Nat
  BY DEF TypeOK
<1>3. \A i \in DOMAIN log : log[i].id[2] # Len(log) + 1 /\ log[i].key[3] # Len(log) + 1
  BY <1>1, <1>2 DEF EventsNumbered
<1>4. <<w, Len(log) + 1>>[2] = Len(log) + 1 /\ <<w, type, Len(log) + 1>>[3] = Len(log) + 1
  OBVIOUS
<1> QED
  BY <1>3, <1>4 DEF Ids, Keys

\* The runtime's own events are always appended.
LEMMA RecordAppends ==
  ASSUME TypeOK, EventsNumbered, NEW w \in Workflow, NEW type \in RuntimeEvent, NEW about \in About,
         log' = Record(log, w, type, about)
  PROVE  /\ log' \in Seq(StoredEvent)
         /\ Len(log') = Len(log) + 1
         /\ log'[Len(log')] = Event(log, w, type, about)
         /\ \A i \in 1..Len(log) : log'[i] = log[i]
<1> DEFINE event == Event(log, w, type, about)
<1>1. log \in Seq(StoredEvent) /\ clock \in Nat /\ Len(log) \in Nat
  BY DEF TypeOK
<1>2. event \in StoredEvent
  BY <1>1 DEF Event, StoredEvent, About, Statuses
<1>3. event.id \notin Ids(log) /\ event.key \notin Keys(log)
  BY RuntimeEventIsFresh DEF Event
<1>4. log' = Appended(log, event)
  BY DEF Record
<1> HIDE DEF event
<1>5. /\ log' \in Seq(StoredEvent)
      /\ Len(log') = Len(log) + 1
      /\ log'[Len(log) + 1] = event
      /\ \A i \in 1..Len(log) : log'[i] = log[i]
  BY <1>1, <1>2, <1>3, <1>4, AppendOnce
<1> QED
  BY <1>5 DEF event

\* Appending an event numbered at most one beyond the size keeps the log well
\* numbered and its events distinct, whether it is stored or not.
LEMMA LogStaysDistinct ==
  ASSUME TypeOK, EventsNumbered, EventsAreDistinct,
         NEW event \in StoredEvent,
         event.id[2] <= Len(log) + 1, event.key[3] <= Len(log) + 1,
         event.id[2] = event.key[3],
         log' = Appended(log, event)
  PROVE  /\ log' \in Seq(StoredEvent)
         /\ EventsNumbered' /\ EventsAreDistinct'
         /\ Len(log) <= Len(log') /\ event.id[2] <= Len(log')
<1>1. log \in Seq(StoredEvent) /\ Len(log) \in Nat /\ DOMAIN log = 1..Len(log)
  BY DEF TypeOK
<1>2. event.id[2] \in Nat /\ event.key[3] \in Nat
  BY StoredNumbers
<1>3. CASE /\ event.id \in Ids(log) \/ event.key \in Keys(log)
           /\ log' = log
  <2>1. event.id[2] <= Len(log)
    BY <1>3, <1>1 DEF EventsNumbered, Ids, Keys
  <2> QED
    BY <1>1, <1>3, <2>1 DEF EventsNumbered, EventsAreDistinct
<1>4. CASE /\ event.id \notin Ids(log) /\ event.key \notin Keys(log)
           /\ log' \in Seq(StoredEvent)
           /\ Len(log') = Len(log) + 1
           /\ log'[Len(log) + 1] = event
           /\ \A i \in 1..Len(log) : log'[i] = log[i]
  <2>1. DOMAIN log' = 1..(Len(log) + 1)
    BY <1>1, <1>4
  <2>2. \A i \in DOMAIN log : log[i].id[2] \in Nat /\ log[i].key[3] \in Nat
    <3>1. \A i \in DOMAIN log : log[i] \in StoredEvent
      BY DEF TypeOK
    <3> QED
      BY <3>1, StoredNumbers
  <2>3. ASSUME NEW i \in DOMAIN log'
        PROVE  log'[i].id[2] <= Len(log') /\ log'[i].key[3] <= Len(log')
    <3>1. CASE i = Len(log) + 1
      BY <1>2, <1>4, <3>1
    <3>2. CASE i \in 1..Len(log)
      BY <1>1, <1>4, <2>2, <3>2 DEF EventsNumbered
    <3> QED
      BY <1>1, <2>1, <3>1, <3>2
  <2>4. \A i \in 1..Len(log) : log[i].id # event.id /\ log[i].key # event.key
    BY <1>1, <1>4 DEF Ids, Keys
  <2>5. ASSUME NEW i \in DOMAIN log', NEW j \in DOMAIN log', i # j
        PROVE  log'[i].id # log'[j].id /\ log'[i].key # log'[j].key
    <3>1. CASE i \in 1..Len(log) /\ j \in 1..Len(log)
      BY <1>1, <1>4, <2>5, <3>1 DEF EventsAreDistinct
    <3>2. CASE i = Len(log) + 1 /\ j \in 1..Len(log)
      BY <1>4, <2>4, <3>2
    <3>3. CASE i \in 1..Len(log) /\ j = Len(log) + 1
      BY <1>4, <2>4, <3>3
    <3> QED
      BY <1>1, <2>1, <2>5, <3>1, <3>2, <3>3
  <2> QED
    BY <1>1, <1>2, <1>4, <2>3, <2>5 DEF EventsNumbered, EventsAreDistinct
<1> QED
  BY <1>1, <1>3, <1>4, AppendOnce

\* An operation that records its event leaves a log like the one before.
LEMMA RecordKeeps ==
  ASSUME TypeOK, EventsNumbered, EventsAreDistinct,
         NEW w \in Workflow, NEW type \in RuntimeEvent, NEW about \in About,
         log' = Record(log, w, type, about)
  PROVE  log' \in Seq(StoredEvent) /\ EventsNumbered' /\ EventsAreDistinct' /\ Len(log) <= Len(log')
<1> DEFINE event == Event(log, w, type, about)
<1>1. clock \in Nat /\ Len(log) \in Nat
  BY DEF TypeOK
<1>2. event \in StoredEvent
  BY <1>1 DEF Event, StoredEvent, About, Statuses
<1>3. event.id[2] = Len(log) + 1 /\ event.key[3] = Len(log) + 1
  BY DEF Event
<1>4. log' = Appended(log, event)
  BY DEF Record
<1> HIDE DEF event
<1> QED
  BY <1>1, <1>2, <1>3, <1>4, LogStaysDistinct

\* What an event says of a task.
LEMMA AboutIs ==
  ASSUME NEW t \in Task \union {NoTask}, NEW from \in Seq(Statuses), NEW to \in Seq(Statuses),
         NEW version \in Nat
  PROVE  Change(t, from, to, version) \in About
BY DEF Change, About

\* An event may say nothing of where a task was.
LEMMA NothingFrom == <<>> \in Seq(Statuses)
OBVIOUS

\* A phase and a status are a sequence of two.
LEMMA PairsAreSequences ==
  ASSUME NEW p \in Phase \X Status
  PROVE  p \in Seq(Statuses)
<1>1. p[1] \in Statuses /\ p[2] \in Statuses /\ p = <<p[1], p[2]>>
  BY DEF Statuses
<1>2. <<p[1], p[2]>> \in Seq(Statuses)
  <2> HIDE DEF Statuses
  <2> QED
    BY <1>1
<1> QED
  BY <1>1, <1>2

\* The invariant holds of the empty runtime.
LEMMA InitHolds == Init => Inv
<1> SUFFICES ASSUME Init PROVE Inv
  OBVIOUS
<1>1. TypeOK
  BY DEF Init, TypeOK
<1>2. EventsNumbered /\ VersionsNumbered /\ EventsAreDistinct
  BY DEF Init, EventsNumbered, VersionsNumbered, EventsAreDistinct
<1>3. ExecutionsHaveTasks
  BY DEF Init, ExecutionsHaveTasks
<1> QED
  BY <1>1, <1>2, <1>3 DEF Inv

\* createWorkflow keeps it.
LEMMA CreateKeeps ==
  ASSUME Inv, NEW w \in Workflow, NEW at \in Opening, CreateWorkflow(w, at)
  PROVE  Inv'
<1> USE DEF Inv
<1>1. at \in Phase \X Status /\ at[1] \in Phase /\ at[2] \in Status
  BY RuntimeAssumption
<1>2. Change(NoTask, <<>>, at, 0) \in About
  <2>1. at \in Seq(Statuses)
    BY <1>1, PairsAreSequences
  <2> QED
    BY <2>1, NothingFrom, AboutIs
<1>3. log' \in Seq(StoredEvent) /\ EventsNumbered' /\ EventsAreDistinct' /\ Len(log) <= Len(log')
  BY <1>2, RecordKeeps DEF CreateWorkflow, RuntimeEvent
<1>4. /\ DOMAIN workflows' = DOMAIN workflows \union {w}
      /\ DOMAIN tasks' = DOMAIN workflows \union {w}
      /\ workflows'[w] = [phase |-> at[1], status |-> at[2], version |-> 0]
      /\ tasks'[w] = <<>>
      /\ \A v \in DOMAIN workflows : workflows'[v] = workflows[v] /\ tasks'[v] = tasks[v]
      /\ workflows' = [v \in DOMAIN workflows \union {w} |-> workflows'[v]]
  BY DEF CreateWorkflow, MapSet, TypeOK
<1>5. TypeOK'
  <2>1. /\ DOMAIN workflows' \subseteq Workflow /\ DOMAIN tasks' = DOMAIN workflows'
        /\ workflows' \in [DOMAIN workflows' -> [phase : Phase, status : Status, version : Nat]]
    BY <1>1, <1>4 DEF TypeOK
  <2>2. \A v \in DOMAIN tasks' :
          /\ DOMAIN tasks'[v] \subseteq Task
          /\ tasks'[v] \in [DOMAIN tasks'[v] -> [status : TaskStatus, version : Nat]]
    <3>1. DOMAIN tasks'[w] = {} /\ tasks'[w] \in [{} -> [status : TaskStatus, version : Nat]]
      BY <1>4
    <3> QED
      BY <3>1, <1>4 DEF TypeOK
  <2>3. gates' \in [DOMAIN gates' -> [workflow : DOMAIN workflows', phase : Phase, conclusion : Conclusion]]
    BY <1>4 DEF TypeOK, CreateWorkflow
  <2> QED
    BY <1>3, <2>1, <2>2, <2>3 DEF TypeOK, CreateWorkflow
<1>6. VersionsNumbered'
  <2>1. Len(log) \in Nat /\ Len(log') \in Nat
    BY <1>3 DEF TypeOK
  <2>2. \A v \in DOMAIN workflows : workflows[v].version \in Nat
    BY DEF TypeOK
  <2> QED
    BY <1>3, <1>4, <2>1, <2>2 DEF VersionsNumbered
<1>7. ExecutionsHaveTasks'
  BY <1>4 DEF ExecutionsHaveTasks, CreateWorkflow
<1> QED
  BY <1>3, <1>5, <1>6, <1>7

\* A longer log leaves the versions of unchanged workflows within it.
LEMMA VersionsStayNumbered ==
  ASSUME Inv, UNCHANGED workflows, log' \in Seq(StoredEvent), Len(log) <= Len(log')
  PROVE  VersionsNumbered'
<1>1. Len(log) \in Nat /\ Len(log') \in Nat
  BY DEF Inv, TypeOK
<1>2. \A w \in DOMAIN workflows : workflows[w].version \in Nat
  BY DEF Inv, TypeOK
<1> QED
  BY <1>1, <1>2 DEF Inv, VersionsNumbered

\* addTasks keeps it.
LEMMA AddKeeps ==
  ASSUME Inv, NEW w \in Workflow, NEW t \in Task, AddTask(w, t)
  PROVE  Inv'
<1> USE DEF Inv
<1> DEFINE kept == [status |-> "READY", version |-> 0]
<1>1. Change(t, <<>>, <<"READY">>, 0) \in About
  <2>1. "READY" \in Statuses
    BY DEF Statuses, TaskStatus
  <2>2. <<"READY">> \in Seq(Statuses)
    BY <2>1
  <2> QED
    BY <2>2, NothingFrom, AboutIs
<1>2. log' \in Seq(StoredEvent) /\ EventsNumbered' /\ EventsAreDistinct' /\ Len(log) <= Len(log')
  BY <1>1, RecordKeeps DEF AddTask, RuntimeEvent
<1>3. /\ DOMAIN tasks' = DOMAIN tasks
      /\ tasks'[w] = MapSet(tasks[w], t, kept)
      /\ \A v \in DOMAIN tasks \ {w} : tasks'[v] = tasks[v]
  BY DEF AddTask, TypeOK
<1>4. /\ DOMAIN tasks'[w] = DOMAIN tasks[w] \union {t}
      /\ tasks'[w] \in [DOMAIN tasks'[w] -> [status : TaskStatus, version : Nat]]
  <2>1. kept \in [status : TaskStatus, version : Nat]
    BY DEF TaskStatus
  <2>2. tasks[w] \in [DOMAIN tasks[w] -> [status : TaskStatus, version : Nat]]
    BY DEF AddTask, TypeOK
  <2> HIDE DEF kept
  <2> QED
    BY <1>3, <2>1, <2>2 DEF MapSet
<1>5. TypeOK'
  BY <1>2, <1>3, <1>4 DEF AddTask, TypeOK
<1>6. VersionsNumbered'
  BY <1>2, VersionsStayNumbered DEF AddTask
<1>7. ExecutionsHaveTasks'
  BY <1>3, <1>4 DEF ExecutionsHaveTasks, AddTask, TypeOK
<1> QED
  BY <1>2, <1>5, <1>6, <1>7

\* transition keeps it, whether or not its event is stored.
LEMMA TransitionKeeps ==
  ASSUME Inv, NEW w \in Workflow, NEW to \in Target, Transition(w, to)
  PROVE  Inv'
<1> USE DEF Inv
<1>1. to \in Phase \X Status /\ to[1] \in Phase /\ to[2] \in Status
  BY RuntimeAssumption
<1>2. /\ w \in DOMAIN workflows
      /\ workflows[w] \in [phase : Phase, status : Status, version : Nat]
  BY DEF Transition, TypeOK
<1> DEFINE event == TransitionEvent(w, to)
<1>3. event \in StoredEvent
  <2>1. to \in Seq(Statuses) /\ <<workflows[w].phase, workflows[w].status>> \in Seq(Statuses)
    <3>1. <<workflows[w].phase, workflows[w].status>> \in Phase \X Status
      BY <1>2
    <3> QED
      BY <1>1, <3>1, PairsAreSequences
  <2>2. clock \in Nat /\ workflows[w].version + 1 \in Nat
    BY <1>2 DEF TypeOK
  <2> QED
    BY <2>1, <2>2 DEF TransitionEvent, StoredEvent, Statuses
<1>4. event.id[2] = workflows[w].version + 1 /\ event.key[3] = workflows[w].version + 1
  BY DEF TransitionEvent
<1>5. Len(log) \in Nat /\ workflows[w].version \in Nat /\ workflows[w].version <= Len(log)
  BY <1>2 DEF TypeOK, VersionsNumbered
<1>6. log' = Appended(log, event)
  BY DEF Transition
<1> HIDE DEF event
<1>7. /\ log' \in Seq(StoredEvent) /\ EventsNumbered' /\ EventsAreDistinct'
      /\ Len(log) <= Len(log') /\ event.id[2] <= Len(log')
  <2>1. event.id[2] <= Len(log) + 1 /\ event.key[3] <= Len(log) + 1 /\ event.id[2] = event.key[3]
    BY <1>4, <1>5
  <2> QED
    BY <1>3, <1>6, <2>1, LogStaysDistinct
<1>8. /\ DOMAIN workflows' = DOMAIN workflows
      /\ workflows'[w] = [phase |-> to[1], status |-> to[2], version |-> workflows[w].version + 1]
      /\ \A v \in DOMAIN workflows \ {w} : workflows'[v] = workflows[v]
      /\ workflows' \in [DOMAIN workflows' -> [phase : Phase, status : Status, version : Nat]]
  <2>1. [phase |-> to[1], status |-> to[2], version |-> workflows[w].version + 1]
          \in [phase : Phase, status : Status, version : Nat]
    BY <1>1, <1>5
  <2> QED
    BY <2>1, <1>2 DEF Transition, TypeOK
<1>9. TypeOK'
  BY <1>7, <1>8 DEF Transition, TypeOK
<1>10. VersionsNumbered'
  <2>1. Len(log') \in Nat /\ \A v \in DOMAIN workflows : workflows[v].version \in Nat
    BY <1>7 DEF TypeOK
  <2>2. workflows'[w].version <= Len(log')
    BY <1>4, <1>7, <1>8
  <2>3. \A v \in DOMAIN workflows \ {w} : workflows'[v].version <= Len(log')
    BY <1>5, <1>7, <1>8, <2>1 DEF VersionsNumbered
  <2> QED
    BY <1>8, <2>2, <2>3 DEF VersionsNumbered
<1>11. ExecutionsHaveTasks'
  BY <1>8 DEF ExecutionsHaveTasks, Transition
<1> QED
  BY <1>7, <1>9, <1>10, <1>11

\* updateTask: the new record of the task, and its event.
LEMMA SetStatusKeeps ==
  ASSUME Inv, NEW w \in DOMAIN workflows, NEW t \in DOMAIN tasks[w], NEW status \in TaskStatus,
         SetStatus(w, t, status)
  PROVE  /\ log' \in Seq(StoredEvent) /\ EventsNumbered' /\ EventsAreDistinct' /\ Len(log) <= Len(log')
         /\ DOMAIN tasks' = DOMAIN tasks
         /\ \A v \in DOMAIN tasks : DOMAIN tasks'[v] = DOMAIN tasks[v]
         /\ \A v \in DOMAIN tasks : tasks'[v] \in [DOMAIN tasks[v] -> [status : TaskStatus, version : Nat]]
         /\ Len(log') = Len(log) + 1
         /\ log'[Len(log')] = Event(log, w, "task.status_changed",
              Change(t, <<tasks[w][t].status>>, <<status>>, tasks[w][t].version + 1))
         /\ tasks'[w][t] = [status |-> status, version |-> tasks[w][t].version + 1]
         /\ \A v \in DOMAIN tasks : \A s \in DOMAIN tasks[v] :
              tasks'[v][s] # tasks[v][s] => v = w /\ s = t
<1> USE DEF Inv
<1> DEFINE about == Change(t, <<tasks[w][t].status>>, <<status>>, tasks[w][t].version + 1)
           kept == [status |-> status, version |-> tasks[w][t].version + 1]
<1>1. w \in Workflow /\ w \in DOMAIN tasks /\ t \in Task
  BY DEF TypeOK
<1>2. tasks[w][t] \in [status : TaskStatus, version : Nat]
  BY <1>1 DEF TypeOK
<1>3. about \in About
  <2>1. tasks[w][t].status \in Statuses /\ status \in Statuses
    BY <1>2 DEF Statuses
  <2>2. <<tasks[w][t].status>> \in Seq(Statuses) /\ <<status>> \in Seq(Statuses)
    BY <2>1
  <2>3. tasks[w][t].version + 1 \in Nat
    BY <1>2
  <2> QED
    BY <1>1, <2>2, <2>3, AboutIs
<1>4. kept \in [status : TaskStatus, version : Nat]
  BY <1>2
<1>5. log' = Record(log, w, "task.status_changed", about)
  BY DEF SetStatus, Change
<1>6. tasks' = [tasks EXCEPT ![w][t] = kept]
  BY DEF SetStatus
<1> HIDE DEF about, kept
<1>7. log' \in Seq(StoredEvent) /\ EventsNumbered' /\ EventsAreDistinct' /\ Len(log) <= Len(log')
  BY <1>1, <1>3, <1>5, RecordKeeps DEF RuntimeEvent
<1>8. Len(log') = Len(log) + 1 /\ log'[Len(log')] = Event(log, w, "task.status_changed", about)
  BY <1>1, <1>3, <1>5, RecordAppends DEF RuntimeEvent
<1>9. /\ DOMAIN tasks' = DOMAIN tasks
      /\ \A v \in DOMAIN tasks : DOMAIN tasks'[v] = DOMAIN tasks[v]
      /\ \A v \in DOMAIN tasks : tasks'[v] \in [DOMAIN tasks[v] -> [status : TaskStatus, version : Nat]]
      /\ tasks'[w][t] = kept
      /\ \A v \in DOMAIN tasks : \A s \in DOMAIN tasks[v] :
           tasks'[v][s] # tasks[v][s] => v = w /\ s = t
  BY <1>1, <1>4, <1>6 DEF TypeOK
<1> QED
  BY <1>7, <1>8, <1>9 DEF about, kept

\* The start of an execution keeps it.
LEMMA StartKeeps ==
  ASSUME Inv, NEW w \in Workflow, NEW t \in Task, StartExecution(w, t)
  PROVE  Inv'
<1> USE DEF Inv
<1>1. w \in DOMAIN workflows /\ t \in DOMAIN tasks[w] /\ SetStatus(w, t, "RUNNING") /\ "RUNNING" \in TaskStatus
  BY DEF StartExecution, TaskStatus
<1>2. /\ log' \in Seq(StoredEvent) /\ EventsNumbered' /\ EventsAreDistinct' /\ Len(log) <= Len(log')
      /\ DOMAIN tasks' = DOMAIN tasks
      /\ \A v \in DOMAIN tasks : DOMAIN tasks'[v] = DOMAIN tasks[v]
      /\ \A v \in DOMAIN tasks : tasks'[v] \in [DOMAIN tasks[v] -> [status : TaskStatus, version : Nat]]
  BY <1>1, SetStatusKeeps
<1>3. inFlight' \in [Workflow -> [Task -> Nat]]
  BY DEF StartExecution, TypeOK
<1>4. TypeOK'
  BY <1>2, <1>3 DEF StartExecution, TypeOK
<1>5. VersionsNumbered'
  BY <1>2, VersionsStayNumbered DEF StartExecution
<1>6. ExecutionsHaveTasks'
  BY <1>1, <1>2 DEF ExecutionsHaveTasks, StartExecution, TypeOK
<1> QED
  BY <1>2, <1>4, <1>5, <1>6

\* The end of an execution keeps it.
LEMMA FinishKeeps ==
  ASSUME Inv, NEW w \in Workflow, NEW t \in Task, NEW status \in {"APPROVED", "FAILED"},
         FinishExecution(w, t, status)
  PROVE  Inv'
<1> USE DEF Inv
<1>1. w \in DOMAIN workflows /\ t \in DOMAIN tasks[w] /\ SetStatus(w, t, status) /\ status \in TaskStatus
  BY DEF FinishExecution, TaskStatus, ExecutionsHaveTasks
<1>2. /\ log' \in Seq(StoredEvent) /\ EventsNumbered' /\ EventsAreDistinct' /\ Len(log) <= Len(log')
      /\ DOMAIN tasks' = DOMAIN tasks
      /\ \A v \in DOMAIN tasks : DOMAIN tasks'[v] = DOMAIN tasks[v]
      /\ \A v \in DOMAIN tasks : tasks'[v] \in [DOMAIN tasks[v] -> [status : TaskStatus, version : Nat]]
  BY <1>1, SetStatusKeeps
<1>3. inFlight' \in [Workflow -> [Task -> Nat]]
  BY DEF FinishExecution, TypeOK
<1>4. TypeOK'
  BY <1>2, <1>3 DEF FinishExecution, TypeOK
<1>5. VersionsNumbered'
  BY <1>2, VersionsStayNumbered DEF FinishExecution
<1>6. ExecutionsHaveTasks'
  BY <1>1, <1>2 DEF ExecutionsHaveTasks, FinishExecution, TypeOK
<1> QED
  BY <1>2, <1>4, <1>5, <1>6

\* An execution that throws keeps it.
LEMMA RejectKeeps ==
  ASSUME Inv, NEW w \in Workflow, NEW t \in Task, RejectExecution(w, t)
  PROVE  Inv'
<1> USE DEF Inv
<1>1. inFlight' \in [Workflow -> [Task -> Nat]]
  BY DEF RejectExecution, TypeOK
<1>2. TypeOK'
  BY <1>1 DEF RejectExecution, TypeOK
<1>3. ExecutionsHaveTasks'
  BY DEF ExecutionsHaveTasks, RejectExecution, TypeOK
<1> QED
  BY <1>2, <1>3 DEF RejectExecution, EventsNumbered, VersionsNumbered, EventsAreDistinct

\* An event that is about no task.
LEMMA NothingIsAbout == Nothing \in About
BY NothingFrom, AboutIs DEF Nothing

\* evaluateGate keeps it.
LEMMA EvaluateKeeps ==
  ASSUME Inv, NEW w \in Workflow, NEW g \in Gate, NEW conclusion \in Conclusion,
         EvaluateGate(w, g, conclusion)
  PROVE  Inv'
<1> USE DEF Inv
<1>1. log' \in Seq(StoredEvent) /\ EventsNumbered' /\ EventsAreDistinct' /\ Len(log) <= Len(log')
  BY NothingIsAbout, RecordKeeps DEF EvaluateGate, RuntimeEvent
<1>2. VersionsNumbered'
  BY <1>1, VersionsStayNumbered DEF EvaluateGate
<1> DEFINE decision == [workflow |-> w, phase |-> workflows[w].phase, conclusion |-> conclusion]
<1>3. decision \in [workflow : DOMAIN workflows, phase : Phase, conclusion : Conclusion]
  BY DEF EvaluateGate, TypeOK
<1>4. gates' = MapSet(gates, g, decision)
  BY DEF EvaluateGate
<1> HIDE DEF decision
<1>5. /\ DOMAIN gates' \subseteq Gate
      /\ gates' \in [DOMAIN gates' -> [workflow : DOMAIN workflows, phase : Phase, conclusion : Conclusion]]
  BY <1>3, <1>4 DEF MapSet, TypeOK
<1>6. TypeOK'
  BY <1>1, <1>5 DEF EvaluateGate, TypeOK
<1>7. ExecutionsHaveTasks'
  BY DEF ExecutionsHaveTasks, EvaluateGate
<1> QED
  BY <1>1, <1>2, <1>6, <1>7

\* What the services report keeps it.
LEMMA ReportKeeps ==
  ASSUME Inv, NEW w \in Workflow, NEW type \in Reports, Report(w, type)
  PROVE  Inv'
<1> USE DEF Inv
<1>1. type \in RuntimeEvent
  BY RuntimeAssumption DEF RuntimeEvent
<1>2. log' \in Seq(StoredEvent) /\ EventsNumbered' /\ EventsAreDistinct' /\ Len(log) <= Len(log')
  BY <1>1, NothingIsAbout, RecordKeeps DEF Report
<1>3. VersionsNumbered'
  BY <1>2, VersionsStayNumbered DEF Report
<1>4. TypeOK'
  BY <1>2 DEF Report, TypeOK
<1>5. ExecutionsHaveTasks'
  BY DEF ExecutionsHaveTasks, Report
<1> QED
  BY <1>2, <1>3, <1>4, <1>5

\* Every step keeps it.
LEMMA StepKeeps == Inv /\ [Next]_vars => Inv'
<1> SUFFICES ASSUME Inv, [Next]_vars PROVE Inv'
  OBVIOUS
<1>1. CASE UNCHANGED vars
  BY <1>1 DEF vars, Inv, TypeOK, EventsNumbered, VersionsNumbered, EventsAreDistinct,
     ExecutionsHaveTasks
<1>2. ASSUME NEW w \in Workflow, NEW at \in Opening, CreateWorkflow(w, at) PROVE Inv'
  BY <1>2, CreateKeeps
<1>3. ASSUME NEW w \in Workflow, NEW to \in Target, Transition(w, to) PROVE Inv'
  BY <1>3, TransitionKeeps
<1>4. ASSUME NEW w \in Workflow, NEW t \in Task, AddTask(w, t) PROVE Inv'
  BY <1>4, AddKeeps
<1>5. ASSUME NEW w \in Workflow, NEW t \in Task, StartExecution(w, t) PROVE Inv'
  BY <1>5, StartKeeps
<1>6. ASSUME NEW w \in Workflow, NEW t \in Task, NEW status \in {"APPROVED", "FAILED"},
             FinishExecution(w, t, status)
      PROVE  Inv'
  BY <1>6, FinishKeeps
<1>7. ASSUME NEW w \in Workflow, NEW t \in Task, RejectExecution(w, t) PROVE Inv'
  BY <1>7, RejectKeeps
<1>8. ASSUME NEW w \in Workflow, NEW g \in Gate, NEW conclusion \in Conclusion,
             EvaluateGate(w, g, conclusion)
      PROVE  Inv'
  BY <1>8, EvaluateKeeps
<1>9. ASSUME NEW w \in Workflow, NEW g \in Gate, NEW to \in Target, ApplyApprovedGate(w, g, to)
      PROVE  Inv'
  BY <1>9, TransitionKeeps DEF ApplyApprovedGate
<1>10. ASSUME NEW w \in Workflow, NEW type \in Reports, Report(w, type) PROVE Inv'
  BY <1>10, ReportKeeps
<1>11. CASE Tick
  <2>1. clock' \in Nat
    BY <1>11 DEF Tick, Inv, TypeOK
  <2> QED
    BY <1>11, <2>1 DEF Tick, Inv, TypeOK, EventsNumbered, VersionsNumbered, EventsAreDistinct,
                       ExecutionsHaveTasks
<1> QED
  BY <1>1, <1>2, <1>3, <1>4, <1>5, <1>6, <1>7, <1>8, <1>9, <1>10, <1>11 DEF Next

\* The invariant of the runtime.
LEMMA Invariance == Spec => []Inv
BY InitHolds, StepKeeps, PTL DEF Spec

\* The runtime's records are of their types in every reachable state.
THEOREM TypeCorrect == Spec => []TypeOK
<1>1. Inv => TypeOK
  BY DEF Inv
<1> QED
  BY <1>1, Invariance, PTL

\* appendEvent never produces an event the store takes for an earlier one: not
\* even the transitions, numbered by version, use up a number it will need.
THEOREM RuntimeEventsAreFresh == Spec => []NextEventIsFresh
<1>1. Inv => NextEventIsFresh
  BY RuntimeEventIsFresh DEF Inv, NextEventIsFresh
<1> QED
  BY <1>1, Invariance, PTL

\* The store identifies its events: ids and idempotency keys are unique.
THEOREM EventsStayDistinct == Spec => []EventsAreDistinct
<1>1. Inv => EventsAreDistinct
  BY DEF Inv
<1> QED
  BY <1>1, Invariance, PTL

\* Every step that changes a task appends one event that names the task and its status.
LEMMA StepJournals == Inv /\ [Next]_vars => [TaskStepIsJournaled]_vars
<1> SUFFICES ASSUME Inv, Next,
                    NEW v \in DOMAIN tasks, NEW s \in DOMAIN tasks[v], tasks'[v][s] # tasks[v][s]
             PROVE  /\ Len(log') = Len(log) + 1
                    /\ LET e == log'[Len(log')]
                       IN  /\ e.type = "task.status_changed" /\ e.id[1] = v /\ e.task = s
                           /\ e.to = <<tasks'[v][s].status>> /\ e.version = tasks'[v][s].version
  BY DEF TaskStepIsJournaled
<1> DEFINE Goal == /\ Len(log') = Len(log) + 1
                   /\ LET e == log'[Len(log')]
                      IN  /\ e.type = "task.status_changed" /\ e.id[1] = v /\ e.task = s
                          /\ e.to = <<tasks'[v][s].status>> /\ e.version = tasks'[v][s].version
<1>1. ASSUME NEW w \in DOMAIN workflows, NEW t \in DOMAIN tasks[w], NEW status \in TaskStatus,
             SetStatus(w, t, status)
      PROVE  Goal
  <2>1. v = w /\ s = t
    BY <1>1, SetStatusKeeps
  <2>2. /\ Len(log') = Len(log) + 1
        /\ log'[Len(log')] = Event(log, w, "task.status_changed",
             Change(t, <<tasks[w][t].status>>, <<status>>, tasks[w][t].version + 1))
        /\ tasks'[w][t] = [status |-> status, version |-> tasks[w][t].version + 1]
    BY <1>1, SetStatusKeeps
  <2> QED
    BY <2>1, <2>2 DEF Event, Change
<1>2. ASSUME NEW w \in Workflow, NEW t \in Task, StartExecution(w, t) PROVE Goal
  <2>1. w \in DOMAIN workflows /\ t \in DOMAIN tasks[w] /\ SetStatus(w, t, "RUNNING") /\ "RUNNING" \in TaskStatus
    BY <1>2 DEF StartExecution, TaskStatus
  <2> HIDE DEF Goal
  <2> QED
    BY <1>1, <2>1
<1>3. ASSUME NEW w \in Workflow, NEW t \in Task, NEW status \in {"APPROVED", "FAILED"},
             FinishExecution(w, t, status)
      PROVE  Goal
  <2>1. w \in DOMAIN workflows /\ t \in DOMAIN tasks[w] /\ SetStatus(w, t, status) /\ status \in TaskStatus
    BY <1>3 DEF FinishExecution, TaskStatus, ExecutionsHaveTasks, Inv
  <2> HIDE DEF Goal
  <2> QED
    BY <1>1, <2>1
<1>4. ASSUME NEW w \in Workflow, NEW at \in Opening, CreateWorkflow(w, at) PROVE FALSE
  BY <1>4 DEF CreateWorkflow, MapSet, Inv, TypeOK
<1>5. ASSUME NEW w \in Workflow, NEW t \in Task, AddTask(w, t) PROVE FALSE
  BY <1>5 DEF AddTask, MapSet, Inv, TypeOK
<1>6. ASSUME NEW w \in Workflow, NEW to \in Target, Transition(w, to) PROVE FALSE
  BY <1>6 DEF Transition
<1>7. ASSUME NEW w \in Workflow, NEW t \in Task, RejectExecution(w, t) PROVE FALSE
  BY <1>7 DEF RejectExecution
<1>8. ASSUME NEW w \in Workflow, NEW g \in Gate, NEW conclusion \in Conclusion,
             EvaluateGate(w, g, conclusion)
      PROVE  FALSE
  BY <1>8 DEF EvaluateGate
<1>9. ASSUME NEW w \in Workflow, NEW type \in Reports, Report(w, type) PROVE FALSE
  BY <1>9 DEF Report
<1>10. ASSUME Tick PROVE FALSE
  BY <1>10 DEF Tick
<1> HIDE DEF Goal
<1>11. Goal
  BY <1>2, <1>3, <1>4, <1>5, <1>6, <1>7, <1>8, <1>9, <1>10 DEF Next, ApplyApprovedGate
<1> QED
  BY <1>11 DEF Goal

\* No step changes a task without an event that says to what.
THEOREM TasksAreJournaled == Spec => TaskChangesAreJournaled
BY Invariance, StepJournals, PTL DEF Spec, TaskChangesAreJournaled

----------------------------------------------------------------------------
(* Recovery of the runtime's state. Every event is applied, or passed over,   *)
(* when the events of a workflow are replayed in the order they were stored   *)
(* in, from the first of them, as long as no transition is missing            *)
(* (EventsReplay); their times never fall (TimesInOrder): the sort, by time   *)
(* and then by the text of the id, can only disturb events of one time.       *)
TaskEvents == {"task.created", "task.status_changed"}

\* Replaying no events, and one more.
LEMMA Replays ==
  ASSUME NEW start
  PROVE  /\ Replayed(start, <<>>) = start
         /\ \A s \in Seq(StoredEvent), e \in StoredEvent :
              Replayed(start, Append(s, e)) = Apply(Replayed(start, s), e)
<1> DEFINE After(f, n, s) == f = [k \in 0..n |-> IF k = 0 THEN start ELSE Apply(f[k - 1], s[k])]
           Outcome(s) == (CHOOSE f : After(f, Len(s), s))[Len(s)]
<1>1. ASSUME NEW n \in Nat, NEW s PROVE \E f : After(f, n, s)
  <2> DEFINE P == {m \in 0..n : \E f : After(f, m, s)}
  <2>1. 0 \in P
    <3>1. After([k \in 0..0 |-> start], 0, s)
      OBVIOUS
    <3> HIDE DEF After
    <3> QED BY <3>1
  <2>2. ASSUME NEW m \in 1..n, m - 1 \in P PROVE m \in P
    <3>1. PICK f : After(f, m - 1, s)
      BY <2>2
    <3> DEFINE g == [k \in 0..m |-> IF k = m THEN Apply(f[m - 1], s[m]) ELSE f[k]]
    <3>2. ASSUME NEW k \in 0..m PROVE g[k] = IF k = 0 THEN start ELSE Apply(g[k - 1], s[k])
      <4>1. CASE k = m
        <5>1. g[k] = Apply(f[m - 1], s[m]) /\ k # 0
          BY <4>1
        <5>2. m - 1 \in 0..m /\ m - 1 # m /\ g[m - 1] = f[m - 1]
          OBVIOUS
        <5> QED BY <4>1, <5>1, <5>2
      <4>2. CASE k # m
        <5>1. k \in 0..(m - 1) /\ g[k] = f[k]
          BY <4>2
        <5>2. k # 0 => k - 1 \in 0..m /\ k - 1 # m /\ g[k - 1] = f[k - 1]
          OBVIOUS
        <5>3. f[k] = IF k = 0 THEN start ELSE Apply(f[k - 1], s[k])
          BY <3>1, <5>1
        <5> HIDE DEF g
        <5> QED BY <5>1, <5>2, <5>3
      <4> QED BY <4>1, <4>2
    <3>3. After(g, m, s)
      <4>1. g = [k \in 0..m |-> g[k]]
        OBVIOUS
      <4> HIDE DEF g
      <4> QED BY <3>2, <4>1
    <3> HIDE DEF After, g
    <3> QED BY <3>3
  <2> HIDE DEF P
  <2>3. 0..n \subseteq P
    BY <2>1, <2>2, Induction
  <2> QED BY <2>3 DEF P
<1>2. ASSUME NEW s, Len(s) \in Nat PROVE Replayed(start, s) = Outcome(s)
  BY DEF Replayed
<1>3. Replayed(start, <<>>) = start
  <2>1. After(CHOOSE f : After(f, 0, <<>>), 0, <<>>)
    <3> HIDE DEF After
    <3> QED BY <1>1
  <2>2. Len(<<>>) = 0
    OBVIOUS
  <2>3. (CHOOSE f : After(f, 0, <<>>))[0] = start
    BY <2>1
  <2> QED BY <1>2, <2>2, <2>3
<1>4. ASSUME NEW s \in Seq(StoredEvent), NEW e \in StoredEvent
      PROVE  Replayed(start, Append(s, e)) = Apply(Replayed(start, s), e)
  <2> DEFINE n == Len(s)
             t == Append(s, e)
             f == CHOOSE h : After(h, n, s)
             g == CHOOSE h : After(h, n + 1, t)
  <2>1. n \in Nat /\ n + 1 \in Nat /\ Len(t) = n + 1 /\ t[n + 1] = e /\ \A k \in 1..n : t[k] = s[k]
    OBVIOUS
  <2>2. Replayed(start, s) = f[n] /\ Replayed(start, t) = g[n + 1]
    BY <1>2, <2>1
  <2>3. After(f, n, s) /\ After(g, n + 1, t)
    <3> HIDE DEF After, n, t
    <3> QED BY <1>1, <2>1
  <2> HIDE DEF n, t, f, g
  <2>4. /\ \A k \in 0..n : f[k] = IF k = 0 THEN start ELSE Apply(f[k - 1], s[k])
        /\ \A k \in 0..(n + 1) : g[k] = IF k = 0 THEN start ELSE Apply(g[k - 1], t[k])
    BY <2>3
  <2> DEFINE P == {k \in 0..n : g[k] = f[k]}
  <2>5. 0 \in P
    BY <2>1, <2>4
  <2>6. ASSUME NEW k \in 1..n, k - 1 \in P PROVE k \in P
    <3>1. k \in 0..n /\ k \in 0..(n + 1) /\ k # 0
      BY <2>1
    <3>2. f[k] = Apply(f[k - 1], s[k]) /\ g[k] = Apply(g[k - 1], s[k])
      BY <2>1, <2>4, <3>1
    <3> QED BY <2>6, <3>1, <3>2
  <2>7. n \in P
    <3> HIDE DEF P
    <3>1. 0..n \subseteq P
      BY <2>1, <2>5, <2>6, Induction
    <3> QED BY <2>1, <3>1
  <2>8. g[n + 1] = Apply(g[n], e)
    <3>1. n + 1 \in 0..(n + 1) /\ n + 1 # 0 /\ (n + 1) - 1 = n
      BY <2>1
    <3> QED BY <2>1, <2>4, <3>1
  <2>9. g[n] = f[n]
    BY <2>7
  <2> QED BY <2>2, <2>8, <2>9 DEF t
<1> QED BY <1>3, <1>4

\* Replaying one event more.
LEMMA ReplayOneMore ==
  ASSUME NEW start, NEW s \in Seq(StoredEvent), NEW e \in StoredEvent
  PROVE  Replayed(start, Append(s, e)) = Apply(Replayed(start, s), e)
<1>1. \A r \in Seq(StoredEvent), f \in StoredEvent :
        Replayed(start, Append(r, f)) = Apply(Replayed(start, r), f)
  BY Replays, Zenon
<1> QED BY <1>1

\* The sort leaves alone what is in order.
LEMMA OrderedAlready ==
  ASSUME NEW X, NEW s \in Seq(X),
         \A i, j \in DOMAIN s : i <= j => ~Precedes(s[j], s[i])
  PROVE  Ordered(s) = s
<1>1. Len(s) \in Nat /\ DOMAIN s = 1..Len(s) /\ s = [p \in DOMAIN s |-> s[p]]
  OBVIOUS
<1>2. ASSUME NEW i \in DOMAIN s PROVE Rank(s, i) = i
  <2> DEFINE before == {j \in DOMAIN s : Precedes(s[j], s[i]) \/ (j <= i /\ ~Precedes(s[i], s[j]))}
  <2>1. ASSUME NEW j \in DOMAIN s PROVE j \in before <=> j <= i
    <3>1. CASE j <= i
      BY <3>1
    <3>2. CASE ~(j <= i)
      <4>1. i <= j
        BY <1>1, <3>2
      <4> QED BY <3>2, <4>1
    <3> QED BY <3>1, <3>2
  <2>2. before = 1..i
    <3>1. before \subseteq DOMAIN s
      OBVIOUS
    <3>2. i \in 1..Len(s) /\ before \subseteq 1..Len(s)
      BY <1>1, <3>1
    <3> HIDE DEF before
    <3>3. ASSUME NEW j \in before PROVE j \in 1..i
      BY <1>1, <2>1, <3>2
    <3>4. ASSUME NEW j \in 1..i PROVE j \in before
      BY <1>1, <2>1, <3>2
    <3> QED BY <3>3, <3>4
  <2>3. Cardinality(1..i) = i
    <3>1. i \in Nat /\ 1 \in Int /\ i \in Int /\ 1 <= i /\ (i - 1) + 1 = i
      BY <1>1
    <3>2. Cardinality(1..i) = i - 1 + 1
      BY <3>1, FS_Interval
    <3> QED BY <3>1, <3>2
  <2>4. Rank(s, i) = Cardinality(before)
    BY DEF Rank
  <2> QED BY <2>2, <2>3, <2>4
<1>3. ASSUME NEW p \in DOMAIN s PROVE s[CHOOSE i \in DOMAIN s : Rank(s, i) = p] = s[p]
  <2>1. (CHOOSE i \in DOMAIN s : Rank(s, i) = p) = p
    BY <1>2
  <2> QED BY <2>1
<1> QED BY <1>1, <1>3 DEF Ordered

\* What is stored of a workflow, in the order of the store.
LEMMA EventsGrow ==
  ASSUME NEW w \in Workflow, log \in Seq(StoredEvent), log' \in Seq(StoredEvent),
         Len(log') = Len(log) + 1, \A i \in 1..Len(log) : log'[i] = log[i]
  PROVE  EventsOf(w)' = IF log'[Len(log')].id[1] = w THEN Append(EventsOf(w), log'[Len(log')])
                                                    ELSE EventsOf(w)
<1> DEFINE n == Len(log)
           e == log'[n + 1]
           Pick(x) == IF x.id[1] = w THEN <<x>> ELSE <<>>
           old == [i \in DOMAIN log |-> Pick(log[i])]
           new == [i \in DOMAIN log' |-> Pick(log'[i])]
<1>1. n \in Nat /\ DOMAIN log = 1..n /\ DOMAIN log' = 1..(n + 1) /\ n + 1 \in DOMAIN log'
  OBVIOUS
<1>2. (\A i \in 1..n : log[i] \in StoredEvent) /\ (\A i \in 1..(n + 1) : log'[i] \in StoredEvent)
  BY <1>1
<1>3. ASSUME NEW x \in StoredEvent PROVE Pick(x) \in Seq(StoredEvent)
  OBVIOUS
<1>4. old \in [1..n -> Seq(StoredEvent)] /\ new \in [1..(n + 1) -> Seq(StoredEvent)]
  <2> HIDE DEF Pick, n
  <2> QED BY <1>1, <1>2, <1>3
<1>5. \A i \in 1..n : new[i] = old[i]
  <2> HIDE DEF Pick, n
  <2>1. \A i \in 1..n : i \in 1..(n + 1) /\ log'[i] = log[i]
    BY <1>1 DEF n
  <2> QED BY <1>1, <2>1
<1>6. new[n + 1] = Pick(e)
  BY <1>1
<1>7. EventsOf(w) = FlattenSeq(old) /\ EventsOf(w)' = FlattenSeq(new)
  BY DEF EventsOf
<1>8. FlattenSeq(old) \in Seq(StoredEvent)
  <2> HIDE DEF old, new, n
  <2> QED BY <1>1, <1>4, Flattened
<1>9. FlattenSeq(new) = FlattenSeq(old) \o new[n + 1]
  <2> HIDE DEF old, new, n
  <2> QED BY <1>1, <1>4, <1>5, FlattenedOneMore
<1>10. e \in StoredEvent /\ e = log'[Len(log')]
  BY <1>1, <1>2
<1> DEFINE j == FlattenSeq(old)
<1> HIDE DEF old, new, n, e, j
<1>11. CASE e.id[1] = w
  <2>1. j \o <<e>> = Append(j, e)
    BY <1>8, <1>10 DEF j
  <2>2. Pick(e) = <<e>>
    BY <1>11
  <2> QED BY <1>6, <1>7, <1>9, <1>10, <1>11, <2>1, <2>2 DEF j
<1>12. CASE ~(e.id[1] = w)
  <2>1. j \o <<>> = j
    BY <1>8 DEF j
  <2>2. Pick(e) = <<>>
    BY <1>12
  <2> QED BY <1>6, <1>7, <1>9, <1>10, <1>12, <2>1, <2>2 DEF j
<1> QED BY <1>11, <1>12

\* The events of a workflow are stored ones; an empty store has none.
LEMMA EventsAreStored ==
  ASSUME NEW w \in Workflow, log \in Seq(StoredEvent)
  PROVE  EventsOf(w) \in Seq(StoredEvent) /\ (log = <<>> => EventsOf(w) = <<>>)
<1> DEFINE n == Len(log)
           Pick(x) == IF x.id[1] = w THEN <<x>> ELSE <<>>
           old == [i \in DOMAIN log |-> Pick(log[i])]
<1>1. n \in Nat /\ DOMAIN log = 1..n /\ \A i \in 1..n : log[i] \in StoredEvent
  OBVIOUS
<1>2. ASSUME NEW x \in StoredEvent PROVE Pick(x) \in Seq(StoredEvent)
  OBVIOUS
<1>3. old \in [1..n -> Seq(StoredEvent)]
  <2> HIDE DEF Pick, n
  <2> QED BY <1>1, <1>2
<1>4. EventsOf(w) = FlattenSeq(old)
  BY DEF EventsOf
<1>5. FlattenSeq(old) \in Seq(StoredEvent)
  <2> HIDE DEF old, n
  <2> QED BY <1>1, <1>3, Flattened
<1>6. log = <<>> => old = <<>>
  OBVIOUS
<1>7. FlattenSeq(<<>>) = <<>>
  BY DEF FlattenSeq
<1> QED BY <1>4, <1>5, <1>6, <1>7

\* Where a rebuild is that found the workflow `base` with the tasks `kept` and saw
\* the keys `seen`.
Found(base, kept, seen) ==
  [phase |-> base.phase, status |-> base.status, version |-> base.version,
   tasks |-> kept, seen |-> seen, broken |-> FALSE]

Bases == [phase : Phase, status : Status, version : Nat]

\* The events of a workflow, replayed in the order of the store.
Replay(w) == Replayed(Start(Born(w)), EventsOf(w))

ReplayIs(w) ==
  \E seen \in SUBSET Keys(log) : Replay(w) = Found(workflows[w], tasks[w], seen)

\* As long as no transition is missing, that gives the workflow and its tasks.
EventsReplay ==
  \A w \in Workflow :
    IF w \in DOMAIN workflows THEN EventsOf(w) # <<>> /\ (Audited(w) => ReplayIs(w))
    ELSE EventsOf(w) = <<>>

\* No transition is in the store that is still to come.
TransitionsPast ==
  \A w \in Workflow, v \in Nat :
    <<w, "transition", v>> \in Keys(log) => w \in DOMAIN workflows /\ v <= workflows[w].version

\* The events of a workflow are stored in the order of their times.
TimesInOrder ==
  \A w \in Workflow :
    /\ \A p \in DOMAIN EventsOf(w) : EventsOf(w)[p].at <= clock
    /\ \A p, q \in DOMAIN EventsOf(w) : p < q => EventsOf(w)[p].at <= EventsOf(w)[q].at

ReplayInv == EventsReplay /\ TransitionsPast /\ TimesInOrder

\* What a rebuild has seen and found, replaced.
LEMMA Replaced ==
  ASSUME NEW base, NEW kept, NEW seen, NEW new
  PROVE  /\ [Found(base, kept, seen) EXCEPT !.seen = new] = Found(base, kept, new)
         /\ [Found(base, kept, seen) EXCEPT !.tasks = new] = Found(base, new, seen)
         /\ Found(base, kept, seen).seen = seen
         /\ Found(base, kept, seen).tasks = kept
         /\ ~Found(base, kept, seen).broken
<1> DEFINE State(k, s, b) == [phase |-> base.phase, status |-> base.status, version |-> base.version,
                              tasks |-> k, seen |-> s, broken |-> b]
<1>1. PICK no : no = FALSE
  OBVIOUS
<1>2. ASSUME NEW k, NEW s PROVE Found(base, k, s) = State(k, s, no)
  BY <1>1, Zenon DEF Found
<1>3. /\ [State(kept, seen, no) EXCEPT !.seen = new] = State(kept, new, no)
      /\ [State(kept, seen, no) EXCEPT !.tasks = new] = State(new, seen, no)
  OBVIOUS
<1>4. Found(base, kept, seen).seen = seen /\ Found(base, kept, seen).tasks = kept
  BY DEF Found
<1>5. ~Found(base, kept, seen).broken
  BY DEF Found
<1> HIDE DEF State
<1>6. /\ [Found(base, kept, seen) EXCEPT !.seen = new] = Found(base, kept, new)
      /\ [Found(base, kept, seen) EXCEPT !.tasks = new] = Found(base, new, seen)
  BY <1>2, <1>3, Zenon
<1> QED BY <1>4, <1>5, <1>6

\* An event that makes a task is applied.
LEMMA CreationApplies ==
  ASSUME NEW base, NEW kept, NEW seen, NEW e,
         e.type = "task.created", e.key \notin seen, e.task \notin DOMAIN kept
  PROVE  Apply(Found(base, kept, seen), e)
           = Found(base, MapSet(kept, e.task, [status |-> e.to[1], version |-> e.version]),
                   seen \union {e.key})
<1> DEFINE state == Found(base, kept, seen)
<1>1. ~state.broken /\ state.seen = seen /\ state.tasks = kept
  BY Replaced
<1>2. Apply(state, e) = [ApplyTaskCreated(state, e) EXCEPT !.seen = @ \union {e.key}]
  BY <1>1 DEF Apply
<1>3. ApplyTaskCreated(state, e)
        = Found(base, MapSet(kept, e.task, [status |-> e.to[1], version |-> e.version]), seen)
  BY <1>1, Replaced DEF ApplyTaskCreated
<1>4. ASSUME NEW k PROVE [Found(base, k, seen) EXCEPT !.seen = @ \union {e.key}]
                          = Found(base, k, seen \union {e.key})
  <2> DEFINE more == Found(base, k, seen).seen \union {e.key}
  <2>1. [Found(base, k, seen) EXCEPT !.seen = more] = Found(base, k, more)
    <3> HIDE DEF more
    <3> QED BY Replaced
  <2>2. Found(base, k, seen).seen = seen
    BY Replaced
  <2> QED BY <2>1, <2>2, Zenon
<1> QED BY <1>2, <1>3, <1>4

\* An event that changes a task from what it is is applied.
LEMMA ChangeApplies ==
  ASSUME NEW base, NEW kept, NEW seen, NEW e,
         e.type = "task.status_changed", e.key \notin seen,
         e.task \in DOMAIN kept, e.from = <<kept[e.task].status>>
  PROVE  Apply(Found(base, kept, seen), e)
           = Found(base, [kept EXCEPT ![e.task] = [status |-> e.to[1], version |-> e.version]],
                   seen \union {e.key})
<1> DEFINE state == Found(base, kept, seen)
<1>1. ~state.broken /\ state.seen = seen /\ state.tasks = kept
  BY Replaced
<1>2. Apply(state, e) = [ApplyTaskStatus(state, e) EXCEPT !.seen = @ \union {e.key}]
  BY <1>1 DEF Apply
<1>3. ApplyTaskStatus(state, e)
        = Found(base, [kept EXCEPT ![e.task] = [status |-> e.to[1], version |-> e.version]], seen)
  BY <1>1, Replaced DEF ApplyTaskStatus
<1>4. ASSUME NEW k PROVE [Found(base, k, seen) EXCEPT !.seen = @ \union {e.key}]
                          = Found(base, k, seen \union {e.key})
  <2> DEFINE more == Found(base, k, seen).seen \union {e.key}
  <2>1. [Found(base, k, seen) EXCEPT !.seen = more] = Found(base, k, more)
    <3> HIDE DEF more
    <3> QED BY Replaced
  <2>2. Found(base, k, seen).seen = seen
    BY Replaced
  <2> QED BY <2>1, <2>2, Zenon
<1> QED BY <1>2, <1>3, <1>4

\* A transition from the phase and status found is applied.
LEMMA TransitionApplies ==
  ASSUME NEW base, NEW kept, NEW seen, NEW e,
         e.type = "workflow.transitioned", e.key \notin seen, e.from = <<base.phase, base.status>>
  PROVE  Apply(Found(base, kept, seen), e)
           = Found([phase |-> e.to[1], status |-> e.to[2], version |-> e.version], kept,
                   seen \union {e.key})
<1> DEFINE state == Found(base, kept, seen)
           next == [phase |-> e.to[1], status |-> e.to[2], version |-> e.version]
           State(p, s, v, r, n) == [phase |-> p, status |-> s, version |-> v,
                                    tasks |-> kept, seen |-> r, broken |-> n]
           Moved(r, p, s, v) == [r EXCEPT !.phase = p, !.status = s, !.version = v]
<1>1. ~state.broken /\ state.seen = seen
  BY Replaced
<1>2. Apply(state, e) = [ApplyTransition(state, e) EXCEPT !.seen = @ \union {e.key}]
  BY <1>1 DEF Apply
<1>3. state.phase = base.phase /\ state.status = base.status
  BY DEF Found
<1>4. ApplyTransition(state, e)
        = Moved(state, e.to[1], e.to[2], e.version)
  BY <1>3 DEF ApplyTransition
<1>5. PICK no : no = FALSE
  OBVIOUS
<1>6. /\ state = State(base.phase, base.status, base.version, seen, no)
      /\ \A r : Found(next, kept, r) = State(next.phase, next.status, next.version, r, no)
  BY <1>5, Zenon DEF Found
<1>7. next.phase = e.to[1] /\ next.status = e.to[2] /\ next.version = e.version
  OBVIOUS
<1>8. ASSUME NEW a, NEW b, NEW c, NEW p, NEW s, NEW v
      PROVE  Moved(State(a, b, c, seen, no), p, s, v) = State(p, s, v, seen, no)
  <2>1. [State(a, b, c, seen, no) EXCEPT !.phase = p] = State(p, b, c, seen, no)
    OBVIOUS
  <2>2. [State(p, b, c, seen, no) EXCEPT !.status = s] = State(p, s, c, seen, no)
    OBVIOUS
  <2>3. [State(p, s, c, seen, no) EXCEPT !.version = v] = State(p, s, v, seen, no)
    OBVIOUS
  <2> HIDE DEF State
  <2>4. Moved(State(a, b, c, seen, no), p, s, v)
          = [[[State(a, b, c, seen, no) EXCEPT !.phase = p] EXCEPT !.status = s] EXCEPT !.version = v]
    OBVIOUS
  <2> HIDE DEF Moved
  <2> QED BY <2>1, <2>2, <2>3, <2>4, Zenon
<1>9. ASSUME NEW p, NEW s, NEW v
      PROVE  [State(p, s, v, seen, no) EXCEPT !.seen = @ \union {e.key}]
               = State(p, s, v, seen \union {e.key}, no)
  OBVIOUS
<1> HIDE DEF state, State, Moved, next
<1>10. ApplyTransition(state, e) = State(e.to[1], e.to[2], e.version, seen, no)
  <2>1. Moved(State(base.phase, base.status, base.version, seen, no), e.to[1], e.to[2], e.version)
          = State(e.to[1], e.to[2], e.version, seen, no)
    BY <1>8
  <2>2. state = State(base.phase, base.status, base.version, seen, no)
    BY <1>6, Zenon
  <2>3. ApplyTransition(state, e) = Moved(state, e.to[1], e.to[2], e.version)
    BY <1>4, Zenon
  <2> QED BY <2>1, <2>2, <2>3, Zenon
<1>11. Apply(state, e) = State(e.to[1], e.to[2], e.version, seen \union {e.key}, no)
  BY <1>2, <1>9, <1>10, Zenon
<1>12. Apply(state, e) = Found(next, kept, seen \union {e.key})
  BY <1>6, <1>7, <1>11, Zenon
<1> QED BY <1>12 DEF state, next

\* An event of another type is passed over.
LEMMA OtherPasses ==
  ASSUME NEW base, NEW kept, NEW seen, NEW e, e.key \notin seen,
         e.type \notin {"workflow.transitioned", "task.created", "task.status_changed"}
  PROVE  Apply(Found(base, kept, seen), e) = Found(base, kept, seen \union {e.key})
<1> DEFINE state == Found(base, kept, seen)
           more == state.seen \union {e.key}
<1>1. ~state.broken /\ state.seen = seen
  BY Replaced
<1>2. Apply(state, e) = [state EXCEPT !.seen = more]
  BY <1>1 DEF Apply
<1>3. [Found(base, kept, seen) EXCEPT !.seen = more] = Found(base, kept, more)
  <2> HIDE DEF more
  <2> QED BY Replaced
<1> QED BY <1>1, <1>2, <1>3, Zenon

\* A step that stores nothing: a transition of it is missing.
LEMMA ReplayStays ==
  ASSUME Inv, ReplayInv, log' = log, clock' \in Nat, clock <= clock',
         DOMAIN workflows' = DOMAIN workflows,
         \A w \in DOMAIN workflows :
           /\ tasks'[w] = tasks[w]
           /\ \/ workflows'[w] = workflows[w]
              \/ ~Audited(w)' /\ workflows'[w].version = workflows[w].version + 1
  PROVE  ReplayInv'
<1>1. \A w \in Workflow : EventsOf(w)' = EventsOf(w) /\ Born(w)' = Born(w) /\ Replay(w)' = Replay(w)
  BY DEF EventsOf, Born, Replay
<1>2. EventsReplay'
  <2> SUFFICES ASSUME NEW w \in DOMAIN workflows, w \in Workflow, Audited(w)'
               PROVE  ReplayIs(w)'
    BY <1>1 DEF EventsReplay, ReplayInv
  <2>1. workflows'[w] = workflows[w] /\ tasks'[w] = tasks[w]
    OBVIOUS
  <2>2. Audited(w)
    BY <2>1 DEF Audited
  <2>3. ReplayIs(w)
    BY <2>2 DEF EventsReplay, ReplayInv
  <2> QED BY <1>1, <2>1, <2>3 DEF ReplayIs
<1>3. TransitionsPast'
  <2>1. \A w \in DOMAIN workflows : workflows[w].version \in Nat
    BY DEF Inv, TypeOK
  <2>2. \A w \in DOMAIN workflows : workflows[w].version <= workflows'[w].version
    BY <2>1
  <2>3. \A w \in DOMAIN workflows : workflows'[w].version \in Nat
    BY <2>1
  <2> QED BY <2>1, <2>2, <2>3 DEF TransitionsPast, ReplayInv
<1>4. TimesInOrder'
  <2> SUFFICES ASSUME NEW w \in Workflow, NEW p \in DOMAIN EventsOf(w)
               PROVE  EventsOf(w)[p].at <= clock'
    BY <1>1 DEF TimesInOrder, ReplayInv
  <2>1. EventsOf(w)[p] \in StoredEvent
    BY EventsAreStored DEF Inv, TypeOK
  <2>2. EventsOf(w)[p].at \in Nat /\ clock \in Nat
    BY <2>1 DEF StoredEvent, Inv, TypeOK
  <2>3. EventsOf(w)[p].at <= clock
    BY DEF TimesInOrder, ReplayInv
  <2> QED BY <2>2, <2>3
<1> QED BY <1>2, <1>3, <1>4 DEF ReplayInv

\* A step that stores an event of one workflow, numbered by the version it leads
\* to if it is a transition.
LEMMA ReplayGoesOn ==
  ASSUME Inv, ReplayInv, NEW w \in Workflow, NEW e \in StoredEvent,
         log' \in Seq(StoredEvent), Len(log') = Len(log) + 1, log'[Len(log')] = e,
         \A i \in 1..Len(log) : log'[i] = log[i],
         clock' = clock, e.at = clock, e.id[1] = w, e.key \notin Keys(log),
         DOMAIN workflows' = DOMAIN workflows \union {w}, workflows'[w].version \in Nat,
         \A u \in DOMAIN workflows \ {w} : workflows'[u] = workflows[u] /\ tasks'[u] = tasks[u],
         w \in DOMAIN workflows => workflows[w].version <= workflows'[w].version,
         \A u, v : e.key = <<u, "transition", v>> =>
                     u = w /\ v = workflows'[w].version
                     /\ w \in DOMAIN workflows /\ v = workflows[w].version + 1,
         w \notin DOMAIN workflows =>
           /\ tasks'[w] = <<>> /\ e.type = "workflow.created"
           /\ workflows'[w] = [phase |-> e.to[1], status |-> e.to[2], version |-> e.version],
         w \in DOMAIN workflows =>
           \A seen \in SUBSET Keys(log) :
             Apply(Found(workflows[w], tasks[w], seen), e)
               = Found(workflows'[w], tasks'[w], seen \union {e.key})
  PROVE  ReplayInv'
<1>1. log \in Seq(StoredEvent) /\ clock \in Nat /\ Len(log) \in Nat
  BY DEF Inv, TypeOK
<1>2. \A u \in Workflow : EventsOf(u)' = IF u = w THEN Append(EventsOf(w), e) ELSE EventsOf(u)
  BY <1>1, EventsGrow
<1>3. Keys(log') = Keys(log) \union {e.key}
  <2>1. DOMAIN log = 1..Len(log) /\ DOMAIN log' = (1..Len(log)) \union {Len(log')}
    BY <1>1
  <2> QED BY <2>1 DEF Keys
<1>4. \A u \in Workflow : EventsOf(u) \in Seq(StoredEvent)
  BY <1>1, EventsAreStored
<1>5. \A u \in DOMAIN workflows : u \in Workflow /\ workflows[u].version \in Nat
  BY DEF Inv, TypeOK
<1>6. ASSUME NEW u \in DOMAIN workflows, Audited(u)' PROVE Audited(u)
  <2> SUFFICES ASSUME NEW v \in 1..workflows[u].version
               PROVE  <<u, "transition", v>> \in Keys(log)
    BY DEF Audited
  <2>1. v \in 1..workflows'[u].version
    BY <1>5
  <2>2. <<u, "transition", v>> \in Keys(log')
    BY <1>6, <2>1 DEF Audited
  <2>3. <<u, "transition", v>> # e.key
    <3> SUFFICES ASSUME e.key = <<u, "transition", v>> PROVE FALSE
      OBVIOUS
    <3>1. u = w /\ v = workflows[w].version + 1 /\ workflows[w].version \in Nat
      BY <1>5
    <3> QED BY <3>1
  <2> QED BY <1>3, <2>2, <2>3
<1>7. EventsReplay'
  <2>1. ASSUME NEW u \in Workflow, u # w
        PROVE  IF u \in DOMAIN workflows' THEN EventsOf(u)' # <<>> /\ (Audited(u)' => ReplayIs(u)')
               ELSE EventsOf(u)' = <<>>
    <3>1. EventsOf(u)' = EventsOf(u) /\ Born(u)' = Born(u) /\ Replay(u)' = Replay(u)
      BY <1>2, <2>1 DEF Born, Replay
    <3>2. CASE u \in DOMAIN workflows
      <4>1. EventsOf(u) # <<>> /\ (Audited(u) => ReplayIs(u))
        BY <3>2 DEF ReplayInv, EventsReplay
      <4>2. ReplayIs(u) => ReplayIs(u)'
        BY <1>3, <2>1, <3>1, <3>2 DEF ReplayIs
      <4> QED BY <1>6, <3>1, <3>2, <4>1, <4>2
    <3>3. CASE u \notin DOMAIN workflows
      BY <2>1, <3>1, <3>3 DEF ReplayInv, EventsReplay
    <3> QED BY <3>2, <3>3
  <2>2. EventsOf(w)' = Append(EventsOf(w), e) /\ EventsOf(w) \in Seq(StoredEvent)
    BY <1>2, <1>4
  <2>3. ASSUME w \in DOMAIN workflows
        PROVE  EventsOf(w)' # <<>> /\ (Audited(w)' => ReplayIs(w)')
    <3>1. EventsOf(w) # <<>> /\ (Audited(w) => ReplayIs(w))
      BY <2>3 DEF ReplayInv, EventsReplay
    <3>2. EventsOf(w)'[1] = EventsOf(w)[1] /\ EventsOf(w)' # <<>>
      BY <2>2, <3>1
    <3>3. Born(w)' = Born(w)
      BY <3>2 DEF Born
    <3>4. Replay(w)' = Apply(Replay(w), e)
      <4> DEFINE s == EventsOf(w)
                 start == Start(Born(w))
      <4>1. Replay(w)' = Replayed(start, Append(s, e))
        BY <2>2, <3>3 DEF Replay
      <4>2. s \in Seq(StoredEvent) /\ e \in StoredEvent
        BY <2>2
      <4> HIDE DEF s, start
      <4>3. Replayed(start, Append(s, e)) = Apply(Replayed(start, s), e)
        BY <4>2, ReplayOneMore
      <4> QED BY <4>1, <4>3 DEF Replay, s, start
    <3>5. ASSUME Audited(w)' PROVE ReplayIs(w)'
      <4>1. ReplayIs(w)
        BY <1>6, <2>3, <3>1, <3>5
      <4>2. PICK seen \in SUBSET Keys(log) : Replay(w) = Found(workflows[w], tasks[w], seen)
        BY <4>1 DEF ReplayIs
      <4>3. Replay(w)' = Found(workflows'[w], tasks'[w], seen \union {e.key})
        BY <2>3, <3>4, <4>2
      <4>4. seen \union {e.key} \in SUBSET Keys(log')
        BY <1>3
      <4> QED BY <4>3, <4>4 DEF ReplayIs
    <3> QED BY <3>2, <3>5
  <2>4. ASSUME w \notin DOMAIN workflows
        PROVE  EventsOf(w)' # <<>> /\ ReplayIs(w)'
    <3>1. EventsOf(w) = <<>>
      BY <2>4 DEF ReplayInv, EventsReplay
    <3>2. EventsOf(w)' = Append(<<>>, e) /\ EventsOf(w)'[1] = e /\ EventsOf(w)' # <<>>
      BY <2>2, <3>1
    <3>3. Born(w)' = [phase |-> e.to[1], status |-> e.to[2], version |-> e.version]
      BY <3>2 DEF Born
    <3>4. Born(w)' = workflows'[w] /\ tasks'[w] = <<>>
      BY <2>4, <3>3
    <3> DEFINE base == Born(w)'
               start == Start(base)
    <3>5. start = Found(base, <<>>, {})
      BY DEF Start, Found
    <3>6. Replay(w)' = Replayed(start, Append(<<>>, e))
      BY <3>2 DEF Replay
    <3> HIDE DEF base, start
    <3>7. Replayed(start, Append(<<>>, e)) = Apply(start, e)
      <4> DEFINE none == <<>>
      <4>1. Replayed(start, none) = start
        BY Replays
      <4>2. none \in Seq(StoredEvent) /\ e \in StoredEvent
        OBVIOUS
      <4> HIDE DEF none
      <4>3. Replayed(start, Append(none, e)) = Apply(Replayed(start, none), e)
        BY <4>2, ReplayOneMore
      <4> QED BY <4>1, <4>3 DEF none
    <3>8. Apply(start, e) = Found(base, <<>>, {e.key})
      <4>1. e.key \notin {} /\ {} \union {e.key} = {e.key}
        OBVIOUS
      <4>2. e.type \notin {"workflow.transitioned", "task.created", "task.status_changed"}
        BY <2>4
      <4>3. Apply(Found(base, <<>>, {}), e) = Found(base, <<>>, {} \union {e.key})
        BY <4>1, <4>2, OtherPasses
      <4> QED BY <3>5, <4>1, <4>3
    <3>9. Replay(w)' = Found(workflows'[w], tasks'[w], {e.key})
      BY <3>4, <3>6, <3>7, <3>8 DEF base
    <3> QED BY <1>3, <3>2, <3>9 DEF ReplayIs
  <2>5. IF w \in DOMAIN workflows' THEN EventsOf(w)' # <<>> /\ (Audited(w)' => ReplayIs(w)')
        ELSE EventsOf(w)' = <<>>
    BY <2>3, <2>4
  <2> QED BY <2>1, <2>5 DEF EventsReplay
<1>8. TransitionsPast'
  <2> SUFFICES ASSUME NEW u \in Workflow, NEW v \in Nat, <<u, "transition", v>> \in Keys(log')
               PROVE  u \in DOMAIN workflows' /\ v <= workflows'[u].version
    BY DEF TransitionsPast
  <2>1. CASE <<u, "transition", v>> \in Keys(log)
    <3>1. u \in DOMAIN workflows /\ v <= workflows[u].version
      BY <2>1 DEF ReplayInv, TransitionsPast
    <3> QED BY <1>5, <3>1
  <2>2. CASE e.key = <<u, "transition", v>>
    <3>1. u = w /\ v = workflows'[w].version
      BY <2>2
    <3> QED BY <3>1
  <2> QED BY <1>3, <2>1, <2>2
<1>9. TimesInOrder'
  <2> SUFFICES ASSUME NEW u \in Workflow
               PROVE  /\ \A p \in DOMAIN EventsOf(u)' : EventsOf(u)'[p].at <= clock
                      /\ \A p, q \in DOMAIN EventsOf(u)' : p < q =>
                           EventsOf(u)'[p].at <= EventsOf(u)'[q].at
    BY DEF TimesInOrder
  <2> DEFINE s == EventsOf(u)
             n == Len(s)
  <2>1. s \in Seq(StoredEvent) /\ n \in Nat /\ DOMAIN s = 1..n
    BY <1>4
  <2>2. \A p \in 1..n : s[p].at \in Nat
    <3>1. \A p \in 1..n : s[p] \in StoredEvent
      BY <2>1
    <3> QED BY <3>1 DEF StoredEvent
  <2>3. /\ \A p \in 1..n : s[p].at <= clock
        /\ \A p, q \in 1..n : p < q => s[p].at <= s[q].at
    BY <2>1 DEF ReplayInv, TimesInOrder
  <2> HIDE DEF s
  <2>4. CASE u # w
    <3>1. EventsOf(u)' = s
      BY <1>2, <2>4 DEF s
    <3> QED BY <2>1, <2>3, <3>1
  <2>5. CASE u = w
    <3> DEFINE t == Append(s, e)
    <3>1. EventsOf(u)' = t
      BY <1>2, <2>5 DEF s
    <3>2. DOMAIN t = 1..(n + 1) /\ t[n + 1] = e /\ \A p \in 1..n : t[p] = s[p]
      BY <2>1
    <3> HIDE DEF t, n
    <3>3. ASSUME NEW p \in DOMAIN t PROVE t[p].at <= clock
      BY <1>1, <2>1, <2>3, <3>2
    <3>4. ASSUME NEW p \in DOMAIN t, NEW q \in DOMAIN t, p < q
          PROVE  t[p].at <= t[q].at
      <4>1. p \in 1..n /\ (q \in 1..n \/ q = n + 1)
        BY <2>1, <3>2, <3>4
      <4>2. CASE q \in 1..n
        BY <2>3, <3>2, <3>4, <4>1, <4>2
      <4>3. CASE q = n + 1
        BY <2>3, <3>2, <4>1, <4>3
      <4> QED BY <4>1, <4>2, <4>3
    <3> QED BY <3>1, <3>3, <3>4
  <2> QED BY <2>4, <2>5
<1> QED BY <1>7, <1>8, <1>9 DEF ReplayInv

\* What the runtime records of a workflow it has, found again if it is applied.
LEMMA RecordIsFound ==
  ASSUME Inv, ReplayInv, NEW w \in DOMAIN workflows, NEW type \in RuntimeEvent, NEW about \in About,
         log' = Record(log, w, type, about), clock' = clock, workflows' = workflows,
         \A u \in DOMAIN workflows \ {w} : tasks'[u] = tasks[u],
         \A seen \in SUBSET Keys(log) :
           <<w, type, Len(log) + 1>> \notin seen =>
             Apply(Found(workflows[w], tasks[w], seen), Event(log, w, type, about))
               = Found(workflows[w], tasks'[w], seen \union {<<w, type, Len(log) + 1>>})
  PROVE  ReplayInv'
<1> DEFINE e == Event(log, w, type, about)
<1>1. w \in Workflow /\ workflows[w].version \in Nat
  BY DEF Inv, TypeOK
<1>2. /\ log' \in Seq(StoredEvent) /\ Len(log') = Len(log) + 1 /\ log'[Len(log')] = e
      /\ \A i \in 1..Len(log) : log'[i] = log[i]
  BY <1>1, RecordAppends DEF Inv
<1>3. e.at = clock /\ e.id[1] = w /\ e.key = <<w, type, Len(log) + 1>>
  BY DEF Event
<1>4. e.key \notin Keys(log)
  BY <1>1, <1>3, RuntimeEventIsFresh DEF Inv
<1> HIDE DEF e
<1>5. e \in StoredEvent
  <2>1. Len(log') \in 1..Len(log')
    BY <1>2 DEF Inv, TypeOK
  <2> QED BY <1>2, <2>1
<1>6. \A u, v : e.key # <<u, "transition", v>>
  <2>1. "transition" \notin RuntimeEvent
    BY DEF RuntimeEvent
  <2>2. e.key[2] = type
    BY <1>3
  <2> QED BY <2>1, <2>2
<1>7. \A seen \in SUBSET Keys(log) :
        Apply(Found(workflows[w], tasks[w], seen), e)
          = Found(workflows'[w], tasks'[w], seen \union {e.key})
  BY <1>3, <1>4 DEF e
<1>8. DOMAIN workflows' = DOMAIN workflows \union {w}
  OBVIOUS
<1>9. workflows'[w].version \in Nat /\ workflows[w].version <= workflows'[w].version
  BY <1>1
<1>10. \A u \in DOMAIN workflows \ {w} : workflows'[u] = workflows[u] /\ tasks'[u] = tasks[u]
  OBVIOUS
<1>11. \A u, v : e.key = <<u, "transition", v>> =>
                   u = w /\ v = workflows'[w].version
                   /\ w \in DOMAIN workflows /\ v = workflows[w].version + 1
  BY <1>6, Zenon
<1>12. w \notin DOMAIN workflows =>
         /\ tasks'[w] = <<>> /\ e.type = "workflow.created"
         /\ workflows'[w] = [phase |-> e.to[1], status |-> e.to[2], version |-> e.version]
  OBVIOUS
<1> QED BY <1>1, <1>2, <1>3, <1>4, <1>5, <1>7, <1>8, <1>9, <1>10, <1>11, <1>12, ReplayGoesOn, Zenon

\* addTasks is found again.
LEMMA AddIsFound ==
  ASSUME Inv, ReplayInv, NEW w \in Workflow, NEW t \in Task, AddTask(w, t)
  PROVE  ReplayInv'
<1> DEFINE about == Change(t, <<>>, <<"READY">>, 0)
           e == Event(log, w, "task.created", about)
<1>1. about \in About
  <2>1. "READY" \in Statuses
    BY DEF Statuses, TaskStatus
  <2>2. <<"READY">> \in Seq(Statuses)
    BY <2>1
  <2> QED BY <2>2, NothingFrom, AboutIs
<1>2. /\ e.type = "task.created" /\ e.task = t /\ e.to[1] = "READY" /\ e.version = 0
      /\ e.key = <<w, "task.created", Len(log) + 1>>
  BY DEF Event, Change
<1>3. /\ clock' = clock /\ workflows' = workflows
      /\ w \in DOMAIN workflows /\ t \notin DOMAIN tasks[w]
      /\ tasks'[w] = MapSet(tasks[w], t, [status |-> "READY", version |-> 0])
      /\ \A v \in DOMAIN workflows \ {w} : tasks'[v] = tasks[v]
  BY DEF AddTask, Inv, TypeOK
<1>4. log' = Record(log, w, "task.created", about) /\ "task.created" \in RuntimeEvent
  BY DEF AddTask, RuntimeEvent
<1> HIDE DEF e
<1>5. ASSUME NEW seen \in SUBSET Keys(log), e.key \notin seen
      PROVE  Apply(Found(workflows[w], tasks[w], seen), e)
               = Found(workflows[w], tasks'[w], seen \union {e.key})
  <2> DEFINE base == workflows[w]
             kept == tasks[w]
  <2>1. e.type = "task.created" /\ e.key \notin seen /\ e.task \notin DOMAIN kept
    BY <1>2, <1>3, <1>5
  <2> HIDE DEF base, kept
  <2>2. Apply(Found(base, kept, seen), e)
          = Found(base, MapSet(kept, e.task, [status |-> e.to[1], version |-> e.version]),
                  seen \union {e.key})
    BY <2>1, CreationApplies
  <2>3. MapSet(kept, e.task, [status |-> e.to[1], version |-> e.version]) = tasks'[w]
    BY <1>2, <1>3 DEF kept
  <2> QED BY <2>2, <2>3 DEF base, kept
<1>6. \A seen \in SUBSET Keys(log) :
        <<w, "task.created", Len(log) + 1>> \notin seen =>
          Apply(Found(workflows[w], tasks[w], seen), e)
            = Found(workflows[w], tasks'[w], seen \union {<<w, "task.created", Len(log) + 1>>})
  BY <1>2, <1>5, Zenon
<1> HIDE DEF about
<1> QED BY <1>1, <1>3, <1>4, <1>6, RecordIsFound, Zenon DEF e

\* updateTask is found again.
LEMMA SetStatusIsFound ==
  ASSUME Inv, ReplayInv, NEW w \in DOMAIN workflows, NEW t \in DOMAIN tasks[w],
         NEW status \in TaskStatus, SetStatus(w, t, status), UNCHANGED <<workflows, clock>>
  PROVE  ReplayInv'
<1> DEFINE about == Change(t, <<tasks[w][t].status>>, <<status>>, tasks[w][t].version + 1)
           e == Event(log, w, "task.status_changed", about)
           new == [status |-> status, version |-> tasks[w][t].version + 1]
<1>1. w \in DOMAIN tasks /\ t \in Task /\ tasks[w][t] \in [status : TaskStatus, version : Nat]
  BY DEF Inv, TypeOK
<1>2. about \in About
  <2>1. tasks[w][t].status \in Statuses /\ status \in Statuses /\ tasks[w][t].version + 1 \in Nat
    BY <1>1 DEF Statuses
  <2>2. <<tasks[w][t].status>> \in Seq(Statuses) /\ <<status>> \in Seq(Statuses)
    BY <2>1
  <2> QED BY <1>1, <2>1, <2>2, AboutIs
<1>3. /\ e.type = "task.status_changed" /\ e.task = t
      /\ e.from = <<tasks[w][t].status>> /\ e.to[1] = status
      /\ e.version = tasks[w][t].version + 1
      /\ e.key = <<w, "task.status_changed", Len(log) + 1>>
  BY DEF Event, Change
<1>4. /\ tasks'[w] = [tasks[w] EXCEPT ![t] = new]
      /\ \A v \in DOMAIN workflows \ {w} : tasks'[v] = tasks[v]
  BY <1>1 DEF SetStatus, Inv, TypeOK
<1>5. log' = Record(log, w, "task.status_changed", about) /\ "task.status_changed" \in RuntimeEvent
  BY DEF SetStatus, RuntimeEvent
<1> HIDE DEF e
<1>6. ASSUME NEW seen \in SUBSET Keys(log), e.key \notin seen
      PROVE  Apply(Found(workflows[w], tasks[w], seen), e)
               = Found(workflows[w], tasks'[w], seen \union {e.key})
  <2>1. e.task \in DOMAIN tasks[w] /\ e.from = <<tasks[w][e.task].status>>
    BY <1>3
  <2>2. Apply(Found(workflows[w], tasks[w], seen), e)
          = Found(workflows[w], [tasks[w] EXCEPT ![e.task] = [status |-> e.to[1], version |-> e.version]],
                  seen \union {e.key})
    BY <1>3, <1>6, <2>1, ChangeApplies
  <2> QED BY <1>3, <1>4, <2>2
<1>7. \A seen \in SUBSET Keys(log) :
        <<w, "task.status_changed", Len(log) + 1>> \notin seen =>
          Apply(Found(workflows[w], tasks[w], seen), e)
            = Found(workflows[w], tasks'[w],
                    seen \union {<<w, "task.status_changed", Len(log) + 1>>})
  BY <1>3, <1>6, Zenon
<1>8. clock' = clock /\ workflows' = workflows
  OBVIOUS
<1> HIDE DEF new, about
<1> QED BY <1>2, <1>4, <1>5, <1>7, <1>8, RecordIsFound, Zenon DEF e

\* What is recorded of other things is passed over.
LEMMA ReportIsFound ==
  ASSUME Inv, ReplayInv, NEW w \in DOMAIN workflows, NEW type \in RuntimeEvent \ TaskEvents,
         log' = Record(log, w, type, Nothing), UNCHANGED <<workflows, tasks, clock>>
  PROVE  ReplayInv'
<1> DEFINE e == Event(log, w, type, Nothing)
<1>1. e.type = type /\ e.key = <<w, type, Len(log) + 1>>
  BY DEF Event
<1>2. type \notin {"workflow.transitioned", "task.created", "task.status_changed"}
  BY DEF RuntimeEvent, TaskEvents
<1> HIDE DEF e
<1>3. \A seen \in SUBSET Keys(log) :
        e.key \notin seen => Apply(Found(workflows[w], tasks[w], seen), e)
                               = Found(workflows[w], tasks[w], seen \union {e.key})
  BY <1>1, <1>2, OtherPasses
<1> QED BY <1>1, <1>3, NothingIsAbout, RecordIsFound DEF e

\* createWorkflow stores the state that recovery starts from.
LEMMA CreationIsFound ==
  ASSUME Inv, ReplayInv, NEW w \in Workflow, NEW at \in Opening, CreateWorkflow(w, at)
  PROVE  ReplayInv'
<1> DEFINE about == Change(NoTask, <<>>, at, 0)
           e == Event(log, w, "workflow.created", about)
<1>1. about \in About
  <2>1. at \in Seq(Statuses)
    BY RuntimeAssumption, PairsAreSequences
  <2> QED BY <2>1, NothingFrom, AboutIs
<1>2. /\ DOMAIN workflows' = DOMAIN workflows \union {w} /\ w \notin DOMAIN workflows
      /\ workflows'[w] = [phase |-> at[1], status |-> at[2], version |-> 0]
      /\ tasks'[w] = <<>>
      /\ \A v \in DOMAIN workflows : workflows'[v] = workflows[v] /\ tasks'[v] = tasks[v]
  BY DEF CreateWorkflow, MapSet, Inv, TypeOK
<1>3. /\ log' = Record(log, w, "workflow.created", about) /\ clock' = clock
      /\ "workflow.created" \in RuntimeEvent
  BY DEF CreateWorkflow, RuntimeEvent
<1>4. /\ e.type = "workflow.created" /\ e.to = at /\ e.version = 0 /\ e.at = clock
      /\ e.id[1] = w /\ e.key = <<w, "workflow.created", Len(log) + 1>>
  BY DEF Event, Change
<1> HIDE DEF about
<1>5. /\ log' \in Seq(StoredEvent) /\ Len(log') = Len(log) + 1 /\ log'[Len(log')] = e
      /\ \A i \in 1..Len(log) : log'[i] = log[i]
  BY <1>1, <1>3, RecordAppends DEF Inv
<1>6. e.key \notin Keys(log)
  BY <1>3, <1>4, RuntimeEventIsFresh DEF Inv
<1> HIDE DEF e
<1>7. e \in StoredEvent
  <2>1. Len(log') \in 1..Len(log')
    BY <1>5 DEF Inv, TypeOK
  <2> QED BY <1>5, <2>1
<1>8. \A u, v : e.key # <<u, "transition", v>>
  <2>1. e.key[2] = "workflow.created"
    BY <1>4
  <2> QED BY <2>1
<1>9. workflows'[w] = [phase |-> e.to[1], status |-> e.to[2], version |-> e.version]
      /\ workflows'[w].version \in Nat
  BY <1>2, <1>4
<1> QED BY <1>2, <1>3, <1>4, <1>5, <1>6, <1>7, <1>8, <1>9, ReplayGoesOn

\* A transition is found again, or missing.
LEMMA TransitionIsFound ==
  ASSUME Inv, ReplayInv, NEW w \in Workflow, NEW to \in Target, Transition(w, to)
  PROVE  ReplayInv'
<1> DEFINE e == TransitionEvent(w, to)
           next == [phase |-> to[1], status |-> to[2], version |-> workflows[w].version + 1]
<1>1. log' \in Seq(StoredEvent)
  BY TransitionKeeps DEF Inv, TypeOK
<1>2. /\ log \in Seq(StoredEvent) /\ Len(log) \in Nat /\ clock \in Nat /\ clock' = clock
      /\ w \in DOMAIN workflows /\ workflows[w].version \in Nat /\ tasks' = tasks
  BY DEF Inv, TypeOK, Transition
<1>3. /\ DOMAIN workflows' = DOMAIN workflows /\ workflows'[w] = next
      /\ \A u \in DOMAIN workflows \ {w} : workflows'[u] = workflows[u]
  BY <1>2 DEF Transition, Inv, TypeOK
<1>4. /\ e.type = "workflow.transitioned" /\ e.from = <<workflows[w].phase, workflows[w].status>>
      /\ e.to = to /\ e.version = workflows[w].version + 1 /\ e.at = clock /\ e.id[1] = w
      /\ e.key = <<w, "transition", workflows[w].version + 1>>
  BY DEF TransitionEvent
<1>5. e.key \notin Keys(log)
  <2> SUFFICES ASSUME e.key \in Keys(log) PROVE FALSE
    OBVIOUS
  <2>1. workflows[w].version + 1 <= workflows[w].version
    BY <1>2, <1>4 DEF ReplayInv, TransitionsPast
  <2> QED BY <1>2, <2>1
<1>6. log' = log \/ log' = Append(log, e)
  BY DEF Transition, Appended
<1> HIDE DEF e
<1>7. CASE log' = log
  <2>1. ~Audited(w)'
    <3>1. next.version = workflows[w].version + 1 /\ next.version \in 1..next.version
      BY <1>2
    <3>2. <<w, "transition", next.version>> \notin Keys(log')
      BY <1>4, <1>5, <1>7, <3>1
    <3> QED BY <1>3, <3>1, <3>2 DEF Audited
  <2>2. clock <= clock' /\ clock' \in Nat /\ workflows'[w].version = workflows[w].version + 1
    BY <1>2, <1>3
  <2> HIDE DEF next
  <2> QED BY <1>2, <1>3, <1>7, <2>1, <2>2, ReplayStays
<1>8. CASE log' = Append(log, e)
  <2>1. /\ Len(log') = Len(log) + 1 /\ log'[Len(log')] = e
        /\ \A i \in 1..Len(log) : log'[i] = log[i]
    BY <1>2, <1>8
  <2>2. e \in StoredEvent
    <3>1. Len(log') \in 1..Len(log')
      BY <1>2, <2>1
    <3> QED BY <1>1, <2>1, <3>1
  <2>3. ASSUME NEW seen \in SUBSET Keys(log)
        PROVE  Apply(Found(workflows[w], tasks[w], seen), e)
                 = Found(workflows'[w], tasks'[w], seen \union {e.key})
    <3>1. e.key \notin seen
      BY <1>5
    <3>2. Apply(Found(workflows[w], tasks[w], seen), e)
            = Found([phase |-> e.to[1], status |-> e.to[2], version |-> e.version], tasks[w],
                    seen \union {e.key})
      BY <1>4, <3>1, TransitionApplies
    <3> QED BY <1>2, <1>3, <1>4, <3>2
  <2>4. /\ workflows'[w].version = workflows[w].version + 1 /\ workflows'[w].version \in Nat
        /\ workflows[w].version <= workflows'[w].version
    BY <1>2, <1>3
  <2>5. DOMAIN workflows' = DOMAIN workflows \union {w}
    BY <1>2, <1>3
  <2>6. \A u, v : e.key = <<u, "transition", v>> =>
                    u = w /\ v = workflows'[w].version
                    /\ w \in DOMAIN workflows /\ v = workflows[w].version + 1
    BY <1>2, <1>4, <2>4
  <2>7. \A u \in DOMAIN workflows \ {w} : workflows'[u] = workflows[u] /\ tasks'[u] = tasks[u]
    BY <1>2, <1>3
  <2>8. w \notin DOMAIN workflows =>
          /\ tasks'[w] = <<>> /\ e.type = "workflow.created"
          /\ workflows'[w] = [phase |-> e.to[1], status |-> e.to[2], version |-> e.version]
    BY <1>2
  <2> HIDE DEF next
  <2> QED BY <1>1, <1>2, <1>4, <1>5, <2>1, <2>2, <2>3, <2>4, <2>5, <2>6, <2>7, <2>8,
             ReplayGoesOn, Zenon
<1> QED BY <1>6, <1>7, <1>8

\* Before the first step nothing is stored, and nothing is to be found.
LEMMA ReplayStarts == Init => ReplayInv
<1> SUFFICES ASSUME Init PROVE ReplayInv
  OBVIOUS
<1>1. log = <<>> /\ log \in Seq(StoredEvent) /\ DOMAIN workflows = {} /\ Keys(log) = {}
  BY DEF Init, Keys
<1>2. \A w \in Workflow : EventsOf(w) = <<>>
  BY <1>1, EventsAreStored
<1> QED BY <1>1, <1>2 DEF ReplayInv, EventsReplay, TransitionsPast, TimesInOrder

\* Every step leaves events that replay, in order.
LEMMA StepIsFound == Inv /\ ReplayInv /\ [Next]_vars => ReplayInv'
<1> SUFFICES ASSUME Inv, ReplayInv, [Next]_vars PROVE ReplayInv'
  OBVIOUS
<1>1. clock \in Nat /\ clock <= clock
  BY DEF Inv, TypeOK
<1>2. CASE UNCHANGED vars
  BY <1>1, <1>2, ReplayStays DEF vars
<1>3. ASSUME NEW w \in Workflow, NEW at \in Opening, CreateWorkflow(w, at) PROVE ReplayInv'
  BY <1>3, CreationIsFound
<1>4. ASSUME NEW w \in Workflow, NEW to \in Target, Transition(w, to) PROVE ReplayInv'
  BY <1>4, TransitionIsFound
<1>5. ASSUME NEW w \in Workflow, NEW t \in Task, AddTask(w, t) PROVE ReplayInv'
  BY <1>5, AddIsFound
<1>6. ASSUME NEW w \in Workflow, NEW t \in Task, StartExecution(w, t) PROVE ReplayInv'
  <2>1. /\ w \in DOMAIN workflows /\ t \in DOMAIN tasks[w] /\ "RUNNING" \in TaskStatus
        /\ SetStatus(w, t, "RUNNING") /\ UNCHANGED <<workflows, clock>>
    BY <1>6 DEF StartExecution, TaskStatus
  <2> QED BY <2>1, SetStatusIsFound
<1>7. ASSUME NEW w \in Workflow, NEW t \in Task, NEW status \in {"APPROVED", "FAILED"},
             FinishExecution(w, t, status)
      PROVE  ReplayInv'
  <2>1. /\ w \in DOMAIN workflows /\ t \in DOMAIN tasks[w] /\ status \in TaskStatus
        /\ SetStatus(w, t, status) /\ UNCHANGED <<workflows, clock>>
    BY <1>7 DEF FinishExecution, TaskStatus, ExecutionsHaveTasks, Inv
  <2> QED BY <2>1, SetStatusIsFound
<1>8. ASSUME NEW w \in Workflow, NEW t \in Task, RejectExecution(w, t) PROVE ReplayInv'
  BY <1>1, <1>8, ReplayStays DEF RejectExecution
<1>9. ASSUME NEW w \in Workflow, NEW g \in Gate, NEW conclusion \in Conclusion,
             EvaluateGate(w, g, conclusion)
      PROVE  ReplayInv'
  <2>1. "gate.decided" \in RuntimeEvent \ TaskEvents
    BY DEF RuntimeEvent, TaskEvents
  <2> QED BY <1>9, <2>1, ReportIsFound DEF EvaluateGate
<1>10. ASSUME NEW w \in Workflow, NEW g \in Gate, NEW to \in Target, ApplyApprovedGate(w, g, to)
       PROVE  ReplayInv'
  BY <1>10, TransitionIsFound DEF ApplyApprovedGate
<1>11. ASSUME NEW w \in Workflow, NEW type \in Reports, Report(w, type) PROVE ReplayInv'
  <2>1. type \in RuntimeEvent \ TaskEvents
    BY RuntimeAssumption DEF RuntimeEvent, TaskEvents
  <2> QED BY <1>11, <2>1, ReportIsFound DEF Report
<1>12. CASE Tick
  <2>1. clock' \in Nat /\ clock <= clock' /\ UNCHANGED <<log, workflows, tasks>>
    BY <1>1, <1>12 DEF Tick
  <2> QED BY <2>1, ReplayStays
<1> QED
  BY <1>2, <1>3, <1>4, <1>5, <1>6, <1>7, <1>8, <1>9, <1>10, <1>11, <1>12 DEF Next

\* The place of a numeral is a number.
LEMMA TextRankType == ASSUME NEW n \in Nat PROVE TextRank(n) \in Nat
BY DEF TextRank

\* The rebuild of events that the sort leaves as they are.
LEMMA RebuiltInOrder ==
  ASSUME Inv, ReplayInv, NEW w \in DOMAIN workflows, Audited(w), InTextOrder(w)
  PROVE  RecoveryFinds(w)
<1> DEFINE s == EventsOf(w)
<1>1. w \in Workflow /\ workflows[w] \in Bases
  BY DEF Inv, TypeOK, Bases
<1>2. s \in Seq(StoredEvent)
  BY <1>1, EventsAreStored DEF Inv, TypeOK
<1>3. /\ DOMAIN s \subseteq Nat
      /\ \A p \in DOMAIN s : s[p].at \in Nat /\ s[p].id[2] \in Nat
  <2>1. \A p \in DOMAIN s : s[p] \in StoredEvent
    BY <1>2
  <2>2. \A e \in StoredEvent : e.at \in Nat
    BY DEF StoredEvent
  <2> QED BY <1>2, <2>1, <2>2, StoredNumbers
<1>4. \A p, q \in DOMAIN s : p < q => s[p].at <= s[q].at
  BY <1>1 DEF ReplayInv, TimesInOrder
<1>5. \A p, q \in DOMAIN s : p < q /\ s[p].at = s[q].at => TextRank(s[p].id[2]) < TextRank(s[q].id[2])
  BY DEF InTextOrder
<1> HIDE DEF s
<1>6. ASSUME NEW i \in DOMAIN s, NEW j \in DOMAIN s, i <= j PROVE ~Precedes(s[j], s[i])
  <2>1. /\ s[i].at \in Nat /\ s[j].at \in Nat /\ i \in Nat /\ j \in Nat
        /\ TextRank(s[i].id[2]) \in Nat /\ TextRank(s[j].id[2]) \in Nat
    BY <1>3, TextRankType
  <2>2. CASE i = j
    BY <2>1, <2>2 DEF Precedes
  <2>3. CASE i # j
    BY <1>4, <1>5, <1>6, <2>1, <2>3 DEF Precedes
  <2> QED BY <2>2, <2>3
<1>7. Ordered(s) = s
  BY <1>2, <1>6, OrderedAlready
<1>8. ReplayIs(w)
  BY <1>1 DEF ReplayInv, EventsReplay
<1>9. PICK seen \in SUBSET Keys(log) : Replay(w) = Found(workflows[w], tasks[w], seen)
  BY <1>8 DEF ReplayIs
<1>10. Rebuilt(Born(w), EventsOf(w)) = Found(workflows[w], tasks[w], seen)
  BY <1>7, <1>9 DEF Rebuilt, Replay, s
<1>11. /\ ~Found(workflows[w], tasks[w], seen).broken
       /\ Found(workflows[w], tasks[w], seen).tasks = tasks[w]
  BY Replaced
<1>12. [phase |-> Found(workflows[w], tasks[w], seen).phase,
        status |-> Found(workflows[w], tasks[w], seen).status,
        version |-> Found(workflows[w], tasks[w], seen).version] = workflows[w]
  BY <1>1 DEF Found, Bases
<1> QED BY <1>10, <1>11, <1>12 DEF RecoveryFinds

\* Recovery finds a workflow and its tasks as the runtime has them, whatever was
\* done, if no transition of it is missing from the store and comparing the ids of
\* events of one time as texts does not reorder them.
THEOREM RecoveryFindsAll == Spec => []RecoveryIsExact
<1>1. Inv /\ ReplayInv => RecoveryIsExact
  BY RebuiltInOrder DEF RecoveryIsExact
<1> QED BY <1>1, Invariance, ReplayStarts, StepIsFound, PTL DEF Spec

--------------------------------------------------------------------------------
(* What the audit trail of a workflow can lack. The store takes a transition *)
(* for one it has when its number, the version it leads to, is the number of *)
(* an event of the runtime about the same workflow. Nothing else is lost.    *)

\* The i-th event is the one a transition to version v of w left, or the one it
\* was taken for.
Audits(e, i, w, v) ==
  /\ e.id = <<w, v>>
  /\ \/ e.type = "workflow.transitioned" /\ e.version = v
     \/ e.type # "workflow.transitioned" /\ i = v

\* Each transition has its event in the store, unless the event stored at the
\* place its version names is another event of the same workflow.
GapsAreTakenNumbers ==
  \A w \in DOMAIN workflows : \A v \in 1..workflows[w].version :
    \E i \in DOMAIN log : Audits(log[i], i, w, v)

\* A transition's event is numbered by its version, any other by its place.
Placed(e, i) ==
  \/ /\ e.type \in RuntimeEvent /\ e.id[2] = i /\ e.key[2] # "transition"
  \/ /\ e.type = "workflow.transitioned" /\ e.id[2] = e.version
     /\ e.key = <<e.id[1], "transition", e.version>>

EventsPlaced == \A i \in DOMAIN log : Placed(log[i], i)

AuditInv == EventsPlaced /\ GapsAreTakenNumbers

\* What Append leaves.
LEMMA AppendOne ==
  ASSUME NEW X, NEW s \in Seq(X), NEW e
  PROVE  /\ DOMAIN Append(s, e) = 1..(Len(s) + 1)
         /\ Append(s, e)[Len(s) + 1] = e
         /\ \A i \in 1..Len(s) : Append(s, e)[i] = s[i]
OBVIOUS

\* The store grows at its end, by events in their places; what is stored stays.
LEMMA AuditGrows ==
  ASSUME Inv, AuditInv,
         \/ log' = log
         \/ \E e : log' = Append(log, e) /\ Placed(e, Len(log) + 1),
         \A w \in DOMAIN workflows' : \A v \in 1..workflows'[w].version :
           \/ w \in DOMAIN workflows /\ v \in 1..workflows[w].version
           \/ \E i \in DOMAIN log' : Audits(log'[i], i, w, v)
  PROVE  AuditInv'
<1> DEFINE n == Len(log)
<1>1. log \in Seq(StoredEvent) /\ n \in Nat /\ DOMAIN log = 1..n
  BY DEF Inv, TypeOK
<1>2. /\ DOMAIN log \subseteq DOMAIN log'
      /\ \A i \in DOMAIN log : log'[i] = log[i]
      /\ \A i \in DOMAIN log' \ DOMAIN log : Placed(log'[i], i)
  <2>1. CASE log' = log
    BY <2>1
  <2>2. ASSUME NEW e, log' = Append(log, e), Placed(e, n + 1)
        PROVE  /\ DOMAIN log \subseteq DOMAIN log'
               /\ \A i \in DOMAIN log : log'[i] = log[i]
               /\ \A i \in DOMAIN log' \ DOMAIN log : Placed(log'[i], i)
    <3>1. DOMAIN log' = 1..(n + 1) /\ log'[n + 1] = e /\ \A i \in 1..n : log'[i] = log[i]
      <4>1. log \in Seq(StoredEvent) /\ log' = Append(log, e)
        BY <1>1, <2>2
      <4> QED
        BY <4>1, AppendOne
    <3>2. n \in Nat
      BY <1>1
    <3> HIDE DEF n
    <3>3. 1..n \subseteq 1..(n + 1) /\ \A i \in (1..(n + 1)) \ (1..n) : i = n + 1
      BY <3>2
    <3> QED
      BY <1>1, <2>2, <3>1, <3>3
  <2> HIDE DEF n
  <2> QED
    BY <2>1, <2>2 DEF n
<1> HIDE DEF n
<1>3. EventsPlaced'
  BY <1>2 DEF AuditInv, EventsPlaced
<1>4. GapsAreTakenNumbers'
  <2> SUFFICES ASSUME NEW w \in DOMAIN workflows', NEW v \in 1..workflows'[w].version
               PROVE  \E i \in DOMAIN log' : Audits(log'[i], i, w, v)
    BY DEF GapsAreTakenNumbers
  <2>1. CASE w \in DOMAIN workflows /\ v \in 1..workflows[w].version
    <3>1. PICK i \in DOMAIN log : Audits(log[i], i, w, v)
      BY <2>1 DEF AuditInv, GapsAreTakenNumbers
    <3> QED
      BY <1>2, <3>1 DEF Audits
  <2> QED
    BY <2>1
<1> QED
  BY <1>3, <1>4 DEF AuditInv

\* What the runtime records is put in its place.
LEMMA RecordIsPlaced ==
  ASSUME Inv, AuditInv, NEW w \in Workflow, NEW type \in RuntimeEvent, NEW about,
         log' = Record(log, w, type, about),
         \A u \in DOMAIN workflows' :
           \/ u \in DOMAIN workflows /\ workflows'[u].version = workflows[u].version
           \/ workflows'[u].version = 0
  PROVE  AuditInv'
<1> DEFINE e == Event(log, w, type, about)
<1>1. e.id = <<w, Len(log) + 1>> /\ e.key = <<w, type, Len(log) + 1>> /\ e.type = type
  BY DEF Event
<1>2. e.id \notin Ids(log) /\ e.key \notin Keys(log)
  BY <1>1, RuntimeEventIsFresh DEF Inv
<1>3. log' = Append(log, e)
  BY <1>2 DEF Record, Appended
<1>4. Placed(e, Len(log) + 1)
  <2>1. "transition" \notin RuntimeEvent
    BY DEF RuntimeEvent
  <2> HIDE DEF e
  <2> QED
    BY <1>1, <2>1 DEF Placed
<1> HIDE DEF e
<1> QED
  BY <1>3, <1>4, AuditGrows

\* A transition leaves its event, or finds its number taken.
LEMMA TransitionIsAudited ==
  ASSUME Inv, AuditInv, NEW w \in Workflow, NEW to \in Target, Transition(w, to)
  PROVE  AuditInv'
<1> DEFINE v == workflows[w].version + 1
           e == TransitionEvent(w, to)
<1>1. log \in Seq(StoredEvent) /\ DOMAIN log = 1..Len(log) /\ Len(log) \in Nat
  BY DEF Inv, TypeOK
<1>2. w \in DOMAIN workflows /\ workflows[w].version \in Nat
  BY DEF Transition, Inv, TypeOK
<1>3. /\ DOMAIN workflows' = DOMAIN workflows /\ workflows'[w].version = v
      /\ \A u \in DOMAIN workflows \ {w} : workflows'[u] = workflows[u]
  BY DEF Transition, Inv, TypeOK
<1>4. /\ e.id = <<w, v>> /\ e.key = <<w, "transition", v>>
      /\ e.type = "workflow.transitioned" /\ e.version = v
  BY DEF TransitionEvent
<1>5. log' = Appended(log, e)
  BY DEF Transition
<1> HIDE DEF e
<1>6. \/ log' = log
      \/ \E x : log' = Append(log, x) /\ Placed(x, Len(log) + 1)
  <2>1. Placed(e, Len(log) + 1)
    BY <1>4 DEF Placed
  <2> QED
    BY <1>5, <2>1 DEF Appended
<1>7. \E i \in DOMAIN log' : Audits(log'[i], i, w, v)
  <2>1. CASE e.id \in Ids(log)
    <3>1. PICK i \in DOMAIN log : log[i].id = <<w, v>>
      BY <1>4, <2>1 DEF Ids
    <3>2. log' = log
      BY <1>5, <2>1 DEF Appended
    <3>3. log[i].id[2] = v
      BY <3>1
    <3>4. Placed(log[i], i)
      BY DEF AuditInv, EventsPlaced
    <3>5. "workflow.transitioned" \notin RuntimeEvent
      BY DEF RuntimeEvent
    <3>6. Audits(log[i], i, w, v)
      <4> HIDE DEF v
      <4>1. CASE log[i].type \in RuntimeEvent /\ log[i].id[2] = i
        BY <3>1, <3>3, <3>5, <4>1 DEF Audits
      <4>2. CASE log[i].type = "workflow.transitioned" /\ log[i].id[2] = log[i].version
        BY <3>1, <3>3, <4>2 DEF Audits
      <4> QED
        BY <3>4, <4>1, <4>2 DEF Placed
    <3> HIDE DEF v
    <3> QED
      BY <3>2, <3>6 DEF Audits
  <2>2. CASE e.id \notin Ids(log) /\ e.key \in Keys(log)
    <3>1. PICK i \in DOMAIN log : log[i].key = <<w, "transition", v>>
      BY <1>4, <2>2 DEF Keys
    <3>2. log' = log
      BY <1>5, <2>2 DEF Appended
    <3>3. log[i].key[1] = w /\ log[i].key[2] = "transition" /\ log[i].key[3] = v
      BY <3>1
    <3>4. Placed(log[i], i)
      BY DEF AuditInv, EventsPlaced
    <3>5. log[i].id = <<log[i].id[1], log[i].id[2]>>
      <4>1. log[i] \in StoredEvent
        BY <1>1
      <4>2. log[i].id \in Workflow \X Nat
        BY <4>1 DEF StoredEvent
      <4> QED
        BY <4>2
    <3>6. /\ log[i].id[2] = log[i].version
          /\ log[i].key = <<log[i].id[1], "transition", log[i].version>>
      BY <3>3, <3>4 DEF Placed
    <3>7. log[i].id[1] = w /\ log[i].version = v
      BY <3>3, <3>6
    <3>8. log[i].id = <<w, v>>
      <4> HIDE DEF v
      <4> QED
        BY <3>5, <3>6, <3>7
    <3> QED
      BY <1>4, <2>2, <3>8 DEF Ids
  <2>3. CASE e.id \notin Ids(log) /\ e.key \notin Keys(log)
    <3>1. log' = Append(log, e)
      BY <1>5, <2>3 DEF Appended
    <3>2. Len(log) + 1 \in DOMAIN log' /\ log'[Len(log) + 1] = e
      BY <1>1, <3>1, AppendOne
    <3> HIDE DEF v
    <3> QED
      BY <1>4, <3>2 DEF Audits
  <2> QED
    BY <2>1, <2>2, <2>3
<1>8. \A u \in DOMAIN workflows' : \A x \in 1..workflows'[u].version :
        \/ u \in DOMAIN workflows /\ x \in 1..workflows[u].version
        \/ \E i \in DOMAIN log' : Audits(log'[i], i, u, x)
  <2> SUFFICES ASSUME NEW u \in DOMAIN workflows', NEW x \in 1..workflows'[u].version,
                      ~(x \in 1..workflows[u].version)
               PROVE  \E i \in DOMAIN log' : Audits(log'[i], i, u, x)
    BY <1>3
  <2>1. u = w
    BY <1>3
  <2>2. x = v
    <3>1. x \in 1..v
      BY <1>3, <2>1
    <3>2. ~(x \in 1..workflows[w].version)
      BY <2>1
    <3> QED
      BY <1>2, <3>1, <3>2
  <2> HIDE DEF v
  <2> QED
    BY <1>7, <2>1, <2>2
<1> QED
  BY <1>6, <1>8, AuditGrows

\* A transition is missing from the store only where its version is the place
\* of another event of the same workflow: the trail has no other gaps.
THEOREM TransitionsAreAudited == Spec => []GapsAreTakenNumbers
<1>1. Init => AuditInv
  BY DEF Init, AuditInv, EventsPlaced, GapsAreTakenNumbers
<1>2. Inv /\ AuditInv /\ [Next]_vars => AuditInv'
  <2> SUFFICES ASSUME Inv, AuditInv, [Next]_vars PROVE AuditInv'
    OBVIOUS
  <2>1. ASSUME UNCHANGED <<log, workflows>> PROVE AuditInv'
    BY <2>1 DEF AuditInv, EventsPlaced, GapsAreTakenNumbers, Audits
  <2>2. ASSUME NEW w \in Workflow, NEW type \in RuntimeEvent, NEW about,
               log' = Record(log, w, type, about), workflows' = workflows
        PROVE  AuditInv'
    BY <2>2, RecordIsPlaced
  <2>3. TaskEvents \subseteq RuntimeEvent /\ Reports \subseteq RuntimeEvent
        /\ "gate.decided" \in RuntimeEvent /\ "workflow.created" \in RuntimeEvent
    BY RuntimeAssumption DEF RuntimeEvent, TaskEvents
  <2>4. ASSUME NEW w \in Workflow, NEW t, NEW status, SetStatus(w, t, status), workflows' = workflows
        PROVE  AuditInv'
    <3>1. "task.status_changed" \in RuntimeEvent
      BY DEF RuntimeEvent
    <3> QED
      BY <2>2, <2>4, <3>1 DEF SetStatus
  <2>5. CASE UNCHANGED vars
    BY <2>1, <2>5 DEF vars
  <2>6. ASSUME NEW w \in Workflow, NEW at \in Opening, CreateWorkflow(w, at) PROVE AuditInv'
    <3>1. \A u \in DOMAIN workflows' :
            \/ u \in DOMAIN workflows /\ workflows'[u].version = workflows[u].version
            \/ workflows'[u].version = 0
      BY <2>6 DEF CreateWorkflow, MapSet
    <3>2. log' = Record(log, w, "workflow.created", Change(NoTask, <<>>, at, 0))
      BY <2>6 DEF CreateWorkflow
    <3> QED
      BY <2>3, <3>1, <3>2, RecordIsPlaced
  <2>7. ASSUME NEW w \in Workflow, NEW to \in Target, Transition(w, to) PROVE AuditInv'
    BY <2>7, TransitionIsAudited
  <2>8. ASSUME NEW w \in Workflow, NEW t \in Task, AddTask(w, t) PROVE AuditInv'
    <3>1. "task.created" \in RuntimeEvent /\ workflows' = workflows
          /\ log' = Record(log, w, "task.created", Change(t, <<>>, <<"READY">>, 0))
      BY <2>8 DEF AddTask, RuntimeEvent
    <3> QED
      BY <2>2, <3>1
  <2>9. ASSUME NEW w \in Workflow, NEW t \in Task, StartExecution(w, t) PROVE AuditInv'
    BY <2>4, <2>9 DEF StartExecution
  <2>10. ASSUME NEW w \in Workflow, NEW t \in Task, NEW status \in {"APPROVED", "FAILED"},
                FinishExecution(w, t, status)
         PROVE  AuditInv'
    BY <2>4, <2>10 DEF FinishExecution
  <2>11. ASSUME NEW w \in Workflow, NEW t \in Task, RejectExecution(w, t) PROVE AuditInv'
    BY <2>1, <2>11 DEF RejectExecution
  <2>12. ASSUME NEW w \in Workflow, NEW g \in Gate, NEW conclusion \in Conclusion,
                EvaluateGate(w, g, conclusion)
         PROVE  AuditInv'
    BY <2>2, <2>3, <2>12 DEF EvaluateGate
  <2>13. ASSUME NEW w \in Workflow, NEW g \in Gate, NEW to \in Target, ApplyApprovedGate(w, g, to)
         PROVE  AuditInv'
    BY <2>13, TransitionIsAudited DEF ApplyApprovedGate
  <2>14. ASSUME NEW w \in Workflow, NEW type \in Reports, Report(w, type) PROVE AuditInv'
    <3>1. type \in RuntimeEvent /\ log' = Record(log, w, type, Nothing) /\ workflows' = workflows
      BY <2>3, <2>14 DEF Report
    <3> QED
      BY <2>2, <3>1
  <2>15. CASE Tick
    BY <2>1, <2>15 DEF Tick
  <2> QED
    BY <2>5, <2>6, <2>7, <2>8, <2>9, <2>10, <2>11, <2>12, <2>13, <2>14, <2>15 DEF Next
<1>3. AuditInv => GapsAreTakenNumbers
  BY DEF AuditInv
<1> QED
  BY <1>1, <1>2, <1>3, Invariance, PTL DEF Spec

==============================================================================
