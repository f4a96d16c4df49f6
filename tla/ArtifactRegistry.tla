--------------------------- MODULE ArtifactRegistry ---------------------------
(***************************************************************************)
(* The artifact registry: versions of logical artifacts, the one that is   *)
(* active for each logical key, and who superseded whom. An artifact is    *)
(* known by its number in the order of registration.                       *)
(***************************************************************************)
EXTENDS Naturals, Sequences

CONSTANTS
  LogicalKey,    \* logical keys, with their project and workflow
  MaxArtifacts   \* bound on the artifacts that are registered

ASSUME MaxArtifactsAssumption == MaxArtifacts \in Nat

VARIABLES
  artifacts,     \* the records, in the order of registration
  activeByKey    \* activeByLogicalKey; 0 where a key has no active artifact

registryVars == <<artifacts, activeByKey>>

ArtifactStatus == {"DRAFT", "ACTIVE", "SUPERSEDED", "REJECTED", "ARCHIVED"}
RetiredStatus == {"REJECTED", "ARCHIVED"}

\* supersedes and supersededBy are 0 where the code has null.
Artifact == [key : LogicalKey, version : Nat, status : ArtifactStatus,
             supersedes : Nat, supersededBy : Nat]
NewArtifact(key, version, status, supersedes) ==
  [key |-> key, version |-> version, status |-> status, supersedes |-> supersedes,
   supersededBy |-> 0]
WithStatus(a, status) == [a EXCEPT !.status = status]

RegistryTypeOK ==
  /\ artifacts \in Seq(Artifact)
  /\ activeByKey \in [LogicalKey -> Nat]

RegistryInit ==
  /\ artifacts = <<>>
  /\ activeByKey = [key \in LogicalKey |-> 0]

\* Mutant: a superseded artifact names itself.
SupersededByItself(key, id) ==
  LET previous == activeByKey[key]
  IN IF previous = 0 \/ previous = id THEN artifacts
     ELSE [artifacts EXCEPT ![previous] = [@ EXCEPT !.status = "SUPERSEDED", !.supersededBy = previous]]

\* The records after the active artifact of a key gave way to artifact id.
Superseded(key, id) ==
  LET previous == activeByKey[key]
  IN IF previous = 0 \/ previous = id THEN artifacts
     ELSE [artifacts EXCEPT ![previous] = [@ EXCEPT !.status = "SUPERSEDED", !.supersededBy = id]]

\* The version of a new artifact is counted from the active one.
NextVersion(key) == IF activeByKey[key] = 0 THEN 1 ELSE artifacts[activeByKey[key]].version + 1

\* register: with activate, the new artifact takes the place of the active one.
Register(key, activate) ==
  LET id == Len(artifacts) + 1
      status == IF activate THEN "ACTIVE" ELSE "DRAFT"
  IN /\ Len(artifacts) < MaxArtifacts
     /\ artifacts' = Append(IF activate THEN Superseded(key, id) ELSE artifacts,
                            NewArtifact(key, NextVersion(key), status, activeByKey[key]))
     /\ activeByKey' = IF activate THEN [activeByKey EXCEPT ![key] = id] ELSE activeByKey

Activatable(id) == artifacts[id].status \notin RetiredStatus

\* activate: an artifact that was superseded before can be active again, and
\* keeps the name of the one that superseded it.
Activate(id) ==
  LET key == artifacts[id].key
      current == activeByKey[key]
      supersedes == IF current = 0 THEN artifacts[id].supersedes ELSE current
  IN /\ Activatable(id)
     /\ artifacts' = [Superseded(key, id) EXCEPT ![id] = [artifacts[id] EXCEPT
                        !.status = "ACTIVE", !.supersedes = supersedes]]
     /\ activeByKey' = [activeByKey EXCEPT ![key] = id]

\* Mutant: the key goes on naming an artifact that was taken back.
KeepActive(id) == activeByKey
\* The key has no active artifact any more if it was this one.
WithoutActive(id) ==
  [key \in LogicalKey |-> IF activeByKey[key] = id THEN 0 ELSE activeByKey[key]]

\* reject and archive, from any status.
Retire(id, status) ==
  /\ artifacts' = [artifacts EXCEPT ![id] = WithStatus(artifacts[id], status)]
  /\ activeByKey' = WithoutActive(id)

RegistryNext ==
  \/ \E key \in LogicalKey, activate \in BOOLEAN : Register(key, activate)
  \/ \E id \in DOMAIN artifacts :
       Activate(id) \/ \E status \in RetiredStatus : Retire(id, status)

RegistrySpec == RegistryInit /\ [][RegistryNext]_registryVars

------------------------------------------------------------------------------
\* The index and the records agree: the key of every active artifact names it,
\* so that there is at most one per key, and what a key names is active. The
\* two are updated apart by register, activate, reject and archive
\* (artifact-registry.mjs:36-70, 80-87, 95-97, 104-106).
ActiveIsIndexed ==
  /\ \A id \in DOMAIN artifacts :
       artifacts[id].status = "ACTIVE" <=> activeByKey[artifacts[id].key] = id
  /\ \A key \in LogicalKey : activeByKey[key] # 0 =>
       /\ activeByKey[key] \in DOMAIN artifacts
       /\ artifacts[activeByKey[key]].key = key

\* A superseded artifact names another artifact of its key as the one that
\* superseded it, however often the two have replaced one another since
\* (artifact-registry.mjs:36-44, 80-84).
SupersessionIsTraced ==
  \A id \in DOMAIN artifacts : artifacts[id].status = "SUPERSEDED" =>
    LET by == artifacts[id].supersededBy
    IN by \in DOMAIN artifacts /\ by # id /\ artifacts[by].key = artifacts[id].key

\* What was rejected or archived never comes back, and keeps its key, version and
\* place in the chain, though register and activate give the artifact that a key
\* names a new status without looking at its old one; reject and archive may still
\* turn the one status into the other (artifact-registry.mjs:36-44, 74-87, 91-108).
KeepsRetired ==
  \A id \in DOMAIN artifacts : artifacts[id].status \in RetiredStatus =>
    \E status \in RetiredStatus : artifacts'[id] = WithStatus(artifacts[id], status)
RetiredStays == [][KeepsRetired]_registryVars
==============================================================================
