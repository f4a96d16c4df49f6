---------------------------- MODULE JsonFileStore ----------------------------
(***************************************************************************)
(* The JSON file store: calls of write for one record. Each writes a       *)
(* temporary file and renames it onto the record; whatever fails on the    *)
(* way, the temporary file is removed. Between any two file operations     *)
(* other calls run, and the process may stop. Files are named by the call  *)
(* that filled them.                                                       *)
(***************************************************************************)
EXTENDS Naturals, FiniteSets

CONSTANTS
  Call,       \* the calls of write
  Moment,     \* the milliseconds they take place in, which name temporary files
  PerMoment,  \* bound on the calls of one millisecond
  NoFile

ASSUME StoreAssumption == NoFile \notin Call

VARIABLES
  record,   \* whose file the record is
  temp,     \* temp[m]: whose file has the temporary name of m
  whole,    \* the calls whose file is written to its end
  writing,  \* how far each call is
  moment,   \* the millisecond a call has its temporary name from
  immutable \* the calls that may not replace a record

storeVars == <<record, temp, whole, writing, moment, immutable>>

StoreTypeOK ==
  /\ record \in Call \cup {NoFile}
  /\ temp \in [Moment -> Call \cup {NoFile}]
  /\ whole \subseteq Call /\ immutable \subseteq Call
  /\ writing \in [Call -> {"new", "checked", "opened", "written", "synced", "failing",
                           "stored", "refused", "failed"}]
  /\ moment \in [Call -> Moment]

StoreInit ==
  /\ record = NoFile
  /\ temp = [m \in Moment |-> NoFile]
  /\ whole = {}
  /\ writing = [c \in Call |-> "new"]
  /\ moment \in [Call -> Moment]
  /\ \A m \in Moment : Cardinality({c \in Call : moment[c] = m}) <= PerMoment
  /\ immutable \in SUBSET Call

CallGoes(c, from, to) == writing[c] = from /\ writing' = [writing EXCEPT ![c] = to]

Temp(c) == temp[moment[c]]

\* The record exists and the call may not replace it.
Denied(c) == c \in immutable /\ record # NoFile

CheckRecord(c) ==
  /\ IF Denied(c) THEN CallGoes(c, "new", "refused") ELSE CallGoes(c, "new", "checked")
  /\ UNCHANGED <<record, temp, whole, moment, immutable>>

\* The file is created with flag wx: a name that is taken makes it fail.
OpenTemp(c) ==
  /\ IF Temp(c) = NoFile
     THEN CallGoes(c, "checked", "opened") /\ temp' = [temp EXCEPT ![moment[c]] = c]
     ELSE CallGoes(c, "checked", "failing") /\ UNCHANGED temp
  /\ UNCHANGED <<record, whole, moment, immutable>>

WriteTemp(c) ==
  /\ \/ CallGoes(c, "opened", "written") /\ whole' = whole \cup {c}
     \/ CallGoes(c, "opened", "failing") /\ UNCHANGED whole
  /\ UNCHANGED <<record, temp, moment, immutable>>

\* Mutant: the temporary file is renamed while it is being written.
SyncUnwritten(c) ==
  /\ IF Temp(c) = NoFile THEN CallGoes(c, "opened", "failing") ELSE CallGoes(c, "opened", "synced")
  /\ UNCHANGED <<record, temp, whole, moment, immutable>>
\* The file of that name is opened again and synced.
SyncTemp(c) ==
  /\ IF Temp(c) = NoFile THEN CallGoes(c, "written", "failing") ELSE CallGoes(c, "written", "synced")
  /\ UNCHANGED <<record, temp, whole, moment, immutable>>

RenameTemp(c) ==
  /\ IF Temp(c) = NoFile
     THEN CallGoes(c, "synced", "failing") /\ UNCHANGED <<record, temp>>
     ELSE /\ CallGoes(c, "synced", "stored")
          /\ record' = Temp(c)
          /\ temp' = [temp EXCEPT ![moment[c]] = NoFile]
  /\ UNCHANGED <<whole, moment, immutable>>

\* The error path removes whatever file has the temporary name.
RemoveTemp(c) ==
  /\ CallGoes(c, "failing", "failed")
  /\ temp' = [temp EXCEPT ![moment[c]] = NoFile]
  /\ UNCHANGED <<record, whole, moment, immutable>>

StoreNext ==
  \E c \in Call :
    CheckRecord(c) \/ OpenTemp(c) \/ WriteTemp(c) \/ SyncTemp(c) \/ RenameTemp(c) \/ RemoveTemp(c)

StoreSpec == StoreInit /\ [][StoreNext]_storeVars

------------------------------------------------------------------------------
\* Whenever the process stops, the record is absent or the whole file of a call
\* that reports success: what a failed, refused or unfinished call wrote is
\* never in its place, although a call that meets a taken name removes the file
\* another call is writing (json-file-store.mjs:14-24). This needs that no three
\* calls share a millisecond, since the third may put a new file there.
RecordsAreWhole == record # NoFile => record \in whole /\ writing[record] = "stored"
==============================================================================
