------------------------------- MODULE Journal -------------------------------
(***************************************************************************)
(* The store of internal/journal at work: a save changes the memory, then  *)
(* writes all of it to a temporary file and renames that over the file;    *)
(* when either fails the memory is restored part by part.  The process may *)
(* be killed at any point and started again on the same file.              *)
(*                                                                         *)
(* The store's mutex is held from the start of a save to its end, so there *)
(* is one save at a time and nobody reads the memory meanwhile.            *)
(***************************************************************************)
EXTENDS JournalState

CONSTANTS
    Data,        \* what tells two changes of a job apart
    Actor,       \* who asks for them
    Torn,        \* no temporary file, or not a whole encoding
    NoSave,      \* nothing to restore
    MaxEvents    \* bound on the events of the log

VARIABLES
    path,     \* whether the store was given a path
    reliable, \* whether what is there can always be read
    up,       \* whether the process runs
    memory,   \* the fields of Store
    file,     \* what reading the path yields; no file reads as an empty store
    tmp,      \* what is at the path with .tmp appended
    step,     \* how far the save in progress is: "idle", "changed", "written"
    saving    \* its write, and what it will restore if it fails

vars == <<path, reliable, up, memory, file, tmp, step, saving>>

-----------------------------------------------------------------------------
(* The writes the service asks for. *)

Body(s, j, data) ==
    [version |-> IF s.jobs[j] = Nothing THEN 0 ELSE s.jobs[j].version + 1,
     data    |-> data]

Record(j, body) == [job |-> j, version |-> body.version]

WriteOf(s, type, j, key, credential, actor, data) ==
    [type |-> type, job |-> j, body |-> Body(s, j, data), actor |-> actor,
     data |-> data, key |-> key, credential |-> credential,
     record |-> Record(j, Body(s, j, data))]

Absent(s, key) == key = NoKey \/ s.idempotency[key] = Nothing

\* Create, for a fresh identifier; with a key that has a record it does nothing.
Creations(s) ==
    {WriteOf(s, "job.created", j, k, Nothing, a, d) :
        j \in {i \in JobId : s.jobs[i] = Nothing},
        k \in {i \in Key \cup {NoKey} : Absent(s, i)}, a \in Actor, d \in Data}

\* Save and SaveIdempotent.
Changes(s) ==
    {WriteOf(s, "job.changed", j, k, Nothing, a, d) :
        j \in {i \in JobId : s.jobs[i] # Nothing},
        k \in {i \in Key \cup {NoKey} : Absent(s, i)}, a \in Actor, d \in Data}

\* CommitCredential, once for a job.
Issues(s) ==
    {WriteOf(s, "credential.issued", j, k, [version |-> Body(s, j, d).version], a, d) :
        j \in {i \in JobId : s.jobs[i] # Nothing /\ s.credentials[i] = Nothing},
        k \in {i \in Key : Absent(s, i)}, a \in Actor, d \in Data}

Write(s) ==
    IF Len(s.events) < MaxEvents THEN Creations(s) \cup Changes(s) \cup Issues(s) ELSE {}

-----------------------------------------------------------------------------
(* Saving. *)

\* What a save puts aside before it changes anything.
Old(s, w) ==
    [job            |-> s.jobs[w.job],
     credential     |-> s.credentials[w.job],
     record         |-> IF w.key = NoKey THEN Nothing ELSE s.idempotency[w.key],
     events         |-> Len(s.events),
     sequence       |-> s.sequence,
     previousDigest |-> s.previousDigest]

\* Seeded faults: the restored parts leave out the head of the chain, or the
\* idempotency record, or the credential.
RolledBack_HeadBug(s, w, old) ==
    [jobs           |-> [s.jobs EXCEPT ![w.job] = old.job],
     credentials    |-> [s.credentials EXCEPT ![w.job] = old.credential],
     idempotency    |-> IF w.key = NoKey THEN s.idempotency
                        ELSE [s.idempotency EXCEPT ![w.key] = old.record],
     events         |-> SubSeq(s.events, 1, old.events),
     sequence       |-> old.sequence,
     previousDigest |-> s.previousDigest]
RolledBack_RecordBug(s, w, old) ==
    [jobs           |-> [s.jobs EXCEPT ![w.job] = old.job],
     credentials    |-> [s.credentials EXCEPT ![w.job] = old.credential],
     idempotency    |-> s.idempotency,
     events         |-> SubSeq(s.events, 1, old.events),
     sequence       |-> old.sequence,
     previousDigest |-> old.previousDigest]
RolledBack_CredentialBug(s, w, old) ==
    [jobs           |-> [s.jobs EXCEPT ![w.job] = old.job],
     credentials    |-> s.credentials,
     idempotency    |-> IF w.key = NoKey THEN s.idempotency
                        ELSE [s.idempotency EXCEPT ![w.key] = old.record],
     events         |-> SubSeq(s.events, 1, old.events),
     sequence       |-> old.sequence,
     previousDigest |-> old.previousDigest]
RolledBack(s, w, old) ==
    [jobs           |-> [s.jobs EXCEPT ![w.job] = old.job],
     credentials    |-> [s.credentials EXCEPT ![w.job] = old.credential],
     idempotency    |-> IF w.key = NoKey THEN s.idempotency
                        ELSE [s.idempotency EXCEPT ![w.key] = old.record],
     events         |-> SubSeq(s.events, 1, old.events),
     sequence       |-> old.sequence,
     previousDigest |-> old.previousDigest]

Idle == up /\ step = "idle"

\* The changes to the memory.  Without a path this is the whole save.
BeginSave(w) ==
    /\ Idle
    /\ memory' = Applied(memory, w)
    /\ IF path
       THEN step' = "changed" /\ saving' = [write |-> w, old |-> Old(memory, w)]
       ELSE UNCHANGED <<step, saving>>
    /\ UNCHANGED <<path, reliable, up, file, tmp>>

WriteFile ==
    /\ step = "changed"
    /\ step' = "written"
    /\ tmp' = memory
    /\ UNCHANGED <<path, reliable, up, memory, file, saving>>

Return == step' = "idle" /\ saving' = NoSave /\ UNCHANGED <<path, reliable, up>>

Abort ==
    /\ memory' = RolledBack(memory, saving.write, saving.old)
    /\ Return
    /\ UNCHANGED file

WriteFileFails ==
    /\ step = "changed"
    /\ tmp' \in {tmp, Torn}
    /\ Abort

Rename ==
    /\ step = "written"
    /\ file' = tmp
    /\ tmp' = Torn
    /\ Return
    /\ UNCHANGED memory

RenameFails ==
    /\ step = "written"
    /\ UNCHANGED tmp
    /\ Abort

-----------------------------------------------------------------------------
(* Crash and restart. *)

Kill ==
    /\ up
    /\ up' = FALSE
    /\ memory' = EmptyState
    /\ step' = "idle" /\ saving' = NoSave
    /\ tmp' \in IF step = "changed" THEN {tmp, Torn} ELSE {tmp}
    /\ UNCHANGED <<path, reliable, file>>

\* A seeded fault: a temporary file left behind is taken for the file.
Recovered_Bug == IF ~ path THEN EmptyState ELSE IF tmp = Torn THEN file ELSE tmp
Recovered == IF path THEN file ELSE EmptyState

\* New: what is at the path, or an empty store.
Start ==
    /\ ~ up
    /\ up' = TRUE
    /\ memory' = Recovered
    /\ UNCHANGED <<path, reliable, file, tmp, step, saving>>

\* An error of ReadFile is taken for a file that does not exist.
StartMisreading ==
    /\ path /\ ~ reliable
    /\ ~ up
    /\ up' = TRUE
    /\ memory' = EmptyState
    /\ UNCHANGED <<path, reliable, file, tmp, step, saving>>

-----------------------------------------------------------------------------
Init ==
    /\ path \in BOOLEAN /\ reliable \in BOOLEAN
    /\ up = TRUE
    /\ memory = EmptyState
    /\ file = EmptyState /\ tmp = Torn
    /\ step = "idle" /\ saving = NoSave

Next ==
    \/ \E w \in Write(memory) : BeginSave(w)
    \/ WriteFile \/ WriteFileFails \/ Rename \/ RenameFails
    \/ Kill \/ Start \/ StartMisreading

Spec == Init /\ [][Next]_vars

-----------------------------------------------------------------------------
(* Safety. *)

\* The chain verifies whenever somebody can read it, in the file and in the
\* memory, failed saves and restarts notwithstanding (VerifyIntegrity).
ChainVerifies == Verify(file) /\ (Idle => Verify(memory))

\* The parts of a state are those of the same saves: a job has the version of
\* its last event, a credential comes with its event, and an idempotency record
\* answers for a change that is there.
PartsAgree(s) ==
    /\ \A j \in JobId :
         LET E == EventsOf(s, j) IN
         /\ IF s.jobs[j] = Nothing THEN E = {}
            ELSE \E e \in Newest(E) : s.jobs[j] = [version |-> e.version, data |-> e.data]
         /\ (s.credentials[j] # Nothing)
               <=> \E e \in E : /\ e.type = "credential.issued"
                                /\ s.credentials[j] = [version |-> e.version]
    /\ \A k \in Key : s.idempotency[k] # Nothing =>
         \E i \in DOMAIN s.events :
            s.idempotency[k] = [job |-> s.events[i].job, version |-> s.events[i].version]

\* A save is all or nothing, in the file and, once it is over, in the memory.
SavesAreWhole == PartsAgree(file) /\ (Idle => PartsAgree(memory))

\* Between saves the memory is what a restart would load: a failed save has
\* left nothing behind in either, and nothing answered for is only in memory.
\* A store that once could not read its file has parted from it.
MemoryIsFile == Idle /\ path /\ reliable => memory = file

\* For its callers the store is atomic: what is durable changes by whole saves
\* only, whatever fails or is killed in between.  A store with a file it cannot
\* read promises nothing of the kind, and is left out.
Atomic == INSTANCE AtomicStore WITH
    contents <- IF ~ path THEN memory ELSE IF reliable THEN file ELSE EmptyState,
    durable  <- path /\ reliable

ImplementsAtomicStore == Atomic!Spec

=============================================================================
