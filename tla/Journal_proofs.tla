--------------------------- MODULE Journal_proofs ----------------------------
(***************************************************************************)
(* Proofs about the journal, for any jobs, keys and number of events: the  *)
(* hand-written rollback undoes a save exactly, so the memory between      *)
(* saves is the file, the chain verifies, the store is atomic, and what it *)
(* holds of a job is of the same saves.                                    *)
(***************************************************************************)
EXTENDS Journal, SequenceTheorems, TLAPS

-----------------------------------------------------------------------------
(* States and saves. *)

IsState(s) ==
    /\ s = [jobs |-> s.jobs, credentials |-> s.credentials,
            idempotency |-> s.idempotency, events |-> s.events,
            sequence |-> s.sequence, previousDigest |-> s.previousDigest]
    /\ s.jobs = [j \in JobId |-> s.jobs[j]]
    /\ s.credentials = [j \in JobId |-> s.credentials[j]]
    /\ s.idempotency = [k \in Key |-> s.idempotency[k]]
    /\ s.events \in Seq({s.events[i] : i \in DOMAIN s.events})
    /\ s.sequence \in Nat

Addressed(w) == w.job \in JobId /\ w.key \in Key \cup {NoKey}

\* The empty store is a state, and its chain verifies.
LEMMA EmptyIsState == IsState(EmptyState) /\ Verify(EmptyState)
<1>1. EmptyState.events = <<>> /\ EmptyState.sequence = 0 /\ EmptyState.previousDigest = <<>>
  BY DEF EmptyState
<1>2. Verify(EmptyState)
  BY <1>1 DEF Verify
<1>3. <<>> \in Seq({<<>>[i] : i \in DOMAIN <<>>})
  OBVIOUS
<1>4. IsState(EmptyState)
  BY <1>3 DEF IsState, EmptyState
<1>. QED BY <1>2, <1>4

\* Every write the service asks for names a job and a key, or no key.
LEMMA WritesAreAddressed ==
    ASSUME NEW s, NEW w \in Write(s) PROVE Addressed(w)
  BY DEF Write, Creations, Changes, Issues, WriteOf, Addressed

\* A save takes a state to a state,
LEMMA AppliedIsState ==
    ASSUME NEW s, NEW w, IsState(s), Addressed(w)
    PROVE  IsState(Applied(s, w))
<1>. DEFINE t == Applied(s, w)
            E == {s.events[i] : i \in DOMAIN s.events}
            e == NewEvent(s, w)
            F == {t.events[i] : i \in DOMAIN t.events}
<1>1. t.events = Append(s.events, e)
  BY DEF Applied
<1>2. s.events \in Seq(E)
  BY DEF IsState
<1>3. t.events \in Seq(F)
  <2>. HIDE DEF e
  <2>1. s.events \in Seq(E \cup {e}) /\ t.events \in Seq(E \cup {e})
    BY <1>1, <1>2
  <2>2. \A i \in 1..Len(t.events) : t.events[i] \in F
    BY <2>1
  <2>. QED BY <2>1, <2>2
<1>4. t.jobs = [j \in JobId |-> t.jobs[j]]
  BY DEF Applied, IsState
<1>5. t.credentials = [j \in JobId |-> t.credentials[j]]
  BY DEF Applied, IsState
<1>6. t.idempotency = [k \in Key |-> t.idempotency[k]]
  BY DEF Applied, IsState
<1>7. t.sequence \in Nat
  BY DEF Applied, IsState
<1>8. t = [jobs |-> t.jobs, credentials |-> t.credentials,
           idempotency |-> t.idempotency, events |-> t.events,
           sequence |-> t.sequence, previousDigest |-> t.previousDigest]
  BY DEF Applied
<1>. QED BY <1>3, <1>4, <1>5, <1>6, <1>7, <1>8 DEF IsState

\* whose chain verifies if it did before,
LEMMA AppliedVerifies ==
    ASSUME NEW s, NEW w, IsState(s), Verify(s)
    PROVE  Verify(Applied(s, w))
<1>. DEFINE t == Applied(s, w)
            E == {s.events[i] : i \in DOMAIN s.events}
            e == NewEvent(s, w)
            n == Len(s.events)
<1>1. /\ t.events = Append(s.events, e)
      /\ t.sequence = s.sequence + 1 /\ t.previousDigest = e.digest
  BY DEF Applied
<1>2. /\ e.sequence = s.sequence + 1
      /\ e.previousDigest = s.previousDigest
      /\ e.digest = EventRecordDigest(e)
  BY DEF NewEvent, EventRecordDigest
<1>3. s.events \in Seq(E) /\ n \in Nat /\ s.sequence \in Nat
  BY DEF IsState
<1>. HIDE DEF e
<1>4. /\ Len(t.events) = n + 1
      /\ \A i \in 1..n : t.events[i] = s.events[i]
      /\ t.events[n + 1] = e
  BY <1>1, <1>3
<1>. HIDE DEF t
<1>5. /\ \A i \in 1..n : Linked(s.events, i)
      /\ s.sequence = IF n = 0 THEN 0 ELSE s.events[n].sequence
      /\ s.previousDigest = IF n = 0 THEN <<>> ELSE s.events[n].digest
  BY DEF Verify
<1>6. ASSUME NEW i \in 1..n PROVE Linked(t.events, i)
  <2>1. t.events[i] = s.events[i] /\ (i # 1 => t.events[i - 1] = s.events[i - 1])
    BY <1>3, <1>4
  <2>2. Linked(s.events, i)
    BY <1>5
  <2>. QED BY <1>3, <2>1, <2>2 DEF Linked
<1>7. Linked(t.events, n + 1)
  <2>1. n # 0 => t.events[n] = s.events[n]
    BY <1>3, <1>4
  <2>2. n + 1 - 1 = n /\ (n + 1 = 1 <=> n = 0) /\ (n + 1 > 1 <=> n # 0)
    BY <1>3
  <2>3. t.events[n + 1].digest = EventRecordDigest(t.events[n + 1])
    BY <1>2, <1>4
  <2>4. t.events[n + 1].previousDigest = IF n + 1 = 1 THEN <<>> ELSE t.events[n + 1 - 1].digest
    <3>1. CASE n = 0
      BY <1>2, <1>4, <1>5, <2>2, <3>1
    <3>2. CASE n # 0
      BY <1>2, <1>4, <1>5, <2>1, <2>2, <3>2
    <3>. QED BY <3>1, <3>2
  <2>5. n + 1 > 1 => t.events[n + 1].sequence = t.events[n + 1 - 1].sequence + 1
    BY <1>2, <1>4, <1>5, <2>1, <2>2
  <2>. QED BY <2>3, <2>4, <2>5 DEF Linked
<1>8. \A i \in 1..(n + 1) : Linked(t.events, i)
  BY <1>3, <1>6, <1>7
<1>9. n + 1 # 0
  BY <1>3
<1>10. Verify(t)
  BY <1>1, <1>2, <1>4, <1>8, <1>9 DEF Verify
<1>. QED BY <1>10 DEF t

\* and restoring what was put aside takes back all of it, no more and no less:
\* the job or its absence, the credential, the key, the event and the chain head.
LEMMA RollbackUndoesSave ==
    ASSUME NEW s, NEW w, IsState(s), Addressed(w)
    PROVE  RolledBack(Applied(s, w), w, Old(s, w)) = s
<1>. DEFINE t == RolledBack(Applied(s, w), w, Old(s, w))
            E == {s.events[i] : i \in DOMAIN s.events}
            e == NewEvent(s, w)
<1>1. t.jobs = s.jobs
  BY DEF RolledBack, Applied, Old, IsState, Addressed
<1>2. t.credentials = s.credentials
  BY DEF RolledBack, Applied, Old, IsState, Addressed
<1>3. t.idempotency = s.idempotency
  BY DEF RolledBack, Applied, Old, IsState, Addressed
<1>4. t.events = s.events
  <2>1. t.events = SubSeq(Append(s.events, e), 1, Len(s.events))
    BY DEF RolledBack, Applied, Old
  <2>2. s.events \in Seq(E)
    BY DEF IsState
  <2>. HIDE DEF e, t
  <2>3. /\ s.events \in Seq(E \cup {e}) /\ e \in E \cup {e}
        /\ Append(s.events, e) \in Seq(E \cup {e})
        /\ Len(s.events) \in Nat /\ Len(Append(s.events, e)) = Len(s.events) + 1
        /\ \A i \in 1..Len(s.events) : Append(s.events, e)[i] = s.events[i]
    BY <2>2
  <2>4. /\ Len(t.events) = Len(s.events)
        /\ t.events \in Seq(E \cup {e})
        /\ \A i \in 1..Len(s.events) : t.events[i] = s.events[i]
    <3>1. \A i \in 1..Len(s.events) : Append(s.events, e)[i] \in E \cup {e}
      BY <2>3
    <3>. QED BY <2>1, <2>3, <3>1, SubSeqProperties
  <2>5. DOMAIN t.events = 1..Len(s.events) /\ DOMAIN s.events = 1..Len(s.events)
    BY <2>3, <2>4
  <2>6. t.events = [i \in 1..Len(s.events) |-> t.events[i]]
    BY <2>4, <2>5
  <2>7. s.events = [i \in 1..Len(s.events) |-> s.events[i]]
    BY <2>3, <2>5
  <2>. QED BY <2>4, <2>6, <2>7
<1>5. t.sequence = s.sequence /\ t.previousDigest = s.previousDigest
  BY DEF RolledBack, Old
<1>6. t = [jobs |-> t.jobs, credentials |-> t.credentials,
           idempotency |-> t.idempotency, events |-> t.events,
           sequence |-> t.sequence, previousDigest |-> t.previousDigest]
  BY DEF RolledBack
<1>. HIDE DEF t
<1>7. t = s
  BY <1>1, <1>2, <1>3, <1>4, <1>5, <1>6 DEF IsState
<1>. QED BY <1>7 DEF t

-----------------------------------------------------------------------------
(* The invariant.  ChainVerifies and MemoryIsFile speak of the memory      *)
(* between saves only; to know it after a failed save, the invariant says  *)
(* what the save in progress started from.                                 *)

\* What a failure of the save in progress restores.
Base == RolledBack(memory, saving.write, saving.old)

SaveInProgress ==
    /\ path /\ up
    /\ IsState(Base) /\ Verify(Base)
    /\ saving.write \in Write(Base)
    /\ saving.old = Old(Base, saving.write)
    /\ memory = Applied(Base, saving.write)

JInv ==
    /\ path \in BOOLEAN /\ reliable \in BOOLEAN /\ up \in BOOLEAN
    /\ step \in {"idle", "changed", "written"}
    /\ IsState(memory) /\ Verify(memory)
    /\ IsState(file) /\ Verify(file)
    /\ step # "idle" => SaveInProgress
    /\ step = "written" => tmp = memory
    /\ path /\ up /\ reliable =>
         file = IF step = "idle" THEN memory ELSE Base

\* The memory during a save, and what a failure goes back to.
LEMMA BeginSaveKeeps ==
    ASSUME JInv, NEW w \in Write(memory), BeginSave(w)
    PROVE  JInv'
<1>1. IsState(memory) /\ Verify(memory) /\ IsState(file) /\ Verify(file)
  BY DEF JInv
<1>2. Addressed(w)
  BY WritesAreAddressed
<1>3. memory' = Applied(memory, w) /\ IsState(memory') /\ Verify(memory')
  BY <1>1, <1>2, AppliedIsState, AppliedVerifies DEF BeginSave
<1>4. /\ up /\ step = "idle" /\ up' = up
      /\ path' = path /\ reliable' = reliable /\ file' = file /\ tmp' = tmp
  BY DEF BeginSave, Idle
<1>5. CASE path
  <2>1. step' = "changed" /\ saving' = [write |-> w, old |-> Old(memory, w)]
    BY <1>5 DEF BeginSave
  <2>2. saving'.write = w /\ saving'.old = Old(memory, w)
    BY <2>1
  <2>3. Base' = memory
    BY <1>1, <1>2, <1>3, <2>2, RollbackUndoesSave DEF Base
  <2>4. SaveInProgress'
    BY <1>1, <1>3, <1>4, <1>5, <2>2, <2>3 DEF SaveInProgress
  <2>5. path' /\ up' /\ reliable' => file' = Base'
    BY <1>4, <1>5, <2>3 DEF JInv
  <2>. QED BY <1>1, <1>3, <1>4, <2>1, <2>4, <2>5 DEF JInv
<1>6. CASE ~ path
  <2>1. step' = "idle"
    BY <1>4, <1>6 DEF BeginSave
  <2>. QED BY <1>1, <1>3, <1>4, <1>6, <2>1 DEF JInv
<1>. QED BY <1>5, <1>6

LEMMA AbortKeeps ==
    ASSUME JInv, step # "idle", Abort
    PROVE  JInv'
<1>1. SaveInProgress /\ IsState(file) /\ Verify(file)
  BY DEF JInv
<1>2. /\ memory' = Base /\ step' = "idle" /\ up' = up
      /\ path' = path /\ reliable' = reliable /\ file' = file
  BY DEF Abort, Return, Base
<1>3. path' /\ up' /\ reliable' => file' = memory'
  BY <1>2 DEF JInv
<1>. QED BY <1>1, <1>2, <1>3 DEF JInv, SaveInProgress

LEMMA InitJInv == Init => JInv
<1>. SUFFICES ASSUME Init PROVE JInv
  OBVIOUS
<1>. QED BY EmptyIsState DEF Init, JInv

LEMMA NextJInv == JInv /\ [Next]_vars => JInv'
<1>. SUFFICES ASSUME JInv, [Next]_vars PROVE JInv'
  OBVIOUS
<1>1. ASSUME NEW w \in Write(memory), BeginSave(w) PROVE JInv'
  BY <1>1, BeginSaveKeeps
<1>2. CASE WriteFile
  <2>1. /\ step = "changed" /\ step' = "written" /\ tmp' = memory /\ memory' = memory
        /\ path' = path /\ reliable' = reliable /\ up' = up /\ file' = file /\ saving' = saving
    BY <1>2 DEF WriteFile
  <2>2. Base' = Base /\ SaveInProgress /\ SaveInProgress'
    BY <2>1 DEF Base, SaveInProgress, JInv
  <2>. QED BY <2>1, <2>2 DEF JInv
<1>3. CASE WriteFileFails
  BY <1>3, AbortKeeps DEF WriteFileFails
<1>4. CASE Rename
  <2>1. /\ step = "written" /\ step' = "idle" /\ file' = tmp /\ memory' = memory
        /\ path' = path /\ reliable' = reliable /\ up' = up
    BY <1>4 DEF Rename, Return
  <2>2. file' = memory'
    BY <2>1 DEF JInv
  <2>. QED BY <2>1, <2>2 DEF JInv
<1>5. CASE RenameFails
  BY <1>5, AbortKeeps DEF RenameFails
<1>6. CASE Kill
  BY <1>6, EmptyIsState DEF Kill, JInv
<1>7. CASE Start
  <2>1. /\ up' /\ memory' = Recovered /\ step' = step
        /\ path' = path /\ reliable' = reliable /\ file' = file
        /\ ~ up
    BY <1>7 DEF Start
  <2>2. step = "idle"
    BY <2>1 DEF JInv, SaveInProgress
  <2>3. IsState(Recovered) /\ Verify(Recovered) /\ (path => Recovered = file)
    BY EmptyIsState DEF Recovered, JInv
  <2>. QED BY <1>7, <2>1, <2>2, <2>3 DEF JInv, Start
<1>8. CASE StartMisreading
  <2>1. step = "idle"
    BY <1>8 DEF JInv, SaveInProgress, StartMisreading
  <2>. QED BY <1>8, <2>1, EmptyIsState DEF JInv, StartMisreading
<1>9. CASE UNCHANGED vars
  BY <1>9 DEF JInv, SaveInProgress, Base, vars
<1>. QED
  BY <1>1, <1>2, <1>3, <1>4, <1>5, <1>6, <1>7, <1>8, <1>9 DEF Next

\* The hash chain of the file, and that of the memory between saves, verify
\* whatever saves have failed and wherever the process was killed, and even
\* when a file that cannot be read is taken for none.
THEOREM ChainAlwaysVerifies == Spec => []ChainVerifies
<1>1. JInv => ChainVerifies
  BY DEF JInv, ChainVerifies
<1>. QED BY InitJInv, NextJInv, <1>1, PTL DEF Spec

\* Between saves the memory of a store with a readable file is that file: a save
\* that fails leaves nothing behind.
THEOREM FailedSavesLeaveNothing == Spec => []MemoryIsFile
<1>1. JInv => MemoryIsFile
  BY DEF JInv, MemoryIsFile, Idle
<1>. QED BY InitJInv, NextJInv, <1>1, PTL DEF Spec

-----------------------------------------------------------------------------
(* Refinement. *)

Contents == IF ~ path THEN memory ELSE IF reliable THEN file ELSE EmptyState
Durable == path /\ reliable

LEMMA StepIsAtomic ==
    ASSUME JInv, [Next]_vars
    PROVE  \/ \E w \in Write(Contents) : Contents' = Applied(Contents, w) /\ Durable' = Durable
           \/ ~ Durable /\ Contents' = EmptyState /\ Durable' = Durable
           \/ Contents' = Contents /\ Durable' = Durable
<1>1. ASSUME NEW w \in Write(memory), BeginSave(w)
      PROVE  \/ \E x \in Write(Contents) : Contents' = Applied(Contents, x) /\ Durable' = Durable
             \/ Contents' = Contents /\ Durable' = Durable
  <2>1. /\ memory' = Applied(memory, w) /\ file' = file
        /\ path' = path /\ reliable' = reliable
    BY <1>1 DEF BeginSave
  <2>. QED BY <2>1 DEF Contents, Durable
<1>2. CASE WriteFile
  BY <1>2 DEF WriteFile, Contents, Durable
<1>3. CASE WriteFileFails
  BY <1>3 DEF WriteFileFails, Abort, Return, Contents, Durable, JInv, SaveInProgress
<1>4. CASE Rename
  <2>1. /\ step = "written" /\ file' = tmp
        /\ path' = path /\ reliable' = reliable
    BY <1>4 DEF Rename, Return
  <2>2. SaveInProgress /\ tmp = memory /\ (reliable => file = Base)
    BY <2>1 DEF JInv, SaveInProgress
  <2>3. CASE ~ reliable
    BY <2>1, <2>2, <2>3 DEF SaveInProgress, Contents, Durable
  <2>4. CASE reliable
    <3>1. saving.write \in Write(file) /\ file' = Applied(file, saving.write)
      BY <2>1, <2>2, <2>4 DEF SaveInProgress
    <3>2. Contents = file /\ Contents' = file' /\ Durable' = Durable
      BY <2>1, <2>2, <2>4 DEF SaveInProgress, Contents, Durable
    <3>. QED BY <3>1, <3>2
  <2>. QED BY <2>3, <2>4
<1>5. CASE RenameFails
  BY <1>5 DEF RenameFails, Abort, Return, Contents, Durable, JInv, SaveInProgress
<1>6. CASE Kill
  BY <1>6 DEF Kill, Contents, Durable
<1>7. CASE Start
  BY <1>7 DEF Start, Recovered, Contents, Durable
<1>8. CASE StartMisreading
  BY <1>8 DEF StartMisreading, Contents, Durable
<1>9. CASE UNCHANGED vars
  BY <1>9 DEF vars, Contents, Durable
<1>. QED
  BY <1>1, <1>2, <1>3, <1>4, <1>5, <1>6, <1>7, <1>8, <1>9 DEF Next

\* The store implements the atomic one: seen from the file, or from the memory
\* of a store without one, every step of a save, a failure, a kill or a restart
\* is one whole save, the loss of a store that has no file, or nothing.
THEOREM StoreIsAtomic == Spec => ImplementsAtomicStore
<1>1. Atomic!EmptyState = EmptyState
  BY DEF EmptyState, Atomic!EmptyState, Nothing, Atomic!Nothing
<1>2. \A s, w : Atomic!Applied(s, w) = Applied(s, w)
  <2>1. \A s, w : Atomic!NewEvent(s, w) = NewEvent(s, w)
    BY DEF NewEvent, EventRecordDigest, Atomic!NewEvent, Atomic!EventRecordDigest
  <2>2. Atomic!Nothing = Nothing
    BY DEF Nothing, Atomic!Nothing
  <2>. QED BY <2>1, <2>2 DEF Applied, Atomic!Applied
<1>3. Init => Atomic!Init
  BY <1>1 DEF Init, Atomic!Init
<1>4. JInv /\ [Next]_vars => [Atomic!Next]_(Atomic!vars)
  <2>. SUFFICES ASSUME JInv, [Next]_vars PROVE [Atomic!Next]_(Atomic!vars)
    OBVIOUS
  <2>. QED BY <1>1, <1>2, StepIsAtomic
       DEF Contents, Durable, Atomic!Next, Atomic!Save, Atomic!Lose, Atomic!vars
<1>. QED BY InitJInv, NextJInv, <1>3, <1>4, PTL DEF Spec, ImplementsAtomicStore, Atomic!Spec

-----------------------------------------------------------------------------
(* Whole saves. *)

NumberedInOrder(s) ==
    s.sequence = Len(s.events) /\ \A i \in DOMAIN s.events : s.events[i].sequence = i

Whole(s) == NumberedInOrder(s) /\ PartsAgree(s)

LEMMA EventOfJob ==
    ASSUME NEW s, NEW j, NEW f
    PROVE  f \in EventsOf(s, j)
             <=> \E i \in DOMAIN s.events : s.events[i].job = j /\ f = s.events[i]
BY DEF EventsOf

LEMMA EmptyIsWhole == Whole(EmptyState)
<1>1. EmptyState.events = <<>> /\ EmptyState.sequence = 0
  BY DEF EmptyState
<1>2. \A j \in JobId : EmptyState.jobs[j] = Nothing /\ EmptyState.credentials[j] = Nothing
  BY DEF EmptyState
<1>3. \A k \in Key : EmptyState.idempotency[k] = Nothing
  BY DEF EmptyState
<1>4. DOMAIN EmptyState.events = {} /\ Len(EmptyState.events) = 0
  BY <1>1
<1>5. \A j \in JobId : EventsOf(EmptyState, j) = {}
  BY <1>4 DEF EventsOf
<1>. QED BY <1>1, <1>2, <1>3, <1>4, <1>5 DEF Whole, NumberedInOrder, PartsAgree

\* The event of a save is the newest of its job, and of its job only.
LEMMA EventsOfApplied ==
    ASSUME NEW s, NEW w, IsState(s), NumberedInOrder(s)
    PROVE  LET t == Applied(s, w)
               e == NewEvent(s, w)
           IN  /\ NumberedInOrder(t)
               /\ DOMAIN t.events = 1..(Len(s.events) + 1) /\ t.events[Len(s.events) + 1] = e
               /\ DOMAIN s.events = 1..Len(s.events) /\ Len(s.events) \in Nat
               /\ \A i \in 1..Len(s.events) : t.events[i] = s.events[i]
               /\ EventsOf(t, w.job) = EventsOf(s, w.job) \cup {e}
               /\ e \in Newest(EventsOf(t, w.job)) /\ e \notin EventsOf(s, w.job)
               /\ \A j : j # w.job => EventsOf(t, j) = EventsOf(s, j)
<1>. DEFINE t == Applied(s, w)
            e == NewEvent(s, w)
            n == Len(s.events)
            E == {s.events[i] : i \in DOMAIN s.events}
<1>1. t.events = Append(s.events, e) /\ t.sequence = s.sequence + 1
  BY DEF Applied
<1>2. e.sequence = s.sequence + 1 /\ e.job = w.job
  BY DEF NewEvent
<1>3. s.events \in Seq(E) /\ n \in Nat /\ DOMAIN s.events = 1..n
      /\ s.sequence = n /\ \A i \in 1..n : s.events[i].sequence = i
  BY DEF IsState, NumberedInOrder
<1>. HIDE DEF t, e
<1>4. /\ DOMAIN t.events = 1..(n + 1) /\ Len(t.events) = n + 1 /\ t.events[n + 1] = e
      /\ \A i \in 1..n : t.events[i] = s.events[i]
  BY <1>1, <1>3
<1>5. NumberedInOrder(t)
  <2>1. \A i \in 1..(n + 1) : i \in 1..n \/ i = n + 1
    BY <1>3
  <2>. QED BY <1>1, <1>2, <1>3, <1>4, <2>1 DEF NumberedInOrder
<1>6. EventsOf(t, w.job) = EventsOf(s, w.job) \cup {e}
  <2>1. \A i \in 1..(n + 1) : i \in 1..n \/ i = n + 1
    BY <1>3
  <2>2. n + 1 \in 1..(n + 1) /\ \A i \in 1..n : i \in 1..(n + 1)
    BY <1>3
  <2>3. ASSUME NEW f PROVE f \in EventsOf(t, w.job) <=> f \in EventsOf(s, w.job) \/ f = e
    <3>1. f \in EventsOf(t, w.job)
            <=> \E i \in 1..(n + 1) : t.events[i].job = w.job /\ f = t.events[i]
      BY <1>4, EventOfJob
    <3>2. f \in EventsOf(s, w.job)
            <=> \E i \in 1..n : s.events[i].job = w.job /\ f = s.events[i]
      BY <1>3, EventOfJob
    <3>. QED BY <1>2, <1>4, <2>1, <2>2, <3>1, <3>2
  <2>. QED BY <2>3
<1>7. ASSUME NEW f \in EventsOf(s, w.job) PROVE f.sequence < e.sequence
  <2>1. PICK i \in 1..n : f = s.events[i]
    BY <1>3 DEF EventsOf
  <2>. QED BY <1>2, <1>3, <2>1
<1>8. e \in Newest(EventsOf(t, w.job)) /\ e \notin EventsOf(s, w.job)
  <2>1. e.sequence \in Nat /\ \A f \in EventsOf(s, w.job) : f.sequence \in Nat
    BY <1>2, <1>3 DEF EventsOf
  <2>. QED BY <1>6, <1>7, <2>1 DEF Newest
<1>9. ASSUME NEW j, j # w.job PROVE EventsOf(t, j) = EventsOf(s, j)
  <2>1. \A i \in 1..(n + 1) : i \in 1..n \/ i = n + 1
    BY <1>3
  <2>2. \A i \in 1..n : i \in 1..(n + 1)
    BY <1>3
  <2>3. ASSUME NEW f PROVE f \in EventsOf(t, j) <=> f \in EventsOf(s, j)
    <3>1. f \in EventsOf(t, j) <=> \E i \in 1..(n + 1) : t.events[i].job = j /\ f = t.events[i]
      BY <1>4, EventOfJob
    <3>2. f \in EventsOf(s, j) <=> \E i \in 1..n : s.events[i].job = j /\ f = s.events[i]
      BY <1>3, EventOfJob
    <3>. QED BY <1>2, <1>4, <1>9, <2>1, <2>2, <3>1, <3>2
  <2>. QED BY <2>3
<1>. QED BY <1>3, <1>4, <1>5, <1>6, <1>8, <1>9 DEF t, e

\* A save keeps the parts of a state in step.
LEMMA AppliedIsWhole ==
    ASSUME NEW s, NEW w \in Write(s), IsState(s), Whole(s)
    PROVE  Whole(Applied(s, w))
<1>. DEFINE t == Applied(s, w)
            e == NewEvent(s, w)
            n == Len(s.events)
            b == [version |-> w.body.version, data |-> w.data]
<1>1. /\ w.job \in JobId /\ w.key \in Key \cup {NoKey} /\ w.body = b
      /\ w.record = [job |-> w.job, version |-> w.body.version]
      /\ \/ w.type \in {"job.created", "job.changed"} /\ w.credential = Nothing
         \/ w.type = "credential.issued" /\ w.credential = [version |-> w.body.version]
  BY DEF Write, Creations, Changes, Issues, WriteOf, Body, Record
<1>2. /\ NumberedInOrder(t)
      /\ DOMAIN t.events = 1..(n + 1) /\ t.events[n + 1] = e
      /\ DOMAIN s.events = 1..n /\ n \in Nat
      /\ \A i \in 1..n : t.events[i] = s.events[i]
      /\ EventsOf(t, w.job) = EventsOf(s, w.job) \cup {e}
      /\ e \in Newest(EventsOf(t, w.job))
      /\ \A j : j # w.job => EventsOf(t, j) = EventsOf(s, j)
  BY EventsOfApplied DEF Whole
<1>3. /\ e.job = w.job /\ e.version = w.body.version /\ e.data = w.data /\ e.type = w.type
  BY DEF NewEvent
<1>4. /\ t.jobs = [s.jobs EXCEPT ![w.job] = w.body]
      /\ t.credentials = IF w.credential = Nothing THEN s.credentials
                         ELSE [s.credentials EXCEPT ![w.job] = w.credential]
      /\ t.idempotency = IF w.key = NoKey THEN s.idempotency
                         ELSE [s.idempotency EXCEPT ![w.key] = w.record]
  BY DEF Applied
<1>5. DOMAIN s.jobs = JobId /\ DOMAIN s.credentials = JobId /\ DOMAIN s.idempotency = Key
  BY DEF IsState
<1>. HIDE DEF t, e
<1>6. ASSUME NEW j \in JobId
      PROVE  LET E == EventsOf(t, j) IN
             /\ IF t.jobs[j] = Nothing THEN E = {}
                ELSE \E f \in Newest(E) : t.jobs[j] = [version |-> f.version, data |-> f.data]
             /\ (t.credentials[j] # Nothing)
                   <=> \E f \in E : /\ f.type = "credential.issued"
                                    /\ t.credentials[j] = [version |-> f.version]
  <2>1. CASE j # w.job
    <3>1. t.jobs[j] = s.jobs[j] /\ t.credentials[j] = s.credentials[j]
          /\ EventsOf(t, j) = EventsOf(s, j)
      BY <1>2, <1>4, <1>5, <2>1
    <3>. QED BY <3>1 DEF Whole, PartsAgree
  <2>2. CASE j = w.job
    <3>1. t.jobs[j] = b
      BY <1>1, <1>4, <1>5, <2>2
    <3>2. b # Nothing
      BY DEF Nothing
    <3>3. \E f \in Newest(EventsOf(t, j)) : t.jobs[j] = [version |-> f.version, data |-> f.data]
      BY <1>2, <1>3, <2>2, <3>1
    <3>4. (s.credentials[j] # Nothing)
            <=> \E f \in EventsOf(s, j) : /\ f.type = "credential.issued"
                                          /\ s.credentials[j] = [version |-> f.version]
      BY DEF Whole, PartsAgree
    <3>5. \A v : [version |-> v] # Nothing
      BY DEF Nothing
    <3>6. CASE w.credential = Nothing
      <4>1. e.type # "credential.issued" /\ t.credentials[j] = s.credentials[j]
        BY <1>1, <1>3, <1>4, <3>5, <3>6
      <4>. QED BY <1>2, <2>2, <3>1, <3>2, <3>3, <3>4, <4>1
    <3>7. CASE w.credential # Nothing
      <4>1. e.type = "credential.issued" /\ t.credentials[j] = [version |-> e.version]
        BY <1>1, <1>3, <1>4, <1>5, <2>2, <3>7
      <4>. QED BY <1>2, <2>2, <3>1, <3>2, <3>3, <3>5, <4>1
    <3>. QED BY <3>6, <3>7
  <2>. QED BY <2>1, <2>2
<1>7. ASSUME NEW k \in Key, t.idempotency[k] # Nothing
      PROVE  \E i \in DOMAIN t.events :
                t.idempotency[k] = [job |-> t.events[i].job, version |-> t.events[i].version]
  <2>1. CASE w.key = k /\ w.key # NoKey
    <3>1. t.idempotency[k] = [job |-> e.job, version |-> e.version]
      BY <1>1, <1>3, <1>4, <1>5, <2>1
    <3>2. n + 1 \in DOMAIN t.events
      BY <1>2
    <3>. QED BY <1>2, <3>1, <3>2
  <2>2. CASE w.key # k \/ w.key = NoKey
    <3>1. t.idempotency[k] = s.idempotency[k]
      BY <1>4, <1>5, <2>2
    <3>2. PICK i \in 1..n : s.idempotency[k]
                              = [job |-> s.events[i].job, version |-> s.events[i].version]
      BY <1>2, <1>7, <3>1 DEF Whole, PartsAgree
    <3>3. i \in DOMAIN t.events /\ t.events[i] = s.events[i]
      BY <1>2
    <3>. QED BY <3>1, <3>2, <3>3
  <2>. QED BY <2>1, <2>2
<1>. QED BY <1>2, <1>6, <1>7 DEF Whole, PartsAgree, t

\* Whatever is in the memory, in the file, or will be restored, is whole.
WholeInv == JInv /\ Whole(memory) /\ Whole(file) /\ (step # "idle" => Whole(Base))

LEMMA WholeStep == WholeInv /\ [Next]_vars => WholeInv'
<1>. SUFFICES ASSUME WholeInv, [Next]_vars PROVE WholeInv'
  OBVIOUS
<1>. USE DEF WholeInv
<1>1. JInv'
  BY NextJInv
<1>2. ASSUME NEW w \in Write(memory), BeginSave(w)
      PROVE  Whole(memory)' /\ Whole(file)' /\ (step' # "idle" => Whole(Base)')
  <2>1. IsState(memory) /\ Addressed(w)
    BY WritesAreAddressed DEF JInv
  <2>2. memory' = Applied(memory, w) /\ file' = file /\ Whole(Applied(memory, w))
    BY <1>2, <2>1, AppliedIsWhole DEF BeginSave
  <2>3. step' # "idle" => saving' = [write |-> w, old |-> Old(memory, w)]
    BY <1>2 DEF BeginSave, Idle
  <2>4. step' # "idle" => Base' = memory
    BY <2>1, <2>2, <2>3, RollbackUndoesSave DEF Base
  <2>. QED BY <2>2, <2>4
<1>3. ASSUME Abort PROVE memory' = Base /\ file' = file /\ step' = "idle"
  BY <1>3 DEF Abort, Return, Base
<1>4. CASE WriteFile
  BY <1>1, <1>4 DEF WriteFile, Base, JInv
<1>5. CASE WriteFileFails \/ RenameFails
  BY <1>1, <1>3, <1>5 DEF WriteFileFails, RenameFails
<1>6. CASE Rename
  BY <1>1, <1>6 DEF Rename, Return, JInv
<1>7. CASE Kill \/ Start \/ StartMisreading
  <2>1. ~ up => step = "idle"
    BY DEF JInv, SaveInProgress
  <2>. QED BY <1>1, <1>7, <2>1, EmptyIsWhole DEF Kill, Start, StartMisreading, Recovered
<1>8. CASE UNCHANGED vars
  BY <1>1, <1>8 DEF vars, Base
<1>. QED
  BY <1>1, <1>2, <1>4, <1>5, <1>6, <1>7, <1>8 DEF Next

\* A job, its credential, its record and its events in the file, and in the memory
\* between saves, are those of the same saves: no failure, kill or restart leaves
\* one without the others.
THEOREM SavesStayWhole == Spec => []SavesAreWhole
<1>1. Init => WholeInv
  BY InitJInv, EmptyIsWhole DEF Init, WholeInv
<1>2. WholeInv => SavesAreWhole
  BY DEF WholeInv, Whole, SavesAreWhole
<1>. QED BY <1>1, <1>2, WholeStep, PTL DEF Spec

=============================================================================
