----------------------- MODULE CaptionService_proofs ------------------------
(***************************************************************************)
(* For any clients, requests and keys, whatever is lost or sent again: a   *)
(* key is used once, the copies of a request are told the same, and a      *)
(* credential verifies from its issue on.                                  *)
(*                                                                         *)
(* Every write keeps a consistent store consistent (ConsistencyStays), and *)
(* every request leads to a sound write (WritesAreSound); on these rests   *)
(* the invariant, ServiceInv.                                              *)
(***************************************************************************)
EXTENDS CaptionService, SequenceTheorems, FiniteSetTheorems, TLAPS

\* A sequence is one of its own elements.
LEMMA OwnElements ==
    ASSUME NEW S, NEW q \in Seq(S)
    PROVE  q \in Seq({q[i] : i \in DOMAIN q})
<1> DEFINE T == {q[i] : i \in DOMAIN q}
<1>1. Len(q) \in Nat /\ DOMAIN q = 1..Len(q) /\ q = [i \in 1..Len(q) |-> q[i]]
  OBVIOUS
<1>2. \A i \in 1..Len(q) : q[i] \in T
  BY <1>1
<1> HIDE DEF T
<1>3. q \in [1..Len(q) -> T]
  BY <1>1, <1>2
<1>4. q \in Seq(T)
  BY <1>1, <1>3, SeqDef
<1> QED  BY <1>4 DEF T

-----------------------------------------------------------------------------
(* Writes. *)

\* What every write of the service does: it takes a job that has no credential one
\* version further, and a key that has no record; what it leaves under review is
\* the last candidate, and with the status of a credential goes the credential.
SoundWrite(s, w) ==
    /\ w.job \in JobId /\ IsBody(w.body) /\ w.key \in Key \cup {NoKey}
    /\ s.jobs[w.job] # Nothing => /\ w.body.version = s.jobs[w.job].version + 1
                                  /\ s.jobs[w.job].status # "credentialed"
    /\ w.body.status \notin {"draft", "rework"} =>
         /\ w.body.candidates # <<>>
         /\ w.body.cues = w.body.candidates[Len(w.body.candidates)]
    /\ IF w.body.status = "credentialed"
       THEN /\ w.type = "credential.issued" /\ w.credential.issuedBy # "forger"
            /\ w.credential = [revision         |-> Len(w.body.candidates),
                               contentDigest    |-> w.body.cues,
                               eventChainDigest |-> EventsOf(s, w.job),
                               issuedBy         |-> w.credential.issuedBy]
       ELSE w.credential = Nothing
    /\ w.key # NoKey => /\ s.idempotency[w.key] = Nothing
                        /\ RecordHolds(Applied(s, w), w.key, w.record)
                        /\ w.key[1] \in {"metadata", "cue-import"} =>
                             w.record.job = w.job /\ w.record.result = w.body

\* The parts of a store, as maps.
Maps(s) ==
    /\ s = [jobs |-> s.jobs, credentials |-> s.credentials, idempotency |-> s.idempotency,
            events |-> s.events, sequence |-> s.sequence,
            previousDigest |-> s.previousDigest]
    /\ s.jobs = [j \in JobId |-> s.jobs[j]]
    /\ s.credentials = [j \in JobId |-> s.credentials[j]]
    /\ s.idempotency = [k \in Key |-> s.idempotency[k]]

\* The store after a write, part by part.
LEMMA AppliedParts ==
    ASSUME NEW s, NEW w, IsStore(s), w.job \in JobId, w.key \in Key \cup {NoKey}
    PROVE  /\ Maps(Applied(s, w))
           /\ \A j \in JobId : Applied(s, w).jobs[j] = IF j = w.job THEN w.body ELSE s.jobs[j]
           /\ \A j \in JobId : Applied(s, w).credentials[j] =
                               IF j = w.job /\ w.credential # Nothing THEN w.credential
                                                                     ELSE s.credentials[j]
           /\ \A k \in Key : Applied(s, w).idempotency[k] =
                             IF k = w.key THEN w.record ELSE s.idempotency[k]
           /\ Applied(s, w).events = Append(s.events, NewEvent(s, w))
           /\ Applied(s, w).sequence = s.sequence + 1
<1> DEFINE t == Applied(s, w)
<1>1. t.jobs = [j \in JobId |-> IF j = w.job THEN w.body ELSE s.jobs[j]]
  BY DEF Applied, IsStore
<1>2. t.credentials = [j \in JobId |-> IF j = w.job /\ w.credential # Nothing
                                       THEN w.credential ELSE s.credentials[j]]
  BY DEF Applied, IsStore
<1>3. t.idempotency = [k \in Key |-> IF k = w.key THEN w.record ELSE s.idempotency[k]]
  BY NoKeyAssumption DEF Applied, IsStore
<1>4. /\ t.events = Append(s.events, NewEvent(s, w)) /\ t.sequence = s.sequence + 1
      /\ t = [jobs |-> t.jobs, credentials |-> t.credentials, idempotency |-> t.idempotency,
              events |-> t.events, sequence |-> t.sequence,
              previousDigest |-> t.previousDigest]
  BY DEF Applied
<1> HIDE DEF t
<1>5. Maps(t)
  BY <1>1, <1>2, <1>3, <1>4 DEF Maps
<1> QED  BY <1>1, <1>2, <1>3, <1>4, <1>5 DEF t

\* What an event of job j is.
LEMMA EventOfJob ==
    ASSUME NEW s, NEW j, NEW f
    PROVE  f \in EventsOf(s, j)
             <=> \E i \in DOMAIN s.events : s.events[i].job = j /\ f = s.events[i]
BY DEF EventsOf

\* The event of a write is the newest of its job, and of its job only.
LEMMA EventsOfApplied ==
    ASSUME NEW s, NEW w, IsStore(s), w.job \in JobId, w.key \in Key \cup {NoKey},
           NEW t, t = Applied(s, w), NEW e, e = NewEvent(s, w)
    PROVE  /\ IsStore(t) /\ t.events[Len(t.events)] = e /\ e.type = w.type
           /\ EventsOf(t, w.job) = EventsOf(s, w.job) \cup {e}
           /\ e \in Newest(EventsOf(t, w.job)) /\ e \notin EventsOf(s, w.job)
           /\ \A j : j # w.job => EventsOf(t, j) = EventsOf(s, j)
<1> DEFINE n == Len(s.events)
           E == {s.events[i] : i \in DOMAIN s.events}
           F == {t.events[i] : i \in DOMAIN t.events}
<1>1. t.events = Append(s.events, e) /\ t.sequence = s.sequence + 1 /\ Maps(t)
  BY AppliedParts
<1>2. e.sequence = s.sequence + 1 /\ e.job = w.job /\ e.type = w.type
  BY DEF NewEvent
<1>3. s.events \in Seq(E) /\ n \in Nat /\ DOMAIN s.events = 1..n
      /\ s.sequence = n /\ \A i \in 1..n : s.events[i].sequence = i
  BY DEF IsStore
<1>4. /\ DOMAIN t.events = 1..(n + 1) /\ Len(t.events) = n + 1 /\ t.events[n + 1] = e
      /\ \A i \in 1..n : t.events[i] = s.events[i]
      /\ t.events \in Seq(E \cup {e})
  BY <1>1, <1>3
<1>5. IsStore(t)
  <2>1. \A i \in 1..(n + 1) : i \in 1..n \/ i = n + 1
    BY <1>3
  <2>2. \A i \in 1..(n + 1) : t.events[i].sequence = i
    BY <1>2, <1>3, <1>4, <2>1
  <2>4. t.events \in Seq(F)
    BY <1>4, OwnElements
  <2>5. t.sequence = Len(t.events) /\ \A i \in DOMAIN t.events : t.events[i].sequence = i
    BY <1>1, <1>3, <1>4, <2>2
  <2>6. /\ t = [jobs |-> t.jobs, credentials |-> t.credentials, idempotency |-> t.idempotency,
                events |-> t.events, sequence |-> t.sequence,
                previousDigest |-> t.previousDigest]
        /\ t.jobs = [j \in JobId |-> t.jobs[j]]
        /\ t.credentials = [j \in JobId |-> t.credentials[j]]
        /\ t.idempotency = [k \in Key |-> t.idempotency[k]]
    BY <1>1 DEF Maps
  <2> HIDE DEF F
  <2> QED  BY <2>4, <2>5, <2>6 DEF IsStore, F
<1>6. EventsOf(t, w.job) = EventsOf(s, w.job) \cup {e}
  <2>1. \A i \in 1..(n + 1) : i \in 1..n \/ i = n + 1
    BY <1>3
  <2>2. n + 1 \in 1..(n + 1) /\ \A i \in 1..n : i \in 1..(n + 1)
    BY <1>3
  <2>3. ASSUME NEW f PROVE f \in EventsOf(t, w.job) <=> f \in EventsOf(s, w.job) \/ f = e
    <3>1. f \in EventsOf(t, w.job)
            <=> \E i \in 1..(n + 1) : t.events[i].job = w.job /\ f = t.events[i]
      BY <1>4, EventOfJob
    <3>2. f \in EventsOf(s, w.job)
            <=> \E i \in 1..n : s.events[i].job = w.job /\ f = s.events[i]
      BY <1>3, EventOfJob
    <3> QED  BY <1>2, <1>4, <2>1, <2>2, <3>1, <3>2
  <2> QED  BY <2>3
<1>7. ASSUME NEW f \in EventsOf(s, w.job) PROVE f.sequence \in Nat /\ f.sequence < e.sequence
  <2>1. PICK i \in 1..n : f = s.events[i]
    BY <1>3, EventOfJob
  <2> QED  BY <1>2, <1>3, <2>1
<1>8. e \in Newest(EventsOf(t, w.job)) /\ e \notin EventsOf(s, w.job)
  <2>1. e.sequence \in Nat
    BY <1>2, <1>3
  <2> QED  BY <1>6, <1>7, <2>1 DEF Newest
<1>9. ASSUME NEW j, j # w.job PROVE EventsOf(t, j) = EventsOf(s, j)
  <2>1. \A i \in 1..(n + 1) : i \in 1..n \/ i = n + 1
    BY <1>3
  <2>2. \A i \in 1..n : i \in 1..(n + 1)
    BY <1>3
  <2>3. ASSUME NEW f PROVE f \in EventsOf(t, j) <=> f \in EventsOf(s, j)
    <3>1. f \in EventsOf(t, j) <=> \E i \in 1..(n + 1) : t.events[i].job = j /\ f = t.events[i]
      BY <1>4, EventOfJob
    <3>2. f \in EventsOf(s, j) <=> \E i \in 1..n : s.events[i].job = j /\ f = s.events[i]
      BY <1>3, EventOfJob
    <3> QED  BY <1>2, <1>4, <1>9, <2>1, <2>2, <3>1, <3>2
  <2> QED  BY <2>3
<1> QED  BY <1>2, <1>4, <1>5, <1>6, <1>8, <1>9

\* A sound write takes nothing back: jobs, credentials and records stay, jobs with
\* a credential untouched.
LEMMA WriteAdds ==
    ASSUME NEW s, NEW w, Consistent(s), SoundWrite(s, w), NEW t, t = Applied(s, w)
    PROVE  /\ \A j \in JobId : s.jobs[j] # Nothing =>
                /\ t.jobs[j] # Nothing /\ t.jobs[j].version >= s.jobs[j].version
                /\ s.jobs[j].version \in Nat /\ t.jobs[j].version \in Nat
           /\ \A j \in JobId : s.credentials[j] # Nothing =>
                /\ j # w.job /\ t.credentials[j] = s.credentials[j] /\ t.jobs[j] = s.jobs[j]
           /\ \A k \in Key : s.idempotency[k] # Nothing => t.idempotency[k] = s.idempotency[k]
           /\ t.sequence = s.sequence + 1 /\ s.sequence \in Nat
           /\ t.jobs[w.job] = w.body /\ w.body # Nothing
           /\ w.credential # Nothing => t.credentials[w.job] = w.credential
           /\ w.key # NoKey => /\ s.idempotency[w.key] = Nothing
                               /\ t.idempotency[w.key] = w.record /\ w.record # Nothing
<1>1. IsStore(s) /\ JobsAreSound(s) /\ CredentialsAreSound(s)
  BY DEF Consistent
<1>2. w.job \in JobId /\ w.key \in Key \cup {NoKey} /\ IsBody(w.body)
  BY DEF SoundWrite
<1>3. /\ \A j \in JobId : t.jobs[j] = IF j = w.job THEN w.body ELSE s.jobs[j]
      /\ \A j \in JobId : t.credentials[j] = IF j = w.job /\ w.credential # Nothing
                                             THEN w.credential ELSE s.credentials[j]
      /\ \A k \in Key : t.idempotency[k] = IF k = w.key THEN w.record ELSE s.idempotency[k]
      /\ t.sequence = s.sequence + 1
  BY <1>1, <1>2, AppliedParts
<1>4. w.body # Nothing
  BY <1>2 DEF IsBody, Nothing
<1>5. s.sequence \in Nat
  BY <1>1 DEF IsStore
<1>6. ASSUME NEW j \in JobId, s.jobs[j] # Nothing
      PROVE  /\ t.jobs[j] # Nothing /\ t.jobs[j].version >= s.jobs[j].version
             /\ s.jobs[j].version \in Nat /\ t.jobs[j].version \in Nat
  <2>1. s.jobs[j].version \in Nat /\ w.body.version \in Nat
    BY <1>1, <1>2, <1>6 DEF JobsAreSound, IsBody
  <2> QED  BY <1>3, <1>4, <1>6, <2>1 DEF SoundWrite
<1>7. ASSUME NEW j \in JobId, s.credentials[j] # Nothing
      PROVE  /\ j # w.job /\ t.credentials[j] = s.credentials[j] /\ t.jobs[j] = s.jobs[j]
  <2>1. j # w.job
    BY <1>1, <1>7 DEF CredentialsAreSound, SoundWrite
  <2> QED  BY <1>3, <2>1
<1>8. ASSUME w.key # NoKey
      PROVE  w.record # Nothing /\ w.key \in Key /\ s.idempotency[w.key] = Nothing
  BY <1>2, <1>8 DEF SoundWrite, RecordHolds, Nothing
<1> QED  BY <1>2, <1>3, <1>4, <1>5, <1>6, <1>7, <1>8, NoKeyAssumption

\* A body joins the history of its job at the version after the last.
LEMMA HistoryGrows ==
    ASSUME NEW s, NEW w, Consistent(s), SoundWrite(s, w), NEW B, NEW C, OfOneHistory(s, B),
           C \subseteq B \cup {[job |-> w.job, body |-> w.body]}, NEW t, t = Applied(s, w)
    PROVE  OfOneHistory(t, C)
<1> DEFINE d == [job |-> w.job, body |-> w.body]
<1>1. \A j \in JobId : s.jobs[j] # Nothing =>
         /\ t.jobs[j] # Nothing /\ t.jobs[j].version >= s.jobs[j].version
         /\ s.jobs[j].version \in Nat /\ t.jobs[j].version \in Nat
  BY WriteAdds
<1>2. t.jobs[w.job] = w.body /\ w.body # Nothing /\ w.job \in JobId /\ IsBody(w.body)
  BY WriteAdds DEF SoundWrite
<1>3. ASSUME NEW a \in B
      PROVE  /\ a.job \in JobId /\ t.jobs[a.job] # Nothing /\ IsBody(a.body)
             /\ a.body.version <= t.jobs[a.job].version
             /\ a.job = w.job => a.body.version < w.body.version
  <2>1. a.job \in JobId /\ s.jobs[a.job] # Nothing /\ IsBody(a.body)
        /\ a.body.version <= s.jobs[a.job].version
    BY DEF OfOneHistory
  <2>2. a.body.version \in Nat
    BY <2>1 DEF IsBody
  <2>3. a.job = w.job => w.body.version = s.jobs[a.job].version + 1
    BY <2>1 DEF SoundWrite
  <2> QED  BY <1>1, <2>1, <2>2, <2>3
<1>4. d.job = w.job /\ d.body = w.body /\ w.body.version \in Nat
  BY <1>2 DEF IsBody
<1> HIDE DEF d
<1>5. ASSUME NEW a \in C
      PROVE  /\ a.job \in JobId /\ t.jobs[a.job] # Nothing
             /\ IsBody(a.body) /\ a.body.version <= t.jobs[a.job].version
  BY <1>2, <1>3, <1>4
<1>6. ASSUME NEW a \in C, NEW b \in C, a.job = b.job, a.body.version = b.body.version
      PROVE  a.body = b.body
  <2>1. CASE a \in B /\ b \in B
    BY <1>6, <2>1 DEF OfOneHistory
  <2>2. CASE a = d /\ b = d
    BY <2>2
  <2>3. CASE a = d /\ b \in B
    <3>1. b.body.version \in Nat
      BY <1>3, <2>3 DEF IsBody
    <3> QED  BY <1>3, <1>4, <1>6, <2>3, <3>1
  <2>4. CASE a \in B /\ b = d
    <3>1. a.body.version \in Nat
      BY <1>3, <2>4 DEF IsBody
    <3> QED  BY <1>3, <1>4, <1>6, <2>4, <3>1
  <2> QED  BY <2>1, <2>2, <2>3, <2>4 DEF d
<1> QED  BY <1>5, <1>6 DEF OfOneHistory

\* A sound write keeps a store consistent.
LEMMA ConsistencyStays ==
    ASSUME NEW s, NEW w, Consistent(s), SoundWrite(s, w), NEW t, t = Applied(s, w)
    PROVE  /\ Consistent(t)
           /\ StoredBodies(t)
                \subseteq StoredBodies(s) \cup {[job |-> w.job, body |-> w.body]}
<1> DEFINE e == NewEvent(s, w)
<1>1. /\ IsStore(s) /\ JobsAreSound(s) /\ CredentialsAreSound(s) /\ RecordsAreSound(s)
      /\ OfOneHistory(s, StoredBodies(s))
  BY DEF Consistent
<1>2. w.job \in JobId /\ w.key \in Key \cup {NoKey} /\ IsBody(w.body)
  BY DEF SoundWrite
<1>3. /\ IsStore(t) /\ e.type = w.type
      /\ EventsOf(t, w.job) = EventsOf(s, w.job) \cup {e}
      /\ e \in Newest(EventsOf(t, w.job)) /\ e \notin EventsOf(s, w.job)
      /\ \A j : j # w.job => EventsOf(t, j) = EventsOf(s, j)
  BY <1>1, <1>2, EventsOfApplied
<1>4. /\ \A j \in JobId : t.jobs[j] = IF j = w.job THEN w.body ELSE s.jobs[j]
      /\ \A j \in JobId : t.credentials[j] = IF j = w.job /\ w.credential # Nothing
                                             THEN w.credential ELSE s.credentials[j]
      /\ \A k \in Key : t.idempotency[k] = IF k = w.key THEN w.record ELSE s.idempotency[k]
  BY <1>1, <1>2, AppliedParts
<1>5. /\ \A j \in JobId : s.jobs[j] # Nothing => t.jobs[j] # Nothing
      /\ \A j \in JobId : s.credentials[j] # Nothing =>
           j # w.job /\ t.credentials[j] = s.credentials[j] /\ t.jobs[j] = s.jobs[j]
      /\ w.body # Nothing
  BY WriteAdds
<1>6. w.key # NoKey => RecordHolds(t, w.key, w.record)
  BY DEF SoundWrite
<1> HIDE DEF e
<1>7. JobsAreSound(t)
  BY <1>1, <1>2, <1>4 DEF JobsAreSound, SoundWrite
<1>8. CredentialsAreSound(t)
  <2> SUFFICES ASSUME NEW j \in JobId
               PROVE  /\ t.credentials[j] # Nothing =>
                           LET b == t.jobs[j]
                               c == t.credentials[j]
                               E == EventsOf(t, j)
                           IN  /\ b # Nothing /\ b.status = "credentialed"
                               /\ c.issuedBy # "forger"
                               /\ \E f \in Newest(E) :
                                    /\ f.type = "credential.issued"
                                    /\ c = [revision |-> Len(b.candidates),
                                            contentDigest |-> b.cues,
                                            eventChainDigest |-> E \ {f},
                                            issuedBy |-> c.issuedBy]
                      /\ t.jobs[j] # Nothing /\ t.jobs[j].status = "credentialed" =>
                           t.credentials[j] # Nothing
    BY DEF CredentialsAreSound
  <2>1. CASE j # w.job
    <3>1. t.jobs[j] = s.jobs[j] /\ t.credentials[j] = s.credentials[j]
          /\ EventsOf(t, j) = EventsOf(s, j)
      BY <1>3, <1>4, <2>1
    <3> QED  BY <1>1, <3>1 DEF CredentialsAreSound
  <2>2. CASE j = w.job /\ w.body.status = "credentialed"
    <3>1. /\ w.type = "credential.issued" /\ w.credential.issuedBy # "forger"
          /\ w.credential = [revision |-> Len(w.body.candidates), contentDigest |-> w.body.cues,
                             eventChainDigest |-> EventsOf(s, j),
                             issuedBy |-> w.credential.issuedBy]
      BY <2>2 DEF SoundWrite
    <3>2. w.credential # Nothing
      BY <3>1 DEF Nothing
    <3>3. t.jobs[j] = w.body /\ t.credentials[j] = w.credential
      BY <1>4, <2>2, <3>2
    <3>4. EventsOf(t, j) \ {e} = EventsOf(s, j)
      BY <1>3, <2>2
    <3> QED  BY <1>3, <1>5, <2>2, <3>1, <3>2, <3>3, <3>4
  <2>3. CASE j = w.job /\ w.body.status # "credentialed"
    <3>1. w.credential = Nothing /\ t.jobs[j] = w.body
      BY <1>4, <2>3 DEF SoundWrite
    <3>2. t.credentials[j] = s.credentials[j] /\ s.credentials[j] = Nothing
      BY <1>4, <1>5, <2>3, <3>1
    <3> QED  BY <2>3, <3>1, <3>2
  <2> QED  BY <2>1, <2>2, <2>3
<1>9. RecordsAreSound(t)
  <2> SUFFICES ASSUME NEW k \in Key, t.idempotency[k] # Nothing
               PROVE  RecordHolds(t, k, t.idempotency[k])
    BY DEF RecordsAreSound
  <2>1. CASE k = w.key
    BY <1>4, <1>6, <2>1, NoKeyAssumption
  <2>2. CASE k # w.key
    <3> DEFINE rec == s.idempotency[k]
    <3>1. t.idempotency[k] = rec /\ RecordHolds(s, k, rec)
      BY <1>1, <1>4, <2>2 DEF RecordsAreSound
    <3> HIDE DEF rec
    <3> QED  BY <1>5, <3>1 DEF RecordHolds
  <2> QED  BY <2>1, <2>2
<1>10. StoredBodies(t) \subseteq StoredBodies(s) \cup {[job |-> w.job, body |-> w.body]}
  <2>1. ASSUME NEW j \in JobId, t.jobs[j] # Nothing
        PROVE  [job |-> j, body |-> t.jobs[j]]
                  \in StoredBodies(s) \cup {[job |-> w.job, body |-> w.body]}
    BY <1>4, <2>1 DEF StoredBodies
  <2>2. ASSUME NEW k \in Key, t.idempotency[k] # Nothing, k[1] \in {"metadata", "cue-import"}
        PROVE  [job |-> t.idempotency[k].job, body |-> t.idempotency[k].result]
                  \in StoredBodies(s) \cup {[job |-> w.job, body |-> w.body]}
    <3>1. CASE k = w.key
      BY <1>4, <2>2, <3>1, NoKeyAssumption DEF SoundWrite
    <3>2. CASE k # w.key
      BY <1>4, <2>2, <3>2 DEF StoredBodies
    <3> QED  BY <3>1, <3>2
  <2> QED  BY <2>1, <2>2 DEF StoredBodies
<1>11. OfOneHistory(t, StoredBodies(t))
  BY <1>1, <1>10, HistoryGrows
<1> QED  BY <1>3, <1>7, <1>8, <1>9, <1>10, <1>11 DEF Consistent

-----------------------------------------------------------------------------
(* The writes requests lead to. *)

\* What a client has sent.
Asked(r) ==
    /\ r = [actor |-> r.actor, kind |-> r.kind, job |-> r.job, key |-> r.key, arg |-> r.arg,
            expected |-> r.expected]
    /\ r.expected \in Nat
    /\ \E f \in Form : /\ r.actor = f.actor /\ r.kind = f.kind /\ r.job = f.job
                       /\ r.key = f.key /\ r.arg = f.arg

\* Requests that are answered with the job as they leave it.
Versioned(r) == r.kind \notin {"create", "credential"}

\* What the write of a request has to do with it.
WriteFits(r, seen, w) ==
    /\ r.kind # "create" => w.job = r.job /\ w.body.version = r.expected + 1
    /\ w.key = IF Keyed(r, seen) THEN FullKey(r) ELSE NoKey
    /\ Keyed(r, seen) => FullKey(r) \in Key /\ w.record.job = w.job
    /\ r.kind = "credential" => w.credential # Nothing

\* Requests are of the forms there are, and what is handled with a key has one.
LEMMA KeysOfRequests ==
    ASSUME NEW r, Asked(r)
    PROVE  /\ r.kind \in Kind /\ r.job \in JobId \cup {Nothing} /\ r.actor # "forger"
           /\ r.kind = "cue-import" => r.arg.cues \in Cues
           /\ FullKey(r)[1] = r.kind /\ (r.kind # "create" => FullKey(r)[2] = r.actor)
           /\ \A seen : Keyed(r, seen) => FullKey(r) \in Key /\ FullKey(r) # NoKey
<1>1. PICK f \in Form : /\ r.actor = f.actor /\ r.kind = f.kind /\ r.job = f.job
                        /\ r.key = f.key /\ r.arg = f.arg
  BY DEF Asked
<1>2. FullKey(r) = FullKey(f)
  BY <1>1 DEF FullKey
<1>3. FullKey(r)[1] = r.kind /\ (r.kind # "create" => FullKey(r)[2] = r.actor)
  BY DEF FullKey
<1>4. ASSUME NEW seen, Keyed(r, seen) PROVE FullKey(r) \in Key
  BY <1>1, <1>2, <1>4, FormAssumption DEF Keyed
<1> QED  BY <1>1, <1>3, <1>4, FormAssumption, NoKeyAssumption

\* The write of each kind of request.  A creation takes an identifier nobody has.
LEMMA CreateIsSound ==
    ASSUME NEW s, NEW r, NEW seen, NEW w, Consistent(s), Asked(r), ~ Recorded(s, r, seen),
           r.kind = "create", w \in Create(s, r)
    PROVE  SoundWrite(s, w) /\ WriteFits(r, seen, w)
<1>1. PICK j \in JobId :
        /\ s.jobs[j] = Nothing /\ w.job = j /\ w.credential = Nothing
        /\ w.body = [version |-> 0, status |-> "draft", meta |-> r.arg, cues |-> NoCues,
                     candidates |-> <<>>]
        /\ w.key = IF Keyed(r, Nothing) THEN FullKey(r) ELSE NoKey
        /\ w.record = [digest |-> Digest(s, r, Nothing), job |-> j, result |-> Nothing]
  BY DEF Create, WriteOf
<1>2. Keyed(r, Nothing) = Keyed(r, seen)
  BY DEF Keyed
<1>3. IsBody(w.body) /\ w.body.status = "draft"
  <2>1. <<>> \in Seq(Cues \cup {NoCues})
    OBVIOUS
  <2> QED  BY <1>1, <2>1 DEF IsBody, Status
<1>4. w.key \in Key \cup {NoKey}
  BY <1>1, KeysOfRequests
<1>5. IsStore(s)
  BY DEF Consistent
<1>6. ASSUME Keyed(r, seen)
      PROVE  /\ w.key \in Key /\ w.key[1] = "create"
             /\ s.idempotency[w.key] = Nothing /\ RecordHolds(Applied(s, w), w.key, w.record)
  <2>1. w.key \in Key /\ w.key[1] = "create" /\ s.idempotency[w.key] = Nothing
    BY <1>1, <1>2, <1>6, KeysOfRequests DEF Recorded
  <2>2. Applied(s, w).jobs[w.job] = w.body
    BY <1>1, <1>4, <1>5, AppliedParts
  <2>3. w.body # Nothing
    BY <1>1 DEF Nothing
  <2> QED  BY <1>1, <2>1, <2>2, <2>3 DEF RecordHolds
<1>7. SoundWrite(s, w)
  BY <1>1, <1>2, <1>3, <1>4, <1>6 DEF SoundWrite
<1> QED  BY <1>1, <1>2, <1>6, <1>7, KeysOfRequests DEF WriteFits

\* The job a request changes, one version further.
Following(job, x, m, c, q) ==
    [version |-> job.version + 1, status |-> x, meta |-> m, cues |-> c, candidates |-> q]

LEMMA BumpedJob ==
    ASSUME NEW job, IsBody(job)
    PROVE  Bumped(job) = Following(job, job.status, job.meta, job.cues, job.candidates)
BY DEF IsBody, Bumped, Following

LEMMA FollowingIsBody ==
    ASSUME NEW job, IsBody(job), NEW x \in Status, NEW m, NEW c \in Cues \cup {NoCues},
           NEW q \in Seq(Cues \cup {NoCues})
    PROVE  /\ IsBody(Following(job, x, m, c, q))
           /\ Following(job, x, m, c, q).version = job.version + 1
           /\ Following(job, x, m, c, q).status = x /\ Following(job, x, m, c, q).cues = c
           /\ Following(job, x, m, c, q).candidates = q
BY DEF Following, IsBody

\* A revision of the metadata leaves its record, of the version it named.
LEMMA MetadataIsSound ==
    ASSUME NEW s, NEW r, NEW seen, NEW w, Consistent(s), Asked(r), ~ Recorded(s, r, seen),
           r.kind = "metadata", Exists(s, r.job), UpToDate(s.jobs[r.job], r),
           w \in ReviseMetadata(s, r, seen)
    PROVE  SoundWrite(s, w) /\ WriteFits(r, seen, w)
<1> DEFINE job == s.jobs[r.job]
<1>1. /\ job.status = "draft" /\ w.job = r.job /\ w.credential = Nothing
      /\ w.body = [Bumped(job) EXCEPT !.meta = Merged(r, seen)] /\ w.key = FullKey(r)
      /\ w.record = [digest |-> Digest(s, r, seen), job |-> r.job, result |-> w.body]
  BY DEF ReviseMetadata, WriteOf
<1>2. IsStore(s) /\ r.job \in JobId /\ job # Nothing /\ IsBody(job) /\ job.version = r.expected
  BY DEF Consistent, JobsAreSound, Exists, UpToDate
<1>3. /\ Keyed(r, seen) /\ FullKey(r) \in Key /\ FullKey(r) # NoKey
      /\ FullKey(r)[1] = "metadata" /\ s.idempotency[FullKey(r)] = Nothing
  BY KeysOfRequests DEF Keyed, Recorded
<1>4. Digest(s, r, seen) = <<r.job, Merged(r, seen), r.expected>>
  BY DEF Digest
<1>5. /\ IsBody(w.body) /\ w.body.version = r.expected + 1 /\ w.body.status = "draft"
  <2> DEFINE m == Merged(r, seen)
  <2> HIDE DEF m, job
  <2>1. w.body = [Bumped(job) EXCEPT !.meta = m]
    BY <1>1 DEF m, job
  <2>2. w.body = Following(job, job.status, m, job.cues, job.candidates)
    BY <1>2, <2>1, BumpedJob DEF Following
  <2> QED  BY <1>1, <1>2, <2>2, FollowingIsBody DEF IsBody, job
<1>6. Applied(s, w).jobs[w.job] = w.body /\ w.body # Nothing
  BY <1>1, <1>2, <1>3, <1>5, AppliedParts DEF IsBody, Nothing
<1>7. RecordHolds(Applied(s, w), w.key, w.record)
  <2> DEFINE d == Digest(s, r, seen)
             b == w.body
             k == w.key
  <2>1. k[1] = "metadata"
    BY <1>1, <1>3
  <2>2. d[1] = r.job /\ d[3] = r.expected
    BY <1>4
  <2> HIDE DEF d, b, k
  <2>3. w.record = [digest |-> d, job |-> r.job, result |-> b]
    BY <1>1 DEF d, b
  <2>4. /\ w.record = [digest |-> w.record.digest, job |-> w.record.job,
                       result |-> w.record.result]
        /\ w.record.digest = d /\ w.record.job = r.job /\ w.record.result = b
    BY <2>3
  <2>5. /\ IsBody(b) /\ b.version = r.expected + 1 /\ r.job \in JobId
        /\ Applied(s, w).jobs[r.job] # Nothing
    BY <1>1, <1>2, <1>5, <1>6 DEF b
  <2> QED  BY <2>1, <2>2, <2>4, <2>5 DEF RecordHolds, k
<1> HIDE DEF job
<1>8. SoundWrite(s, w)
  BY <1>1, <1>2, <1>3, <1>5, <1>7 DEF SoundWrite, job
<1> QED  BY <1>1, <1>3, <1>5, <1>8 DEF WriteFits

\* A request that finds its job, at the version it names.
LEMMA JobOfRequest ==
    ASSUME NEW s, NEW r, Consistent(s), Exists(s, r.job), UpToDate(s.jobs[r.job], r)
    PROVE  /\ IsStore(s) /\ r.job \in JobId /\ s.jobs[r.job] # Nothing /\ IsBody(s.jobs[r.job])
           /\ s.jobs[r.job].version = r.expected
           /\ s.jobs[r.job].status \notin {"draft", "rework"} =>
                /\ s.jobs[r.job].candidates # <<>>
                /\ s.jobs[r.job].cues
                     = s.jobs[r.job].candidates[Len(s.jobs[r.job].candidates)]
BY DEF Consistent, JobsAreSound, Exists, UpToDate

\* So does a cue import handled with a key, by the batch edit.
LEMMA BatchIsSound ==
    ASSUME NEW s, NEW r, NEW seen, NEW w, Consistent(s), Asked(r), ~ Recorded(s, r, seen),
           r.kind = "cue-import", Exists(s, r.job), UpToDate(s.jobs[r.job], r),
           ~ InRework(seen), w \in BatchCues(s, r, seen)
    PROVE  SoundWrite(s, w) /\ WriteFits(r, seen, w) /\ w.body.status = s.jobs[r.job].status
<1> DEFINE job == s.jobs[r.job]
           d == Digest(s, r, seen)
           b == w.body
           k == w.key
<1>1. /\ job.status \in {"draft", "rework"} /\ w.job = r.job /\ w.credential = Nothing
      /\ b = [Bumped(job) EXCEPT !.cues = r.arg.cues]
      /\ k = IF Keyed(r, seen) THEN FullKey(r) ELSE NoKey
      /\ w.record = [digest |-> d, job |-> r.job, result |-> b]
  BY DEF BatchCues, WriteOf
<1>2. /\ IsStore(s) /\ r.job \in JobId /\ job # Nothing /\ IsBody(job)
      /\ job.version = r.expected /\ r.arg.cues \in Cues
  BY JobOfRequest, KeysOfRequests
<1>3. ASSUME Keyed(r, seen)
      PROVE  /\ FullKey(r) \in Key /\ FullKey(r) # NoKey
             /\ FullKey(r)[1] = "cue-import" /\ s.idempotency[FullKey(r)] = Nothing
  BY <1>3, KeysOfRequests DEF Recorded
<1>4. d[1] = r.job /\ d[2] = r.expected
  BY DEF Digest
<1> HIDE DEF d, k
<1>5. IsBody(b) /\ b.version = r.expected + 1 /\ b.status = job.status
  <2> HIDE DEF job, b
  <2>1. b = Following(job, job.status, job.meta, r.arg.cues, job.candidates)
    BY <1>1, <1>2, BumpedJob DEF Following
  <2> QED  BY <1>1, <1>2, <2>1, FollowingIsBody DEF IsBody
<1>6. k \in Key \cup {NoKey}
  BY <1>1, <1>3
<1>7. Applied(s, w).jobs[r.job] = b /\ b # Nothing
  BY <1>1, <1>2, <1>5, <1>6, AppliedParts DEF IsBody, Nothing, k
<1> HIDE DEF job, b
<1>8. /\ w.record = [digest |-> w.record.digest, job |-> w.record.job,
                     result |-> w.record.result]
      /\ w.record.digest = d /\ w.record.job = r.job /\ w.record.result = b
  BY <1>1
<1>9. ASSUME Keyed(r, seen) PROVE RecordHolds(Applied(s, w), k, w.record)
  BY <1>1, <1>2, <1>3, <1>4, <1>5, <1>7, <1>8, <1>9 DEF RecordHolds
<1>10. SoundWrite(s, w)
  BY <1>1, <1>2, <1>3, <1>5, <1>6, <1>8, <1>9 DEF SoundWrite, job, b, k
<1> QED  BY <1>1, <1>3, <1>5, <1>8, <1>10 DEF WriteFits, job, b, k

\* An edit with a baseline has no key and leaves no record.
LEMMA ReworkIsSound ==
    ASSUME NEW s, NEW r, NEW seen, NEW w, Consistent(s), Asked(r), r.kind = "cue-import",
           Exists(s, r.job), UpToDate(s.jobs[r.job], r), InRework(seen), w \in ReworkCues(s, r)
    PROVE  SoundWrite(s, w) /\ WriteFits(r, seen, w) /\ w.type = "rework.cues.edited"
<1> DEFINE job == s.jobs[r.job]
           b == w.body
<1>1. /\ job.status = "rework" /\ w.job = r.job /\ w.credential = Nothing
      /\ b = [Bumped(job) EXCEPT !.cues = r.arg.cues] /\ w.key = NoKey
      /\ w.type = "rework.cues.edited"
  BY DEF ReworkCues, WriteOf
<1>2. /\ job # Nothing /\ IsBody(job) /\ job.version = r.expected /\ r.arg.cues \in Cues
      /\ r.job \in JobId
  BY JobOfRequest, KeysOfRequests
<1>3. IsBody(b) /\ b.version = r.expected + 1 /\ b.status = "rework"
  <2> HIDE DEF job, b
  <2>1. b = Following(job, job.status, job.meta, r.arg.cues, job.candidates)
    BY <1>1, <1>2, BumpedJob DEF Following
  <2> QED  BY <1>1, <1>2, <2>1, FollowingIsBody DEF IsBody
<1>4. ~ Keyed(r, seen)
  BY DEF Keyed
<1> QED  BY <1>1, <1>2, <1>3, <1>4 DEF SoundWrite, WriteFits

\* Findings, answers and steps of the review: what leaves the draft leaves a candidate.
LEMMA AdvanceIsSound ==
    ASSUME NEW s, NEW r, NEW seen, NEW w, Consistent(s), Asked(r),
           r.kind \notin {"create", "metadata", "cue-import", "credential"},
           Exists(s, r.job), UpToDate(s.jobs[r.job], r), w \in Advance(s, r)
    PROVE  SoundWrite(s, w) /\ WriteFits(r, seen, w)
           /\ w.body.cues = s.jobs[r.job].cues
<1> DEFINE job == s.jobs[r.job]
           b == w.body
           q == IF r.kind = "submit" THEN Append(job.candidates, job.cues) ELSE job.candidates
<1>1. PICK step \in Steps(r.kind) :
        /\ step[1] = job.status /\ w.job = r.job /\ w.credential = Nothing
        /\ b = [Bumped(job) EXCEPT
                  !.status = step[2],
                  !.candidates = IF r.kind = "submit" THEN Append(@, job.cues) ELSE @]
        /\ w.key = NoKey
  <2> DEFINE next(step) == [Bumped(job) EXCEPT
                              !.status = step[2],
                              !.candidates = IF r.kind = "submit" THEN Append(@, job.cues) ELSE @]
  <2>1. w \in {WriteOf(r.kind, r.job, next(step), r, step, NoKey, Nothing, Nothing) :
                 step \in {t \in Steps(r.kind) : t[1] = job.status}}
    BY DEF Advance
  <2> HIDE DEF next, job
  <2>2. PICK step \in Steps(r.kind) :
          /\ step[1] = job.status
          /\ w = WriteOf(r.kind, r.job, next(step), r, step, NoKey, Nothing, Nothing)
    BY <2>1
  <2>3. w.job = r.job /\ w.credential = Nothing /\ w.body = next(step) /\ w.key = NoKey
    BY <2>2 DEF WriteOf
  <2> WITNESS step \in Steps(r.kind)
  <2> QED  BY <2>2, <2>3 DEF next, job
<1>2. /\ job # Nothing /\ IsBody(job) /\ job.version = r.expected /\ r.job \in JobId
      /\ job.status \notin {"draft", "rework"} =>
           job.candidates # <<>> /\ job.cues = job.candidates[Len(job.candidates)]
  BY JobOfRequest
<1>3. ~ Keyed(r, seen)
  BY DEF Keyed
<1>4. /\ step[2] \in Status \ {"credentialed"} /\ step[1] # "credentialed"
      /\ r.kind # "submit" /\ step[2] \notin {"draft", "rework"} =>
           step[1] \notin {"draft", "rework"}
  BY DEF Steps, Status
<1> DEFINE x == step[2]
<1> HIDE DEF x, job
<1>5. q \in Seq(Cues \cup {NoCues}) /\ job.cues \in Cues \cup {NoCues}
  BY <1>2 DEF IsBody
<1>6. b = [Bumped(job) EXCEPT !.status = x, !.candidates = q]
  <2>1. Bumped(job).candidates = job.candidates
    BY <1>2, BumpedJob DEF Following
  <2> QED  BY <1>1, <2>1 DEF x, job
<1> HIDE DEF b
<1>7. ASSUME x \notin {"draft", "rework"} PROVE q # <<>> /\ job.cues = q[Len(q)]
  <2>1. CASE r.kind = "submit"
    <3>1. job.candidates \in Seq(Cues \cup {NoCues})
      BY <1>2 DEF IsBody
    <3> QED  BY <1>5, <2>1, <3>1
  <2>2. CASE r.kind # "submit"
    BY <1>1, <1>2, <1>4, <1>7, <2>2 DEF x, job
  <2> QED  BY <2>1, <2>2
<1> HIDE DEF q
<1>8. b = Following(job, x, job.meta, job.cues, q)
  <2> DEFINE n == Bumped(job)
  <2>1. n = Following(job, job.status, job.meta, job.cues, job.candidates)
    BY <1>2, BumpedJob
  <2>2. b = [n EXCEPT !.status = x, !.candidates = q]
    BY <1>6
  <2> HIDE DEF n
  <2>3. b = [[n EXCEPT !.status = x] EXCEPT !.candidates = q]
    BY <2>2
  <2>4. [n EXCEPT !.status = x] = Following(job, x, job.meta, job.cues, job.candidates)
    BY <2>1 DEF Following
  <2> QED  BY <2>3, <2>4 DEF Following
<1>9. /\ IsBody(b) /\ b.version = r.expected + 1 /\ b.status = x /\ b.cues = job.cues
      /\ b.candidates = q
  BY <1>2, <1>4, <1>5, <1>8, FollowingIsBody DEF x
<1>10. SoundWrite(s, w)
  BY <1>1, <1>2, <1>4, <1>7, <1>9 DEF SoundWrite, b, job, x
<1> QED  BY <1>1, <1>3, <1>9, <1>10 DEF WriteFits, b, job

\* An issue leaves the credential of the candidate and of the events before it.
LEMMA IssueIsSound ==
    ASSUME NEW s, NEW r, NEW seen, NEW w, Consistent(s), Asked(r), ~ Recorded(s, r, seen),
           r.kind = "credential", Exists(s, r.job), UpToDate(s.jobs[r.job], r),
           w \in IssueCredential(s, r)
    PROVE  SoundWrite(s, w) /\ WriteFits(r, seen, w)
           /\ w.body.cues = s.jobs[r.job].cues
<1> DEFINE job == s.jobs[r.job]
           d == Digest(s, r, Nothing)
           b == w.body
           k == w.key
           c == w.credential
<1>1. /\ job.status = "approved" /\ w.job = r.job /\ w.type = "credential.issued"
      /\ c = [revision |-> Len(job.candidates), contentDigest |-> job.cues,
              eventChainDigest |-> EventsOf(s, r.job), issuedBy |-> r.actor]
      /\ b = [Bumped(job) EXCEPT !.status = "credentialed"]
      /\ k = FullKey(r)
      /\ w.record = [digest |-> d, job |-> r.job, result |-> Nothing]
  BY DEF IssueCredential, WriteOf
<1>2. /\ IsStore(s) /\ r.job \in JobId /\ job # Nothing /\ IsBody(job)
      /\ job.version = r.expected /\ r.actor # "forger"
      /\ job.status \notin {"draft", "rework"} =>
           job.candidates # <<>> /\ job.cues = job.candidates[Len(job.candidates)]
  BY JobOfRequest, KeysOfRequests
<1>3. /\ Keyed(r, seen) /\ k \in Key /\ k # NoKey /\ k[1] = "credential" /\ k[2] = r.actor
      /\ s.idempotency[k] = Nothing
  BY <1>1, KeysOfRequests DEF Recorded, Keyed
<1>4. d = <<r.job, Len(job.candidates), r.actor>>
  BY DEF Digest
<1> HIDE DEF d, k
<1>5. /\ IsBody(b) /\ b.version = r.expected + 1 /\ b.status = "credentialed"
      /\ b.cues = job.cues /\ b.candidates = job.candidates
  <2> HIDE DEF job, b
  <2>1. b = Following(job, "credentialed", job.meta, job.cues, job.candidates)
    BY <1>1, <1>2, BumpedJob DEF Following
  <2> QED  BY <1>1, <1>2, <2>1, FollowingIsBody DEF IsBody, Status
<1>6. c # Nothing /\ c = [revision |-> Len(b.candidates), contentDigest |-> b.cues,
                          eventChainDigest |-> EventsOf(s, r.job), issuedBy |-> c.issuedBy]
      /\ c.issuedBy = r.actor
  <2> HIDE DEF job, b, c
  <2> QED  BY <1>1, <1>5 DEF Nothing
<1>7. /\ Applied(s, w).jobs[r.job] = b /\ b # Nothing
      /\ Applied(s, w).credentials[r.job] = c
  <2>1. w.key \in Key \cup {NoKey} /\ w.job \in JobId
    BY <1>1, <1>2, <1>3 DEF k
  <2> QED  BY <1>1, <1>2, <1>5, <1>6, <2>1, AppliedParts DEF IsBody, Nothing
<1> HIDE DEF job, b, c
<1>8. /\ w.record = [digest |-> w.record.digest, job |-> w.record.job,
                     result |-> w.record.result]
      /\ w.record.digest = d /\ w.record.job = r.job
  BY <1>1
<1>9. RecordHolds(Applied(s, w), k, w.record)
  BY <1>2, <1>3, <1>4, <1>5, <1>6, <1>7, <1>8 DEF RecordHolds
<1>10. SoundWrite(s, w)
  BY <1>1, <1>2, <1>3, <1>5, <1>6, <1>9 DEF SoundWrite, job, b, k, c
<1> QED  BY <1>1, <1>3, <1>5, <1>6, <1>8, <1>10 DEF WriteFits, job, b, k, c

\* Whatever is asked, the write is sound and is the request's own.
LEMMA WritesAreSound ==
    ASSUME NEW s, NEW r, NEW seen, NEW w, Consistent(s), Asked(r), ~ Recorded(s, r, seen),
           w \in Writes(s, r, seen)
    PROVE  SoundWrite(s, w) /\ WriteFits(r, seen, w)
<1>1. r.kind \in Kind
  BY KeysOfRequests
<1>2. CASE r.kind = "create"
  BY <1>2, CreateIsSound DEF Writes
<1>3. CASE r.kind # "create"
  <2>1. Exists(s, r.job) /\ UpToDate(s.jobs[r.job], r)
    BY <1>3 DEF Writes
  <2>2. CASE r.kind = "metadata"
    BY <2>1, <2>2, MetadataIsSound DEF Writes
  <2>3. CASE r.kind = "cue-import"
    BY <2>1, <2>3, BatchIsSound, ReworkIsSound DEF Writes
  <2>4. CASE r.kind = "credential"
    BY <2>1, <2>4, IssueIsSound DEF Writes
  <2>5. CASE r.kind \notin {"metadata", "cue-import", "credential"}
    BY <1>3, <2>1, <2>5, AdvanceIsSound DEF Writes
  <2> QED  BY <2>2, <2>3, <2>4, <2>5
<1> QED  BY <1>2, <1>3

-----------------------------------------------------------------------------
(* The invariant: a consistent store, and calls that have seen it, changed  *)
(* it and been told of it.                                                  *)

IsCall(c) ==
    /\ c = [request |-> c.request, stage |-> c.stage, seen |-> c.seen, code |-> c.code,
            result |-> c.result, effect |-> c.effect]
    /\ Asked(c.request) /\ c.stage \in {"sent", "routed", "answered"}
    /\ c.code \in IF c.stage = "answered" THEN {"ok", "refused", "failed"} ELSE {"none"}

\* What a call has seen, what it has done, and what it was told.
SawAJob(c) ==
    /\ c.seen # Nothing => IsBody(c.seen)
    /\ c.stage = "routed" => c.seen # Nothing
TookPlace(s, c) ==
    LET r == c.request IN
    /\ c.effect \in 0..s.sequence /\ (c.code # "ok" => c.effect = 0)
    /\ c.effect # 0 /\ Keyed(r, c.seen) =>
         /\ FullKey(r) \in Key /\ s.idempotency[FullKey(r)] # Nothing
         /\ r.kind = "credential" =>
              r.job \in JobId /\ s.idempotency[FullKey(r)].job = r.job
Told(s, c) ==
    LET r == c.request IN
    c.code = "ok" =>
        /\ r.kind = "create" /\ r.key # NoKey =>
             /\ FullKey(r) \in Key /\ s.idempotency[FullKey(r)] # Nothing
             /\ c.result = s.idempotency[FullKey(r)].job
        /\ r.kind = "credential" =>
             r.job \in JobId /\ s.credentials[r.job] # Nothing /\ c.result = s.credentials[r.job]
        /\ Versioned(r) => c.result.version = r.expected + 1

CallInv(s, c) == IsCall(c) /\ SawAJob(c) /\ TookPlace(s, c) /\ Told(s, c)

\* The jobs calls have seen, and those they were told of.
CallBodies(C) ==
    {[job |-> C[i].request.job, body |-> C[i].result] :
        i \in {k \in DOMAIN C : C[k].code = "ok" /\ Versioned(C[k].request)}}
    \cup {[job |-> C[i].request.job, body |-> C[i].seen] :
            i \in {k \in DOMAIN C : C[k].seen # Nothing}}

IsCalls(C) == C \in Seq({C[i] : i \in DOMAIN C})

\* KeyUsedOnce of any calls.
OneEffectPerKey(C) ==
    \A i, k \in DOMAIN C :
        /\ C[i].effect # 0 /\ C[k].effect # 0
        /\ Keyed(C[i].request, C[i].seen) /\ Keyed(C[k].request, C[k].seen)
        /\ FullKey(C[i].request) = FullKey(C[k].request)
        => i = k

Served(s, C) ==
    /\ Consistent(s) /\ IsCalls(C) /\ \A i \in DOMAIN C : CallInv(s, C[i])
    /\ OfOneHistory(s, StoredBodies(s) \cup CallBodies(C))
    /\ OneEffectPerKey(C)

ServiceInv == Served(store, calls)

\* The jobs in a list of calls, elementwise.
LEMMA BodyOfCall ==
    ASSUME NEW C, NEW f
    PROVE  f \in CallBodies(C) <=>
             \E i \in DOMAIN C :
                \/ /\ C[i].code = "ok" /\ Versioned(C[i].request)
                   /\ f = [job |-> C[i].request.job, body |-> C[i].result]
                \/ /\ C[i].seen # Nothing
                   /\ f = [job |-> C[i].request.job, body |-> C[i].seen]
BY DEF CallBodies

LEMMA CallBodiesIn ==
    ASSUME NEW C, NEW B,
           \A i \in DOMAIN C :
              /\ C[i].code = "ok" /\ Versioned(C[i].request) =>
                   [job |-> C[i].request.job, body |-> C[i].result] \in B
              /\ C[i].seen # Nothing => [job |-> C[i].request.job, body |-> C[i].seen] \in B
    PROVE  CallBodies(C) \subseteq B
BY DEF CallBodies

LEMMA FewerBodies ==
    ASSUME NEW s, NEW B, NEW C, OfOneHistory(s, B), C \subseteq B
    PROVE  OfOneHistory(s, C)
BY DEF OfOneHistory

\* A call that is made.
LEMMA CallMade ==
    ASSUME NEW s, NEW C, NEW r, NEW D, Served(s, C), Asked(r), D = Append(C, Call(r))
    PROVE  Served(s, D)
<1> DEFINE c == Call(r)
           n == Len(C)
           S == {C[i] : i \in DOMAIN C}
<1>1. C \in Seq(S) /\ n \in Nat /\ DOMAIN C = 1..n
  BY DEF Served, IsCalls
<1>2. /\ c.request = r /\ c.stage = "sent" /\ c.seen = Nothing /\ c.code = "none"
      /\ c.result = Nothing /\ c.effect = 0
      /\ c = [request |-> c.request, stage |-> c.stage, seen |-> c.seen, code |-> c.code,
              result |-> c.result, effect |-> c.effect]
  BY DEF Call
<1> HIDE DEF c, S
<1>3. /\ D \in Seq(S \cup {c}) /\ DOMAIN D = 1..(n + 1) /\ D[n + 1] = c
      /\ \A i \in 1..n : D[i] = C[i]
  BY <1>1 DEF c
<1>4. \A i \in DOMAIN D : i \in DOMAIN C \/ i = n + 1
  BY <1>1, <1>3
<1>5. IsCalls(D)
  BY <1>3, OwnElements DEF IsCalls
<1>6. CallInv(s, c)
  <2>1. s.sequence \in Nat
    BY DEF Served, Consistent, IsStore
  <2> QED  BY <1>2, <2>1 DEF CallInv, IsCall, SawAJob, TookPlace, Told
<1>7. \A i \in DOMAIN D : CallInv(s, D[i])
  BY <1>1, <1>3, <1>4, <1>6 DEF Served
<1>8. CallBodies(D) \subseteq CallBodies(C)
  <2>1. ASSUME NEW i \in DOMAIN D
        PROVE  /\ D[i].code = "ok" /\ Versioned(D[i].request) =>
                    [job |-> D[i].request.job, body |-> D[i].result] \in CallBodies(C)
               /\ D[i].seen # Nothing =>
                    [job |-> D[i].request.job, body |-> D[i].seen] \in CallBodies(C)
    <3>1. CASE i = n + 1
      BY <1>2, <1>3, <3>1
    <3>2. CASE i \in DOMAIN C
      <4>1. D[i] = C[i]
        BY <1>1, <1>3, <3>2
      <4> QED  BY <3>2, <4>1 DEF CallBodies
    <3> QED  BY <1>4, <3>1, <3>2
  <2> QED  BY <2>1, CallBodiesIn
<1>9. OfOneHistory(s, StoredBodies(s) \cup CallBodies(D))
  BY <1>8, FewerBodies DEF Served
<1>10. OneEffectPerKey(D)
  BY <1>1, <1>2, <1>3, <1>4 DEF OneEffectPerKey, Served
<1> QED  BY <1>5, <1>7, <1>9, <1>10 DEF Served

\* A call that changes, and causes nothing.
LEMMA CallChanged ==
    ASSUME NEW s, NEW C, NEW D, NEW i \in DOMAIN C, Served(s, C),
           IsCalls(D), DOMAIN D = DOMAIN C, \A k \in DOMAIN C : k # i => D[k] = C[k],
           D[i].effect = 0, CallInv(s, D[i]),
           D[i].code = "ok" /\ Versioned(D[i].request) =>
             [job |-> D[i].request.job, body |-> D[i].result]
                \in StoredBodies(s) \cup CallBodies(C),
           D[i].seen # Nothing =>
             [job |-> D[i].request.job, body |-> D[i].seen]
                \in StoredBodies(s) \cup CallBodies(C)
    PROVE  Served(s, D)
<1>1. StoredBodies(s) \cup CallBodies(D) \subseteq StoredBodies(s) \cup CallBodies(C)
  <2> SUFFICES ASSUME NEW f \in CallBodies(D) PROVE f \in StoredBodies(s) \cup CallBodies(C)
    OBVIOUS
  <2>1. PICK k \in DOMAIN D :
           \/ /\ D[k].code = "ok" /\ Versioned(D[k].request)
              /\ f = [job |-> D[k].request.job, body |-> D[k].result]
           \/ /\ D[k].seen # Nothing
              /\ f = [job |-> D[k].request.job, body |-> D[k].seen]
    BY BodyOfCall
  <2>2. CASE k = i
    BY <2>1, <2>2
  <2>3. CASE k # i
    <3>1. k \in DOMAIN C /\ D[k] = C[k]
      BY <2>3
    <3> QED  BY <2>1, <3>1, BodyOfCall
  <2> QED  BY <2>2, <2>3
<1>2. OfOneHistory(s, StoredBodies(s) \cup CallBodies(D))
  BY <1>1, FewerBodies DEF Served
<1>3. OneEffectPerKey(D)
  BY DEF OneEffectPerKey, Served
<1> QED  BY <1>2, <1>3 DEF Served

\* Calls C with d for the i-th of them.
With(C, i, d) == [C EXCEPT ![i] = d]

\* What is left when one call changes.
LEMMA OneChanged ==
    ASSUME NEW C, IsCalls(C), NEW i \in DOMAIN C, NEW d
    PROVE  /\ IsCalls(With(C, i, d)) /\ DOMAIN With(C, i, d) = DOMAIN C
           /\ With(C, i, d)[i] = d
           /\ \A k \in DOMAIN C : k # i => With(C, i, d)[k] = C[k]
<1> DEFINE S == {C[k] : k \in DOMAIN C}
           D == With(C, i, d)
<1>1. C \in Seq(S) /\ Len(C) \in Nat /\ DOMAIN C = 1..Len(C) /\ C \in [1..Len(C) -> S]
  BY DEF IsCalls
<1> HIDE DEF S
<1>2. /\ DOMAIN D = 1..Len(C) /\ D[i] = d /\ \A k \in DOMAIN C : k # i => D[k] = C[k]
      /\ D \in [1..Len(C) -> S \cup {d}]
  BY <1>1 DEF With
<1> HIDE DEF D
<1>3. D \in Seq(S \cup {d})
  BY <1>1, <1>2, SeqDef
<1>4. IsCalls(D)
  BY <1>3, OwnElements DEF IsCalls
<1> QED  BY <1>1, <1>2, <1>4 DEF D

-----------------------------------------------------------------------------
(* Every step keeps the invariant. *)

\* A call when it is answered.
Answered(c, code, result, effect) ==
    [request |-> c.request, stage |-> "answered", seen |-> c.seen, code |-> code,
     result |-> result, effect |-> effect]

\* An answer that causes nothing.
LEMMA AnswerKeeps ==
    ASSUME NEW s, NEW C, Served(s, C), NEW i \in DOMAIN C,
           NEW code \in {"ok", "refused", "failed"}, NEW result,
           Told(s, Answered(C[i], code, result, 0)),
           code = "ok" /\ Versioned(C[i].request) =>
             [job |-> C[i].request.job, body |-> result] \in StoredBodies(s)
    PROVE  Served(s, With(C, i, Answered(C[i], code, result, 0)))
<1> DEFINE c == C[i]
           d == Answered(c, code, result, 0)
           D == With(C, i, d)
<1>1. IsCalls(C) /\ CallInv(s, c) /\ s.sequence \in Nat
  BY DEF Served, Consistent, IsStore
<1>2. /\ IsCalls(D) /\ DOMAIN D = DOMAIN C /\ D[i] = d
      /\ \A k \in DOMAIN C : k # i => D[k] = C[k]
  BY <1>1, OneChanged
<1>3. /\ d.request = c.request /\ d.stage = "answered" /\ d.seen = c.seen /\ d.code = code
      /\ d.result = result /\ d.effect = 0
      /\ d = [request |-> d.request, stage |-> d.stage, seen |-> d.seen, code |-> d.code,
              result |-> d.result, effect |-> d.effect]
  BY DEF Answered
<1>4. c.seen # Nothing => [job |-> c.request.job, body |-> c.seen] \in CallBodies(C)
  BY DEF CallBodies
<1> HIDE DEF D, c, d
<1>5. IsCall(d) /\ SawAJob(d) /\ TookPlace(s, d)
  BY <1>1, <1>3 DEF CallInv, IsCall, SawAJob, TookPlace
<1>6. CallInv(s, d)
  <2>1. Told(s, d)
    BY DEF d, c
  <2> QED  BY <1>5, <2>1 DEF CallInv
<1> QED  BY <1>2, <1>3, <1>4, <1>6, CallChanged DEF D, d, c

\* What a replay answers is what the record holds of this very request.
LEMMA ReplayTells ==
    ASSUME NEW s, NEW r, NEW seen, Consistent(s), Asked(r), Recorded(s, r, seen),
           s.idempotency[FullKey(r)].digest = Digest(s, r, seen)
    PROVE  /\ FullKey(r) \in Key /\ s.idempotency[FullKey(r)] # Nothing
           /\ r.kind = "create" => ReplayResult(s, r) = s.idempotency[FullKey(r)].job
           /\ r.kind = "credential" =>
                /\ r.job \in JobId /\ s.credentials[r.job] # Nothing
                /\ ReplayResult(s, r) = s.credentials[r.job]
           /\ Versioned(r) => /\ ReplayResult(s, r).version = r.expected + 1
                              /\ [job |-> r.job, body |-> ReplayResult(s, r)] \in StoredBodies(s)
<1> DEFINE k == FullKey(r)
           rec == s.idempotency[k]
<1>1. /\ k \in Key /\ rec # Nothing /\ k[1] = r.kind /\ Keyed(r, seen)
      /\ r.expected \in Nat
  BY KeysOfRequests DEF Recorded, Asked
<1>2. RecordHolds(s, k, rec)
  BY <1>1 DEF Consistent, RecordsAreSound
<1>3. rec.digest = Digest(s, r, seen)
  OBVIOUS
<1>4. ASSUME r.kind = "create" PROVE ReplayResult(s, r) = rec.job
  BY <1>4 DEF ReplayResult
<1>5. ASSUME r.kind = "credential"
      PROVE  /\ r.job \in JobId /\ s.credentials[r.job] # Nothing
             /\ ReplayResult(s, r) = s.credentials[r.job]
  <2>1. ReplayResult(s, r) = s.credentials[rec.job]
    BY <1>5 DEF ReplayResult
  <2>2. Digest(s, r, seen) = <<r.job, Len(s.jobs[r.job].candidates), r.actor>>
    BY <1>5 DEF Digest
  <2> HIDE DEF rec, k
  <2>3. /\ rec.job \in JobId /\ s.credentials[rec.job] # Nothing
        /\ rec.digest = <<rec.job, Len(s.jobs[rec.job].candidates), k[2]>>
    BY <1>1, <1>2, <1>5 DEF RecordHolds
  <2>4. rec.job = r.job
    BY <1>3, <2>2, <2>3
  <2> QED  BY <2>1, <2>3, <2>4
<1>6. ASSUME Versioned(r)
      PROVE  /\ ReplayResult(s, r).version = r.expected + 1
             /\ [job |-> r.job, body |-> ReplayResult(s, r)] \in StoredBodies(s)
  <2>1. r.kind \in {"metadata", "cue-import"}
    BY <1>1, <1>6 DEF Keyed, Versioned
  <2>2. ReplayResult(s, r) = rec.result
    BY <2>1 DEF ReplayResult
  <2>3. [job |-> rec.job, body |-> rec.result] \in StoredBodies(s)
    BY <1>1, <2>1 DEF StoredBodies
  <2>4. CASE r.kind = "metadata"
    <3>1. rec.digest[1] = r.job /\ rec.digest[3] = r.expected
      BY <1>3, <2>4 DEF Digest
    <3> HIDE DEF rec, k
    <3>2. rec.job = r.job /\ rec.result.version = r.expected + 1
      BY <1>1, <1>2, <2>4, <3>1 DEF RecordHolds
    <3> QED  BY <2>2, <2>3, <3>2
  <2>5. CASE r.kind = "cue-import"
    <3>1. rec.digest[1] = r.job /\ rec.digest[2] = r.expected
      BY <1>3, <2>5 DEF Digest
    <3> HIDE DEF rec, k
    <3>2. rec.job = r.job /\ rec.result.version = r.expected + 1
      BY <1>1, <1>2, <2>5, <3>1 DEF RecordHolds
    <3> QED  BY <2>2, <2>3, <3>2
  <2> QED  BY <2>1, <2>4, <2>5
<1> QED  BY <1>1, <1>4, <1>5, <1>6

\* A write takes nothing from the other calls.
LEMMA CallKept ==
    ASSUME NEW s, NEW w, Consistent(s), SoundWrite(s, w), NEW c, CallInv(s, c)
    PROVE  CallInv(Applied(s, w), c)
<1> DEFINE t == Applied(s, w)
           k == FullKey(c.request)
<1>1. /\ \A j \in JobId : s.credentials[j] # Nothing => t.credentials[j] = s.credentials[j]
      /\ \A x \in Key : s.idempotency[x] # Nothing => t.idempotency[x] = s.idempotency[x]
      /\ t.sequence = s.sequence + 1 /\ s.sequence \in Nat
  BY WriteAdds
<1> HIDE DEF t
<1>2. TookPlace(t, c)
  <2>1. TookPlace(s, c)
    BY DEF CallInv
  <2>2. c.effect \in 0..t.sequence
    BY <1>1, <2>1 DEF TookPlace
  <2> QED  BY <1>1, <2>1, <2>2 DEF TookPlace
<1>3. Told(t, c)
  BY <1>1 DEF CallInv, Told
<1> QED  BY <1>2, <1>3 DEF CallInv, t

\* What an operation answers.
ResultOf(r, w) == CASE r.kind = "create"     -> w.job
                    [] r.kind = "credential" -> w.credential
                    [] OTHER                 -> w.body

\* An answer with success: the write is on record before the mutex is released.
LEMMA HandleKeeps ==
    ASSUME NEW s, NEW C, Served(s, C), NEW i \in DOMAIN C, C[i].stage # "answered",
           ~ Recorded(s, C[i].request, C[i].seen), NEW w \in Writes(s, C[i].request, C[i].seen)
    PROVE  Served(Applied(s, w),
                  With(C, i, Answered(C[i], "ok", ResultOf(C[i].request, w), s.sequence + 1)))
<1> DEFINE t == Applied(s, w)
           c == C[i]
           r == C[i].request
           k == FullKey(r)
           x == ResultOf(r, w)
           d == Answered(c, "ok", x, s.sequence + 1)
           D == With(C, i, d)
<1>1. IsCalls(C) /\ CallInv(s, c) /\ Asked(r) /\ Consistent(s)
  BY DEF Served, CallInv, IsCall
<1>2. SoundWrite(s, w) /\ WriteFits(r, c.seen, w)
  BY <1>1, WritesAreSound
<1>3. /\ IsCalls(D) /\ DOMAIN D = DOMAIN C /\ D[i] = d
      /\ \A n \in DOMAIN C : n # i => D[n] = C[n]
  BY <1>1, OneChanged
<1>4. /\ d.request = r /\ d.stage = "answered" /\ d.seen = c.seen /\ d.code = "ok"
      /\ d.result = x /\ d.effect = s.sequence + 1
      /\ d = [request |-> d.request, stage |-> d.stage, seen |-> d.seen, code |-> d.code,
              result |-> d.result, effect |-> d.effect]
  BY DEF Answered
<1>5. /\ t.sequence = s.sequence + 1 /\ s.sequence \in Nat
      /\ t.jobs[w.job] = w.body /\ w.body # Nothing
      /\ w.credential # Nothing => t.credentials[w.job] = w.credential
      /\ w.key # NoKey => /\ s.idempotency[w.key] = Nothing
                          /\ t.idempotency[w.key] = w.record /\ w.record # Nothing
  BY <1>1, <1>2, WriteAdds
<1>6. r.kind # "create" => w.job = r.job /\ w.body.version = r.expected + 1
  BY <1>2 DEF WriteFits
<1>7. ASSUME Keyed(r, c.seen)
      PROVE  /\ k \in Key /\ s.idempotency[k] = Nothing
             /\ t.idempotency[k] # Nothing /\ t.idempotency[k].job = w.job
  <2>1. w.key = k /\ k \in Key /\ w.record.job = w.job
    BY <1>2, <1>7 DEF WriteFits
  <2> QED  BY <1>5, <2>1, NoKeyAssumption
<1>8. /\ r.kind = "create" => x = w.job
      /\ r.kind = "credential" => x = w.credential /\ w.credential # Nothing
      /\ Versioned(r) => x = w.body /\ r.kind # "create"
  BY <1>2 DEF ResultOf, WriteFits, Versioned
<1>9. w.job \in JobId /\ Consistent(t)
      /\ StoredBodies(t) \subseteq StoredBodies(s) \cup {[job |-> w.job, body |-> w.body]}
  BY <1>1, <1>2, ConsistencyStays DEF SoundWrite
<1> HIDE DEF t, D, c, r, x, k, d
<1>10. CallInv(t, d)
  <2>1. c.stage \in {"sent", "routed", "answered"} /\ SawAJob(c)
    BY <1>1 DEF CallInv, IsCall
  <2>2. IsCall(d) /\ SawAJob(d)
    BY <1>1, <1>4, <2>1 DEF IsCall, SawAJob
  <2>3. TookPlace(t, d)
    <3>1. d.effect \in 0..t.sequence /\ d.code = "ok"
      BY <1>4, <1>5
    <3>2. ASSUME Keyed(r, c.seen)
          PROVE  /\ FullKey(r) \in Key /\ t.idempotency[FullKey(r)] # Nothing
                 /\ r.kind = "credential" =>
                      r.job \in JobId /\ t.idempotency[FullKey(r)].job = r.job
      BY <1>6, <1>7, <1>9, <3>2 DEF k
    <3> QED  BY <1>4, <3>1, <3>2 DEF TookPlace
  <2>4. Told(t, d)
    <3>1. ASSUME r.kind = "create", r.key # NoKey
          PROVE  /\ FullKey(r) \in Key /\ t.idempotency[FullKey(r)] # Nothing
                 /\ x = t.idempotency[FullKey(r)].job
      <4>1. Keyed(r, c.seen)
        BY <3>1 DEF Keyed
      <4> QED  BY <1>7, <1>8, <3>1, <4>1 DEF k
    <3>2. ASSUME r.kind = "credential"
          PROVE  r.job \in JobId /\ t.credentials[r.job] # Nothing /\ x = t.credentials[r.job]
      BY <1>5, <1>6, <1>8, <1>9, <3>2
    <3>3. ASSUME Versioned(r) PROVE x.version = r.expected + 1
      BY <1>6, <1>8, <3>3
    <3> QED  BY <1>4, <3>1, <3>2, <3>3 DEF Told
  <2> QED  BY <2>2, <2>3, <2>4 DEF CallInv
<1>11. \A n \in DOMAIN D : CallInv(t, D[n])
  <2>1. ASSUME NEW n \in DOMAIN C, n # i PROVE CallInv(t, D[n])
    BY <1>1, <1>2, <1>3, <2>1, CallKept DEF Served, t
  <2> QED  BY <1>3, <1>10, <2>1
<1>12. OfOneHistory(t, StoredBodies(t) \cup CallBodies(D))
  <2> DEFINE B == StoredBodies(s) \cup CallBodies(C)
             f == [job |-> w.job, body |-> w.body]
  <2>1. ASSUME NEW n \in DOMAIN D
        PROVE  /\ D[n].code = "ok" /\ Versioned(D[n].request) =>
                    [job |-> D[n].request.job, body |-> D[n].result] \in B \cup {f}
               /\ D[n].seen # Nothing =>
                    [job |-> D[n].request.job, body |-> D[n].seen] \in B \cup {f}
    <3>1. CASE n = i
      <4>1. Versioned(r) => [job |-> r.job, body |-> x] = f
        BY <1>6, <1>8
      <4>2. c.seen # Nothing => [job |-> r.job, body |-> c.seen] \in CallBodies(C)
        BY DEF CallBodies, c, r
      <4> QED  BY <1>3, <1>4, <3>1, <4>1, <4>2
    <3>2. CASE n # i
      <4>1. D[n] = C[n] /\ n \in DOMAIN C
        BY <1>3, <3>2
      <4> QED  BY <4>1 DEF CallBodies
    <3> QED  BY <3>1, <3>2
  <2> HIDE DEF B, f
  <2>2. CallBodies(D) \subseteq B \cup {f}
    BY <2>1, CallBodiesIn
  <2>3. StoredBodies(t) \cup CallBodies(D) \subseteq B \cup {f}
    BY <1>9, <2>2 DEF B, f
  <2>4. OfOneHistory(s, B)
    BY DEF Served, B
  <2> QED  BY <1>1, <1>2, <2>3, <2>4, HistoryGrows DEF f, t
<1>13. OneEffectPerKey(D)
  <2>1. ASSUME NEW n \in DOMAIN C, n # i, C[n].effect # 0, Keyed(C[n].request, C[n].seen),
               Keyed(r, c.seen)
        PROVE  FullKey(C[n].request) # k
    BY <1>7, <2>1 DEF Served, CallInv, TookPlace
  <2>2. ASSUME NEW m \in DOMAIN D, NEW n \in DOMAIN D, D[m].effect # 0, D[n].effect # 0,
               Keyed(D[m].request, D[m].seen), Keyed(D[n].request, D[n].seen),
               FullKey(D[m].request) = FullKey(D[n].request), m # n
        PROVE  FALSE
    <3>1. CASE m = i
      BY <1>3, <1>4, <2>1, <2>2, <3>1 DEF k
    <3>2. CASE n = i
      BY <1>3, <1>4, <2>1, <2>2, <3>2 DEF k
    <3>3. CASE m # i /\ n # i
      BY <1>3, <2>2, <3>3 DEF Served, OneEffectPerKey
    <3> QED  BY <3>1, <3>2, <3>3
  <2> QED  BY <2>2 DEF OneEffectPerKey
<1> QED  BY <1>3, <1>9, <1>11, <1>12, <1>13 DEF Served, t, D, d, c, r, x

\* What Answer and Route do to the calls.
LEMMA AnswerGives ==
    ASSUME ServiceInv, NEW i \in DOMAIN calls, NEW code, NEW result, NEW effect,
           Answer(i, code, result, effect)
    PROVE  /\ calls' = With(calls, i, Answered(calls[i], code, result, effect))
           /\ calls'[i] = Answered(calls[i], code, result, effect)
           /\ \A k \in DOMAIN calls : k # i => calls'[k] = calls[k]
<1> DEFINE c == calls[i]
           c1 == [c EXCEPT !.stage = "answered"]
           c2 == [c1 EXCEPT !.code = code]
           c3 == [c2 EXCEPT !.result = result]
           c4 == [c3 EXCEPT !.effect = effect]
<1>1. IsCalls(calls) /\ IsCall(c)
  BY DEF ServiceInv, Served, CallInv
<1>2. c = [request |-> c.request, stage |-> c.stage, seen |-> c.seen, code |-> c.code,
           result |-> c.result, effect |-> c.effect]
  BY <1>1 DEF IsCall
<1>3. calls' = [calls EXCEPT ![i] = c4]
  BY <1>1 DEF IsCalls, Answer
<1> HIDE DEF c
<1>4. c1 = [request |-> c.request, stage |-> "answered", seen |-> c.seen, code |-> c.code,
            result |-> c.result, effect |-> c.effect]
  BY <1>2
<1> HIDE DEF c1
<1>5. c2 = [request |-> c.request, stage |-> "answered", seen |-> c.seen, code |-> code,
            result |-> c.result, effect |-> c.effect]
  BY <1>4
<1> HIDE DEF c2
<1>6. c3 = [request |-> c.request, stage |-> "answered", seen |-> c.seen, code |-> code,
            result |-> result, effect |-> c.effect]
  BY <1>5
<1> HIDE DEF c3
<1>7. c4 = Answered(c, code, result, effect)
  BY <1>6 DEF Answered
<1> HIDE DEF c4
<1>8. calls' = With(calls, i, Answered(c, code, result, effect))
  BY <1>3, <1>7 DEF With
<1> QED  BY <1>1, <1>8, OneChanged DEF c

\* A call once the HTTP layer has read the job.
RoutedCall(c, job) ==
    [request |-> c.request, stage |-> "routed", seen |-> job, code |-> c.code,
     result |-> c.result, effect |-> c.effect]

LEMMA RouteGives ==
    ASSUME ServiceInv, NEW i \in DOMAIN calls, NEW job,
           calls' = [calls EXCEPT ![i].stage = "routed", ![i].seen = job]
    PROVE  /\ calls' = With(calls, i, RoutedCall(calls[i], job))
           /\ calls'[i] = RoutedCall(calls[i], job)
           /\ IsCalls(calls') /\ DOMAIN calls' = DOMAIN calls
           /\ \A k \in DOMAIN calls : k # i => calls'[k] = calls[k]
<1> DEFINE c == calls[i]
           c1 == [c EXCEPT !.stage = "routed"]
           c2 == [c1 EXCEPT !.seen = job]
<1>1. IsCalls(calls) /\ IsCall(c)
  BY DEF ServiceInv, Served, CallInv
<1>2. c = [request |-> c.request, stage |-> c.stage, seen |-> c.seen, code |-> c.code,
           result |-> c.result, effect |-> c.effect]
  BY <1>1 DEF IsCall
<1>3. calls' = [calls EXCEPT ![i] = c2]
  BY <1>1 DEF IsCalls
<1> HIDE DEF c
<1>4. c1 = [request |-> c.request, stage |-> "routed", seen |-> c.seen, code |-> c.code,
            result |-> c.result, effect |-> c.effect]
  BY <1>2
<1> HIDE DEF c1
<1>5. c2 = RoutedCall(c, job)
  BY <1>4 DEF RoutedCall
<1> HIDE DEF c2
<1>6. calls' = With(calls, i, RoutedCall(c, job))
  BY <1>3, <1>5 DEF With
<1>7. /\ IsCalls(With(calls, i, RoutedCall(c, job)))
      /\ DOMAIN With(calls, i, RoutedCall(c, job)) = DOMAIN calls
  BY <1>1, OneChanged
<1>8. IsCalls(calls') /\ DOMAIN calls' = DOMAIN calls
  BY <1>6, <1>7
<1> QED  BY <1>1, <1>6, <1>8, OneChanged DEF c

\* Sending and sending again.
LEMMA SendKeeps == ServiceInv /\ Send => ServiceInv'
<1> SUFFICES ASSUME ServiceInv, Send PROVE ServiceInv'
  OBVIOUS
<1>1. PICK f \in Form, d \in 0..Ahead :
        LET version == IF Exists(store, f.job) THEN store.jobs[f.job].version ELSE 0
            r == [actor |-> f.actor, kind |-> f.kind, job |-> f.job, key |-> f.key,
                  arg |-> f.arg, expected |-> version + d]
        IN  calls' = Append(calls, Call(r))
  BY DEF Send
<1> DEFINE version == IF Exists(store, f.job) THEN store.jobs[f.job].version ELSE 0
           r == [actor |-> f.actor, kind |-> f.kind, job |-> f.job, key |-> f.key,
                 arg |-> f.arg, expected |-> version + d]
<1>2. version \in Nat
  BY DEF ServiceInv, Served, Consistent, JobsAreSound, Exists, IsBody
<1> HIDE DEF version
<1>3. Asked(r)
  BY <1>2, AheadAssumption DEF Asked
<1>4. calls' = Append(calls, Call(r)) /\ store' = store
  BY <1>1 DEF version, Send
<1> HIDE DEF r
<1> QED  BY <1>3, <1>4, CallMade DEF ServiceInv

LEMMA ResendKeeps == ServiceInv /\ Resend => ServiceInv'
<1> SUFFICES ASSUME ServiceInv, Resend PROVE ServiceInv'
  OBVIOUS
<1>1. PICK i \in DOMAIN calls : calls' = Append(calls, Call(calls[i].request))
  BY DEF Resend
<1>2. Asked(calls[i].request) /\ store' = store
  BY DEF ServiceInv, Served, CallInv, IsCall, Resend
<1> QED  BY <1>1, <1>2, CallMade DEF ServiceInv

\* An answer without success or effect.
LEMMA RefusalKeeps ==
    ASSUME ServiceInv, NEW i \in DOMAIN calls, NEW code \in {"refused", "failed"},
           Answer(i, code, Nothing, 0), store' = store
    PROVE  ServiceInv'
<1>1. calls' = With(calls, i, Answered(calls[i], code, Nothing, 0))
  BY AnswerGives
<1>2. Told(store, Answered(calls[i], code, Nothing, 0))
  BY DEF Told, Answered
<1>3. Served(store, With(calls, i, Answered(calls[i], code, Nothing, 0)))
  BY <1>2, AnswerKeeps DEF ServiceInv
<1> QED  BY <1>1, <1>3 DEF ServiceInv

\* The read outside the mutex.
LEMMA RouteKeeps ==
    ASSUME ServiceInv, NEW i \in DOMAIN calls, Route(i)
    PROVE  ServiceInv'
<1> DEFINE r == calls[i].request
           job == store.jobs[r.job]
           d == RoutedCall(calls[i], job)
<1>1. CASE ~ Exists(store, r.job)
  BY <1>1, RefusalKeeps DEF Route
<1>2. CASE Exists(store, r.job)
  <2>1. calls' = [calls EXCEPT ![i].stage = "routed", ![i].seen = job] /\ store' = store
        /\ calls[i].stage = "sent"
    BY <1>2 DEF Route
  <2>2. /\ calls'[i] = d /\ IsCalls(calls') /\ DOMAIN calls' = DOMAIN calls
        /\ \A k \in DOMAIN calls : k # i => calls'[k] = calls[k]
    BY <2>1, RouteGives
  <2>3. /\ CallInv(store, calls[i]) /\ Served(store, calls)
        /\ job # Nothing /\ IsBody(job) /\ r.job \in JobId
    BY <1>2 DEF ServiceInv, Served, Consistent, JobsAreSound, Exists
  <2>4. calls[i].code = "none" /\ calls[i].effect = 0
    BY <2>1, <2>3 DEF CallInv, IsCall, TookPlace
  <2>5. [job |-> r.job, body |-> job] \in StoredBodies(store)
    BY <2>3 DEF StoredBodies
  <2>6. /\ d.request = r /\ d.stage = "routed" /\ d.seen = job /\ d.code = "none"
        /\ d.effect = 0
        /\ d = [request |-> d.request, stage |-> d.stage, seen |-> d.seen, code |-> d.code,
                result |-> d.result, effect |-> d.effect]
    BY <2>4 DEF RoutedCall
  <2>7. store.sequence \in Nat
    BY <2>3 DEF Served, Consistent, IsStore
  <2> HIDE DEF d, job
  <2>8. CallInv(store, d)
    BY <2>3, <2>6, <2>7 DEF CallInv, IsCall, SawAJob, TookPlace, Told
  <2>9. Served(store, calls')
    BY <2>2, <2>3, <2>5, <2>6, <2>8, CallChanged
  <2> QED  BY <2>1, <2>9 DEF ServiceInv
<1> QED  BY <1>1, <1>2

\* A replay.
LEMMA ReplayKeeps ==
    ASSUME ServiceInv, NEW i \in DOMAIN calls, Replay(i)
    PROVE  ServiceInv'
<1> DEFINE r == calls[i].request
           result == ReplayResult(store, r)
           d == Answered(calls[i], "ok", result, 0)
           same == store.idempotency[FullKey(r)].digest = Digest(store, r, calls[i].seen)
<1>1. CASE ~ same
  BY <1>1, RefusalKeeps DEF Replay
<1>2. CASE same
  <2>1. /\ Served(store, calls) /\ Consistent(store) /\ Asked(r) /\ store' = store
        /\ Recorded(store, r, calls[i].seen)
    BY DEF ServiceInv, Served, CallInv, IsCall, Replay
  <2>2. calls' = With(calls, i, d)
    BY <1>2, AnswerGives DEF Replay
  <2>3. /\ FullKey(r) \in Key /\ store.idempotency[FullKey(r)] # Nothing
        /\ r.kind = "create" => result = store.idempotency[FullKey(r)].job
        /\ r.kind = "credential" => /\ r.job \in JobId /\ store.credentials[r.job] # Nothing
                                    /\ result = store.credentials[r.job]
        /\ Versioned(r) => /\ result.version = r.expected + 1
                           /\ [job |-> r.job, body |-> result] \in StoredBodies(store)
    BY <1>2, <2>1, ReplayTells
  <2>4. d.request = r /\ d.result = result
    BY DEF Answered
  <2> HIDE DEF d, result
  <2>5. Told(store, d)
    BY <2>3, <2>4 DEF Told
  <2>6. Served(store, With(calls, i, d))
    BY <2>1, <2>3, <2>5, AnswerKeeps DEF d
  <2> QED  BY <2>1, <2>2, <2>6 DEF ServiceInv
<1> QED  BY <1>1, <1>2

\* A call that is ready has had no answer.
LEMMA ReadyCalls ==
    ASSUME ServiceInv, NEW i \in DOMAIN calls, Ready(i)
    PROVE  /\ calls[i].stage # "answered" /\ calls[i].effect = 0 /\ calls[i].code = "none"
           /\ Routed(calls[i].request) => calls[i].seen # Nothing /\ IsBody(calls[i].seen)
BY DEF Ready, ServiceInv, Served, CallInv, IsCall, TookPlace, SawAJob

\* A change that is saved, or not.
LEMMA HandleStep ==
    ASSUME ServiceInv, NEW i \in DOMAIN calls, Handle(i)
    PROVE  ServiceInv'
<1> DEFINE r == calls[i].request
<1>1. PICK w \in Writes(store, r, calls[i].seen) :
         \/ /\ store' = Applied(store, w)
            /\ Answer(i, "ok", ResultOf(r, w), store.sequence + 1)
         \/ /\ UNCHANGED store
            /\ Answer(i, "failed", Nothing, 0)
  BY DEF Handle, ResultOf
<1>2. CASE store' = Applied(store, w) /\ Answer(i, "ok", ResultOf(r, w), store.sequence + 1)
  <2> DEFINE d == Answered(calls[i], "ok", ResultOf(r, w), store.sequence + 1)
  <2>1. calls' = With(calls, i, d)
    BY <1>2, AnswerGives
  <2>2. calls[i].stage # "answered" /\ ~ Recorded(store, r, calls[i].seen)
    BY ReadyCalls DEF Handle
  <2>3. Served(Applied(store, w), With(calls, i, d))
    BY <2>2, HandleKeeps DEF ServiceInv
  <2> QED  BY <1>2, <2>1, <2>3 DEF ServiceInv
<1>3. CASE UNCHANGED store /\ Answer(i, "failed", Nothing, 0)
  BY <1>3, RefusalKeeps
<1> QED  BY <1>1, <1>2, <1>3

\* The invariant is inductive, and holds.
LEMMA ServiceInvKept == ServiceInv /\ [Next]_vars => ServiceInv'
<1> SUFFICES ASSUME ServiceInv, [Next]_vars PROVE ServiceInv'
  OBVIOUS
<1>1. CASE Send
  BY <1>1, SendKeeps
<1>2. CASE Resend
  BY <1>2, ResendKeeps
<1>3. ASSUME NEW i \in DOMAIN calls, Route(i) PROVE ServiceInv'
  BY <1>3, RouteKeeps
<1>4. ASSUME NEW i \in DOMAIN calls, Replay(i) PROVE ServiceInv'
  BY <1>4, ReplayKeeps
<1>5. ASSUME NEW i \in DOMAIN calls, Handle(i) PROVE ServiceInv'
  BY <1>5, HandleStep
<1>6. ASSUME NEW i \in DOMAIN calls, Refuse(i) PROVE ServiceInv'
  BY <1>6, RefusalKeeps DEF Refuse
<1>7. CASE UNCHANGED vars
  BY <1>7 DEF vars, ServiceInv
<1> QED  BY <1>1, <1>2, <1>3, <1>4, <1>5, <1>6, <1>7 DEF Next

LEMMA ServiceInvInit == Init => ServiceInv
<1> SUFFICES ASSUME Init PROVE ServiceInv
  OBVIOUS
<1>1. Consistent(store) /\ calls = <<>>
  BY StoreAssumption DEF Init
<1>2. DOMAIN calls = {} /\ calls \in Seq({calls[i] : i \in DOMAIN calls})
  BY <1>1
<1>3. CallBodies(calls) = {}
  BY <1>2 DEF CallBodies
<1> QED  BY <1>1, <1>2, <1>3 DEF ServiceInv, Served, IsCalls, Consistent, OneEffectPerKey

LEMMA ServiceInvHolds == Spec => []ServiceInv
BY ServiceInvInit, ServiceInvKept, PTL DEF Spec

-----------------------------------------------------------------------------
(* What the invariant says of the calls. *)

\* Calls are made and answered in their stages, for requests clients make, and an
\* event a call has caused is in the log, whatever arrives, is lost or sent again.
THEOREM CallsAreOfRequests == Spec => []TypeOK
<1>1. ServiceInv => TypeOK
  <2> SUFFICES ASSUME ServiceInv, NEW i \in DOMAIN calls
               PROVE  /\ calls[i].request.kind \in Kind /\ calls[i].request.expected \in Nat
                      /\ calls[i].request.job \in JobId \cup {Nothing}
                      /\ calls[i].stage \in {"sent", "routed", "answered"}
                      /\ calls[i].code \in {"none", "ok", "refused", "failed"}
                      /\ calls[i].effect \in 0..store.sequence
    BY DEF TypeOK
  <2>1. IsCall(calls[i]) /\ TookPlace(store, calls[i])
    BY DEF ServiceInv, Served, CallInv
  <2> QED  BY <2>1, KeysOfRequests DEF IsCall, TookPlace, Asked
<1> QED  BY <1>1, ServiceInvHolds, PTL

\* Of all the requests with one key, retried, lost or sent by mistake, one takes
\* effect: the record of the first is there before any other is handled.
THEOREM KeysAreUsedOnce == Spec => []KeyUsedOnce
<1>1. ServiceInv => KeyUsedOnce
  BY DEF ServiceInv, Served, OneEffectPerKey, KeyUsedOnce
<1> QED  BY <1>1, ServiceInvHolds, PTL

\* Copies of a request that succeed are told the same: what the record holds, the
\* credential, or the one job there has been at the version after the one named.
THEOREM CopiesAreToldTheSame == Spec => []SameRequestSameAnswer
<1>1. ServiceInv => SameRequestSameAnswer
  <2> SUFFICES ASSUME ServiceInv, NEW i \in DOMAIN calls, NEW k \in DOMAIN calls,
                      calls[i].request = calls[k].request,
                      calls[i].request.kind = "create" => calls[i].request.key # NoKey,
                      calls[i].code = "ok", calls[k].code = "ok"
               PROVE  calls[i].result = calls[k].result
    BY DEF SameRequestSameAnswer
  <2> DEFINE r == calls[i].request
  <2>1. /\ Told(store, calls[i]) /\ Told(store, calls[k])
        /\ OfOneHistory(store, StoredBodies(store) \cup CallBodies(calls))
    BY DEF ServiceInv, Served, CallInv
  <2>2. CASE r.kind = "create"
    BY <2>1, <2>2 DEF Told
  <2>3. CASE r.kind = "credential"
    BY <2>1, <2>3 DEF Told
  <2>4. CASE Versioned(r)
    <3> DEFINE a == [job |-> r.job, body |-> calls[i].result]
               b == [job |-> r.job, body |-> calls[k].result]
    <3>1. a \in CallBodies(calls) /\ b \in CallBodies(calls)
      BY <2>4 DEF CallBodies
    <3>2. calls[i].result.version = r.expected + 1 /\ calls[k].result.version = r.expected + 1
      BY <2>1, <2>4 DEF Told
    <3>3. a.job = b.job /\ a.body.version = b.body.version
      BY <3>2
    <3>4. a.body = b.body
      BY <2>1, <3>1, <3>3 DEF OfOneHistory
    <3> QED  BY <3>4
  <2> QED  BY <2>2, <2>3, <2>4 DEF Versioned
<1> QED  BY <1>1, ServiceInvHolds, PTL

\* The credential of a consistent store attests the last candidate and the events
\* before its own issue.
LEMMA SoundCredential ==
    ASSUME NEW s, Consistent(s), NEW j \in JobId, s.credentials[j] # Nothing
    PROVE  /\ Exists(s, j) /\ IsBody(s.jobs[j]) /\ s.credentials[j].issuedBy # "forger"
           /\ s.credentials[j]
                = [revision         |-> Len(s.jobs[j].candidates),
                   contentDigest    |-> s.jobs[j].cues,
                   eventChainDigest |-> Attestable(s, j),
                   issuedBy         |-> s.credentials[j].issuedBy]
           /\ Attestable(s, j) # EventsOf(s, j)
           /\ CredentialValid(s, j)
<1> DEFINE b == s.jobs[j]
           c == s.credentials[j]
           E == EventsOf(s, j)
           n == Len(b.candidates)
<1>1. /\ b # Nothing /\ b.status = "credentialed" /\ c.issuedBy # "forger"
      /\ IsBody(b) /\ b.candidates # <<>> /\ b.cues = b.candidates[n]
  BY DEF Consistent, CredentialsAreSound, JobsAreSound
<1>2. PICK e \in Newest(E) :
        /\ e.type = "credential.issued"
        /\ c = [revision |-> n, contentDigest |-> b.cues,
                eventChainDigest |-> E \ {e}, issuedBy |-> c.issuedBy]
  BY DEF Consistent, CredentialsAreSound
<1>3. ASSUME NEW f \in Newest(E) PROVE f = e
  <2>1. e \in E /\ f \in E /\ f.sequence <= e.sequence /\ e.sequence <= f.sequence
    BY <1>2, <1>3 DEF Newest
  <2>2. PICK x \in DOMAIN s.events : e = s.events[x]
    BY <2>1, EventOfJob
  <2>3. PICK y \in DOMAIN s.events : f = s.events[y]
    BY <2>1, EventOfJob
  <2>4. s.events[x].sequence = x /\ s.events[y].sequence = y /\ x \in Nat /\ y \in Nat
    BY DEF Consistent, IsStore
  <2> QED  BY <2>1, <2>2, <2>3, <2>4
<1>4. e \in E /\ Attestable(s, j) = E \ {e}
  <2>1. {f \in Newest(E) : f.type = "credential.issued"} = {e}
    BY <1>2, <1>3
  <2> QED  BY <1>2, <2>1 DEF Attestable, Newest
<1> HIDE DEF b, c, E
<1>5. /\ c.revision = n /\ c.contentDigest = b.cues /\ c.eventChainDigest = Attestable(s, j)
      /\ c = [revision |-> n, contentDigest |-> b.cues,
              eventChainDigest |-> Attestable(s, j), issuedBy |-> c.issuedBy]
  BY <1>2, <1>4
<1>6. n \in DOMAIN b.candidates
  BY <1>1 DEF IsBody
<1>7. CredentialValid(s, j)
  BY <1>1, <1>5, <1>6 DEF CredentialValid, ContentHolds, ChainHolds, b, c
<1>8. Attestable(s, j) # E
  BY <1>4
<1> QED  BY <1>1, <1>5, <1>7, <1>8 DEF Exists, b, c, E

\* A credential verifies from its issue on: no request that is still under way and
\* none that is sent later adds an event to its job or touches its candidate.
THEOREM CredentialsKeepVerifying == Spec => []CredentialVerifies
<1>1. ServiceInv => CredentialVerifies
  BY SoundCredential DEF ServiceInv, Served, CredentialVerifies
<1> QED  BY <1>1, ServiceInvHolds, PTL

\* A batch of a copy for a job nobody knows and another copy.
LEMMA BatchOfTwo ==
    ASSUME NEW s, NEW u, NEW copy, FailedChecks(s, u.job, u) = {"credentialFormat"}
    PROVE  /\ FailedChecks(s, copy.job, copy) = {} =>
                /\ BatchVerdict(s, <<u, copy>>).valid = 1
                /\ BatchVerdict(s, <<u, copy>>).failures
                     = [check \in {"credentialFormat"} |-> 1]
           /\ FailedChecks(s, copy.job, copy) # {} => BatchVerdict(s, <<u, copy>>).valid = 0
<1> DEFINE copies == <<u, copy>>
           F == FailedChecks(s, copy.job, copy)
           failed == [i \in DOMAIN copies |-> FailedChecks(s, copies[i].job, copies[i])]
           Valid == {i \in DOMAIN copies : failed[i] = {}}
           Failed(check) == {i \in DOMAIN copies : check \in failed[i]}
           All == UNION {failed[i] : i \in DOMAIN copies}
<1>1. DOMAIN copies = {1, 2} /\ copies[1] = u /\ copies[2] = copy
  OBVIOUS
<1>2. BatchVerdict(s, copies)
        = [valid    |-> Cardinality(Valid),
           failures |-> [check \in All |-> Cardinality(Failed(check))]]
  BY DEF BatchVerdict
<1> HIDE DEF copies
<1>3. failed[1] = {"credentialFormat"} /\ failed[2] = F
  BY <1>1
<1>4. DOMAIN failed = {1, 2}
  BY <1>1
<1> HIDE DEF failed, F
<1>5. ASSUME F = {}
      PROVE  /\ Valid = {2} /\ All = {"credentialFormat"}
             /\ Failed("credentialFormat") = {1}
  <2>1. Valid = {2}
    BY <1>1, <1>3, <1>5
  <2>2. All = {"credentialFormat"}
    BY <1>1, <1>3, <1>5
  <2>3. Failed("credentialFormat") = {1}
    BY <1>1, <1>3, <1>5
  <2> QED  BY <2>1, <2>2, <2>3
<1>6. ASSUME F # {} PROVE Valid = {}
  BY <1>1, <1>3, <1>6
<1>7. BatchVerdict(s, copies).valid = Cardinality(Valid)
  BY <1>2
<1>8. ASSUME F = {}
      PROVE  BatchVerdict(s, copies).failures = [check \in {"credentialFormat"} |-> 1]
  <2>1. BatchVerdict(s, copies).failures = [check \in All |-> Cardinality(Failed(check))]
    BY <1>2
  <2> HIDE DEF All, Failed
  <2>2. All = {"credentialFormat"} /\ Cardinality(Failed("credentialFormat")) = 1
    BY <1>5, <1>8, FS_Singleton
  <2>3. \A check \in All : Cardinality(Failed(check)) = 1
    BY <2>2
  <2> QED  BY <2>1, <2>2, <2>3
<1> HIDE DEF Valid
<1>9. F = {} => BatchVerdict(s, copies).valid = 1
  BY <1>5, <1>7, FS_Singleton
<1>10. F # {} => BatchVerdict(s, copies).valid = 0
  BY <1>6, <1>7, FS_EmptySet
<1> QED  BY <1>8, <1>9, <1>10 DEF copies, F

\* A copy verifies if it is the credential, and not when it was changed in one place,
\* even if it agrees with itself: the store keeps the digest it was issued with.
THEOREM ChangedCopiesFail == Spec => []OnlyTheCredentialVerifies
<1>1. ServiceInv => OnlyTheCredentialVerifies
  <2> SUFFICES ASSUME ServiceInv, NEW j \in JobId, store.credentials[j] # Nothing
               PROVE  LET genuine == CopyOf(store, j)
                          unknown == [genuine EXCEPT !.job = Nothing, !.id = Nothing]
                          Valid(copy) == IF BatchRefused(<<unknown, copy>>) THEN 0
                                         ELSE BatchVerdict(store, <<unknown, copy>>).valid
                      IN  /\ Valid(genuine) = 1
                          /\ BatchVerdict(store, <<unknown, genuine>>).failures =
                               [check \in {"credentialFormat"} |-> 1]
                          /\ \A copy \in Forged(store, j) : Valid(copy) = 0
                          /\ BatchRefused(<<genuine, genuine>>)
    BY DEF OnlyTheCredentialVerifies
  <2> DEFINE s == store
             c == store.credentials[j]
             b == store.jobs[j]
             E == EventsOf(store, j)
             genuine == CopyOf(s, j)
             unknown == [genuine EXCEPT !.job = Nothing, !.id = Nothing]
  <2>1. /\ Exists(s, j) /\ IsBody(b) /\ CredentialValid(s, j)
        /\ c = [revision |-> Len(b.candidates), contentDigest |-> b.cues,
                eventChainDigest |-> Attestable(s, j), issuedBy |-> c.issuedBy]
        /\ c.issuedBy # "forger" /\ Attestable(s, j) # E
    BY SoundCredential DEF ServiceInv, Served
  <2> HIDE DEF s, c, b, E
  <2>2. genuine = [job |-> j, id |-> j, body |-> c, digest |-> c] /\ c # Nothing
    BY DEF CopyOf, s, c
  <2>3. unknown = [job |-> Nothing, id |-> Nothing, body |-> c, digest |-> c]
    <3> HIDE DEF genuine
    <3> DEFINE first == [genuine EXCEPT !.job = Nothing]
    <3>1. first = [job |-> Nothing, id |-> j, body |-> c, digest |-> c]
      BY <2>2
    <3>2. unknown = [first EXCEPT !.id = Nothing]
      OBVIOUS
    <3> HIDE DEF first, unknown
    <3> QED  BY <3>1, <3>2
  <2> HIDE DEF genuine, unknown
  <2>4. FailedChecks(s, unknown.job, unknown) = {"credentialFormat"}
    BY <2>3, NothingAssumption DEF FailedChecks, Exists
  <2>5. FailedChecks(s, genuine.job, genuine) = {}
    <3>1. /\ ContentHolds(s, j, c) /\ ChainHolds(s, j, c)
          /\ c.revision \in DOMAIN s.jobs[j].candidates
      BY <2>1 DEF CredentialValid, ContentHolds, s, c
    <3>2. SealHolds(s, j, genuine)
      BY <2>2 DEF SealHolds, s, c
    <3>3. Exists(s, j) /\ s.credentials[j] # Nothing
      BY <2>1 DEF s, c
    <3> QED  BY <2>2, <3>1, <3>2, <3>3 DEF FailedChecks
  <2>6. ASSUME NEW copy, copy.job = j, copy.id = j, ~ SealHolds(s, j, copy)
        PROVE  FailedChecks(s, copy.job, copy) # {}
    <3>1. Exists(s, j) /\ s.credentials[j] # Nothing
      BY <2>1 DEF s, c
    <3>2. "credentialDigest" \in FailedChecks(s, j, copy)
      BY <2>6, <3>1 DEF FailedChecks
    <3> QED  BY <2>6, <3>2
  <2> DEFINE bodies == {[c EXCEPT !.revision = @ + 1], [c EXCEPT !.contentDigest = "forged"],
                        [c EXCEPT !.eventChainDigest = E], [c EXCEPT !.issuedBy = "forger"]}
  <2>7. c \notin bodies
    <3>1. Len(b.candidates) \in Nat /\ b.cues # "forged"
      <4>1. b.cues \in Cues \cup {NoCues} /\ b.candidates \in Seq(Cues \cup {NoCues})
        BY <2>1 DEF IsBody
      <4>2. NoCues # "forged"
        BY DEF NoCues
      <4> QED  BY <4>1, <4>2, CuesAssumption
    <3>2. /\ c.revision = Len(b.candidates) /\ c.contentDigest = b.cues
          /\ c.eventChainDigest = Attestable(s, j)
      BY <2>1
    <3>3. /\ DOMAIN c = {"revision", "contentDigest", "eventChainDigest", "issuedBy"}
      BY <2>1
    <3>4. [c EXCEPT !.revision = @ + 1].revision # c.revision
      BY <3>1, <3>2, <3>3
    <3>5. [c EXCEPT !.contentDigest = "forged"].contentDigest # c.contentDigest
      BY <3>1, <3>2, <3>3
    <3>6. [c EXCEPT !.eventChainDigest = E].eventChainDigest # c.eventChainDigest
      BY <2>1, <3>2, <3>3
    <3>7. [c EXCEPT !.issuedBy = "forger"].issuedBy # c.issuedBy
      BY <2>1, <3>3
    <3> QED  BY <3>4, <3>5, <3>6, <3>7
  <2>8. Forged(s, j) = {[genuine EXCEPT !.body = d] : d \in bodies}
                       \cup {[genuine EXCEPT !.body = d, !.digest = d] : d \in bodies}
                       \cup {[genuine EXCEPT !.digest = Nothing], [genuine EXCEPT !.id = NoKey]}
    BY DEF Forged, genuine, c, E, s
  <2> HIDE DEF bodies
  <2>9. ASSUME NEW copy \in Forged(s, j)
        PROVE  copy.job = j /\ FailedChecks(s, copy.job, copy) # {}
    <3>1. CASE copy \in {[genuine EXCEPT !.body = d] : d \in bodies}
      <4>1. PICK d \in bodies : copy = [genuine EXCEPT !.body = d]
        BY <3>1
      <4>2. copy = [job |-> j, id |-> j, body |-> d, digest |-> c]
        BY <2>2, <4>1
      <4>3. d # c
        BY <2>7
      <4> QED  BY <2>6, <4>2, <4>3 DEF SealHolds
    <3>2. CASE copy \in {[genuine EXCEPT !.body = d, !.digest = d] : d \in bodies}
      <4>1. PICK d \in bodies : copy = [genuine EXCEPT !.body = d, !.digest = d]
        BY <3>2
      <4>2. copy = [job |-> j, id |-> j, body |-> d, digest |-> d]
        BY <2>2, <4>1
      <4>3. d # c
        BY <2>7
      <4> QED  BY <2>6, <4>2, <4>3 DEF SealHolds, s, c
    <3>3. CASE copy = [genuine EXCEPT !.digest = Nothing]
      <4>1. copy = [job |-> j, id |-> j, body |-> c, digest |-> Nothing]
        BY <2>2, <3>3
      <4> QED  BY <2>2, <2>6, <4>1 DEF SealHolds
    <3>4. CASE copy = [genuine EXCEPT !.id = NoKey]
      <4>1. copy = [job |-> j, id |-> NoKey, body |-> c, digest |-> c]
        BY <2>2, <3>4
      <4>2. copy.id # j /\ copy.job = j /\ Exists(s, j) /\ s.credentials[j] # Nothing
        BY <2>1, <4>1, NameAssumption DEF s, c
      <4>3. FailedChecks(s, j, copy) = {"credentialIdentity"}
        BY <4>2 DEF FailedChecks
      <4> QED  BY <4>2, <4>3
    <3> QED  BY <2>8, <2>9, <3>1, <3>2, <3>3, <3>4
  <2>10. ~ BatchRefused(<<unknown, genuine>>)
    <3>1. /\ Len(<<unknown, genuine>>) \in 1..BatchLimit /\ DOMAIN <<unknown, genuine>> = {1, 2}
          /\ <<unknown, genuine>>[1] = unknown /\ <<unknown, genuine>>[2] = genuine
      BY DEF BatchLimit
    <3>2. unknown.job # genuine.job /\ unknown.id # genuine.id
      BY <2>2, <2>3, NothingAssumption
    <3> QED  BY <3>1, <3>2 DEF BatchRefused
  <2>11. BatchRefused(<<genuine, genuine>>)
    BY DEF BatchRefused
  <2>12. /\ BatchVerdict(s, <<unknown, genuine>>).valid = 1
         /\ BatchVerdict(s, <<unknown, genuine>>).failures
              = [check \in {"credentialFormat"} |-> 1]
    BY <2>4, <2>5, BatchOfTwo
  <2>13. \A copy \in Forged(s, j) : BatchVerdict(s, <<unknown, copy>>).valid = 0
    BY <2>4, <2>9, BatchOfTwo
  <2> QED  BY <2>10, <2>11, <2>12, <2>13 DEF s, genuine, unknown
<1> QED  BY <1>1, ServiceInvHolds, PTL

-----------------------------------------------------------------------------
(* What the steps do. *)

\* A step is of one call, and only a handled one changes the store.
LEMMA OneCallAtATime ==
    ASSUME ServiceInv, Next, NEW i \in DOMAIN calls
    PROVE  calls'[i] = calls[i] \/ Route(i) \/ Replay(i) \/ Handle(i) \/ Refuse(i)
<1>1. IsCalls(calls)
  BY DEF ServiceInv, Served
<1>2. CASE Send \/ Resend
  <2>1. PICK c : calls' = Append(calls, c)
    BY <1>2 DEF Send, Resend
  <2> QED  BY <1>1, <2>1 DEF IsCalls
<1>3. ASSUME NEW k \in DOMAIN calls, k # i, Route(k) \/ Replay(k) \/ Handle(k) \/ Refuse(k)
      PROVE  calls'[i] = calls[i]
  <2>1. CASE \E code, result, effect : Answer(k, code, result, effect)
    BY <1>3, <2>1, AnswerGives
  <2>2. CASE \E job : calls' = [calls EXCEPT ![k].stage = "routed", ![k].seen = job]
    BY <1>3, <2>2, RouteGives
  <2> QED  BY <1>3, <2>1, <2>2 DEF Route, Replay, Handle, Refuse
<1> QED  BY <1>2, <1>3 DEF Next

\* When the request of a call took effect, what was done and its key are on record.
LEMMA IssueOnRecord ==
    ASSUME ServiceInv, NEW i \in DOMAIN calls, calls[i].request.kind = "credential",
           TookEffect(calls[i].request)
    PROVE  LET r == calls[i].request IN
           /\ Recorded(store, r, calls[i].seen)
           /\ store.idempotency[FullKey(r)].digest = Digest(store, r, calls[i].seen)
<1> DEFINE r == calls[i].request
           k == FullKey(r)
           rec == store.idempotency[k]
<1>1. PICK n \in DOMAIN calls : calls[n].request = r /\ calls[n].effect # 0
  BY DEF TookEffect
<1>2. Asked(r) /\ TookPlace(store, calls[n]) /\ RecordsAreSound(store)
  BY DEF ServiceInv, Served, CallInv, IsCall, Consistent
<1>3. Keyed(r, calls[n].seen) /\ Keyed(r, calls[i].seen)
  BY DEF Keyed
<1>4. k \in Key /\ rec # Nothing /\ rec.job = r.job /\ k[1] = "credential" /\ k[2] = r.actor
  BY <1>1, <1>2, <1>3, KeysOfRequests DEF TookPlace
<1>5. RecordHolds(store, k, rec)
  BY <1>2, <1>4 DEF RecordsAreSound
<1> HIDE DEF k, rec
<1>6. /\ rec.job \in JobId /\ store.jobs[rec.job] # Nothing
      /\ rec.digest = <<rec.job, Len(store.jobs[rec.job].candidates), k[2]>>
  BY <1>4, <1>5 DEF RecordHolds
<1>7. Recorded(store, r, calls[i].seen)
  BY <1>3, <1>4, <1>6 DEF Recorded, Exists, rec, k
<1>8. rec.digest = Digest(store, r, calls[i].seen)
  BY <1>4, <1>6 DEF Digest
<1> QED  BY <1>7, <1>8 DEF rec, k

\* An issue that took effect is confirmed to whoever sends the request again, although
\* the job takes no other by then: its record answers before the job is asked.
THEOREM IssuesAreConfirmed == Spec => IssueReplays
<1> DEFINE A == \A i \in DOMAIN calls :
                   calls[i].request.kind = "credential" => ReplayConfirmed(i)
<1>1. ServiceInv /\ [Next]_vars => [A]_vars
  <2> SUFFICES ASSUME ServiceInv, Next, NEW i \in DOMAIN calls,
                      calls[i].request.kind = "credential", TookEffect(calls[i].request),
                      AnsweredNow(i)
               PROVE  calls'[i].code = "ok"
    BY DEF ReplayConfirmed, vars
  <2> DEFINE r == calls[i].request
  <2>1. /\ Recorded(store, r, calls[i].seen)
        /\ store.idempotency[FullKey(r)].digest = Digest(store, r, calls[i].seen)
    BY IssueOnRecord
  <2>2. calls'[i] # calls[i] /\ ~ Routed(r)
    BY DEF AnsweredNow, Routed
  <2>3. Replay(i)
    BY <2>1, <2>2, OneCallAtATime DEF Handle, Refuse, Route
  <2>4. Answer(i, "ok", ReplayResult(store, r), 0)
    BY <2>1, <2>3 DEF Replay
  <2>5. calls'[i] = Answered(calls[i], "ok", ReplayResult(store, r), 0)
    BY <2>4, AnswerGives
  <2> QED  BY <2>5 DEF Answered
<1>2. Spec => [][Next]_vars /\ []ServiceInv
  BY ServiceInvHolds, PTL DEF Spec
<1> QED  BY <1>1, <1>2, PTL DEF IssueReplays

-----------------------------------------------------------------------------
(* Clients who name no version they have not read.                          *)

\* The request of c names no later version than that of its job, now or when it was
\* read outside the mutex.
NoLater(s, c) ==
    /\ c.request.expected <= IF Exists(s, c.request.job) THEN s.jobs[c.request.job].version
                                                         ELSE 0
    /\ c.seen # Nothing => c.request.expected <= c.seen.version

NotAhead == \A i \in DOMAIN calls : NoLater(store, calls[i])

\* The write behind a step that changes the store.
LEMMA HandledWrite ==
    ASSUME ServiceInv, Next, store' # store
    PROVE  \E i \in DOMAIN calls : \E w \in Writes(store, calls[i].request, calls[i].seen) :
             /\ Ready(i) /\ ~ Recorded(store, calls[i].request, calls[i].seen)
             /\ store' = Applied(store, w)
             /\ Answer(i, "ok", ResultOf(calls[i].request, w), store.sequence + 1)
             /\ SoundWrite(store, w) /\ WriteFits(calls[i].request, calls[i].seen, w)
<1>1. PICK i \in DOMAIN calls : Handle(i)
  BY DEF Next, Send, Resend, Route, Replay, Refuse
<1>2. PICK w \in Writes(store, calls[i].request, calls[i].seen) :
        /\ store' = Applied(store, w)
        /\ Answer(i, "ok", ResultOf(calls[i].request, w), store.sequence + 1)
  BY <1>1 DEF Handle, ResultOf
<1>3. Ready(i) /\ ~ Recorded(store, calls[i].request, calls[i].seen)
  BY <1>1 DEF Handle
<1>4. Consistent(store) /\ Asked(calls[i].request)
  BY DEF ServiceInv, Served, CallInv, IsCall
<1> QED  BY <1>2, <1>3, <1>4, WritesAreSound

\* Versions do not go back.
LEMMA VersionsGrow ==
    ASSUME ServiceInv, [Next]_vars, NEW j, NEW n \in Nat,
           n <= IF Exists(store, j) THEN store.jobs[j].version ELSE 0
    PROVE  n <= IF Exists(store', j) THEN store'.jobs[j].version ELSE 0
<1>1. CASE store' = store
  BY <1>1
<1>2. CASE store' # store
  <2>1. PICK w : SoundWrite(store, w) /\ store' = Applied(store, w)
    BY <1>2, HandledWrite DEF vars
  <2>2. Consistent(store)
    BY DEF ServiceInv, Served
  <2> DEFINE t == Applied(store, w)
  <2>3. \A i \in JobId : store.jobs[i] # Nothing =>
           /\ t.jobs[i] # Nothing /\ t.jobs[i].version >= store.jobs[i].version
           /\ store.jobs[i].version \in Nat /\ t.jobs[i].version \in Nat
    BY <2>1, <2>2, WriteAdds
  <2>4. Consistent(t)
    BY <2>1, <2>2, ConsistencyStays
  <2>5. Exists(t, j) => t.jobs[j].version \in Nat
    BY <2>4 DEF Consistent, JobsAreSound, Exists, IsBody
  <2> HIDE DEF t
  <2>6. n <= IF Exists(t, j) THEN t.jobs[j].version ELSE 0
    <3>1. CASE Exists(store, j)
      BY <2>3, <3>1 DEF Exists
    <3>2. CASE ~ Exists(store, j)
      BY <2>5, <3>2
    <3> QED  BY <3>1, <3>2
  <2> QED  BY <2>1, <2>6 DEF t
<1> QED  BY <1>1, <1>2

\* Who has read the version they name has read it still when the job goes on.
LEMMA NotAheadKept ==
    ASSUME Ahead = 0, ServiceInv, NotAhead, [Next]_vars
    PROVE  NotAhead'
<1>1. /\ IsCalls(calls) /\ \A i \in DOMAIN calls : calls[i].request.expected \in Nat
  BY DEF ServiceInv, Served, CallInv, IsCall, Asked
<1>2. ASSUME NEW c, c.request.expected \in Nat, NoLater(store, c) PROVE NoLater(store', c)
  BY <1>2, VersionsGrow DEF NoLater
<1>3. CASE \E i \in DOMAIN calls : Route(i) \/ Replay(i) \/ Handle(i) \/ Refuse(i)
  <2>1. PICK k \in DOMAIN calls : Route(k) \/ Replay(k) \/ Handle(k) \/ Refuse(k)
    BY <1>3
  <2>2. CASE \E code, result, effect : Answer(k, code, result, effect)
    <3>1. PICK code, result, effect : Answer(k, code, result, effect)
      BY <2>2
    <3>2. /\ calls' = With(calls, k, Answered(calls[k], code, result, effect))
          /\ calls'[k] = Answered(calls[k], code, result, effect)
          /\ \A i \in DOMAIN calls : i # k => calls'[i] = calls[i]
      BY <3>1, AnswerGives
    <3>3. DOMAIN calls' = DOMAIN calls
      BY <1>1, <3>2, OneChanged
    <3>4. calls'[k].request = calls[k].request /\ calls'[k].seen = calls[k].seen
      BY <3>2 DEF Answered
    <3>5. NoLater(store, calls'[k])
      BY <3>4 DEF NotAhead, NoLater
    <3> QED  BY <1>1, <1>2, <3>2, <3>3, <3>4, <3>5 DEF NotAhead
  <2>3. CASE /\ Exists(store, calls[k].request.job) /\ store' = store
             /\ calls' = [calls EXCEPT ![k].stage = "routed",
                                       ![k].seen = store.jobs[calls[k].request.job]]
    <3> DEFINE job == store.jobs[calls[k].request.job]
    <3>1. /\ calls'[k] = RoutedCall(calls[k], job) /\ DOMAIN calls' = DOMAIN calls
          /\ \A i \in DOMAIN calls : i # k => calls'[i] = calls[i]
      BY <2>3, RouteGives
    <3>2. calls'[k].request = calls[k].request /\ calls'[k].seen = job
      BY <3>1 DEF RoutedCall
    <3>3. NoLater(store, calls'[k])
      BY <2>3, <3>2 DEF NotAhead, NoLater
    <3> QED  BY <2>3, <3>1, <3>3 DEF NotAhead
  <2> QED  BY <2>1, <2>2, <2>3 DEF Route, Replay, Handle, Refuse
<1>4. ASSUME NEW r, calls' = Append(calls, Call(r)), store' = store,
             r.expected <= IF Exists(store, r.job) THEN store.jobs[r.job].version ELSE 0
      PROVE  NotAhead'
  <2>1. NoLater(store, Call(r))
    BY <1>4 DEF NoLater, Call
  <2>2. \A i \in DOMAIN calls' :
           calls'[i] = Call(r) \/ (i \in DOMAIN calls /\ calls'[i] = calls[i])
    BY <1>1, <1>4 DEF IsCalls
  <2> QED  BY <1>4, <2>1, <2>2 DEF NotAhead
<1>5. CASE Send
  <2>1. PICK f \in Form, d \in 0..Ahead :
          LET version == IF Exists(store, f.job) THEN store.jobs[f.job].version ELSE 0
              r == [actor |-> f.actor, kind |-> f.kind, job |-> f.job, key |-> f.key,
                    arg |-> f.arg, expected |-> version + d]
          IN  calls' = Append(calls, Call(r))
    BY <1>5 DEF Send
  <2> DEFINE version == IF Exists(store, f.job) THEN store.jobs[f.job].version ELSE 0
             r == [actor |-> f.actor, kind |-> f.kind, job |-> f.job, key |-> f.key,
                   arg |-> f.arg, expected |-> version + d]
  <2>2. version \in Nat /\ d = 0
    <3>1. version \in Nat
      BY DEF ServiceInv, Served, Consistent, JobsAreSound, Exists, IsBody
    <3>2. d = 0
      OBVIOUS
    <3> QED  BY <3>1, <3>2
  <2>3. calls' = Append(calls, Call(r)) /\ store' = store
    BY <1>5, <2>1 DEF Send
  <2> HIDE DEF version
  <2>4. r.job = f.job /\ r.expected <= version
    BY <2>2
  <2> HIDE DEF r
  <2> QED  BY <1>4, <2>3, <2>4 DEF version
<1>6. CASE Resend
  <2>1. PICK i \in DOMAIN calls : calls' = Append(calls, Call(calls[i].request)) /\ store' = store
    BY <1>6 DEF Resend
  <2>2. NoLater(store, calls[i])
    BY DEF NotAhead
  <2> QED  BY <1>4, <2>1, <2>2 DEF NoLater
<1>7. CASE UNCHANGED vars
  BY <1>7 DEF vars, NotAhead
<1> QED  BY <1>3, <1>5, <1>6, <1>7 DEF Next

LEMMA NotAheadHolds == ASSUME Ahead = 0 PROVE Spec => [](ServiceInv /\ NotAhead)
<1>1. Init => NotAhead
  BY DEF Init, NotAhead
<1> QED  BY <1>1, ServiceInvHolds, NotAheadKept, PTL DEF Spec

\* The job a call has seen is the job as it is, if the version it names still is.
LEMMA SeenIsCurrent ==
    ASSUME ServiceInv, NotAhead, NEW i \in DOMAIN calls, calls[i].seen # Nothing,
           Exists(store, calls[i].request.job),
           UpToDate(store.jobs[calls[i].request.job], calls[i].request)
    PROVE  calls[i].seen = store.jobs[calls[i].request.job]
<1> DEFINE r == calls[i].request
           a == [job |-> r.job, body |-> calls[i].seen]
           b == [job |-> r.job, body |-> store.jobs[r.job]]
           B == StoredBodies(store) \cup CallBodies(calls)
<1>1. a \in B /\ b \in B
  BY DEF CallBodies, StoredBodies, Exists
<1>2. OfOneHistory(store, B)
  BY DEF ServiceInv, Served
<1>3. r.expected <= calls[i].seen.version /\ store.jobs[r.job].version = r.expected
  BY DEF NotAhead, NoLater, UpToDate
<1>4. /\ a.job = r.job /\ b.job = r.job /\ a.body = calls[i].seen
      /\ b.body = store.jobs[r.job]
  OBVIOUS
<1> HIDE DEF a, b, B
<1>5. /\ IsBody(a.body) /\ IsBody(b.body) /\ a.body.version <= store.jobs[r.job].version
  BY <1>1, <1>2, <1>4 DEF OfOneHistory
<1>6. a.body.version = b.body.version
  BY <1>3, <1>4, <1>5 DEF IsBody
<1> QED  BY <1>1, <1>2, <1>4, <1>6 DEF OfOneHistory

\* Cues change in a job in rework by edits with a baseline only: a cue import that was
\* routed when the job was not in rework yet names a version that is gone by then.
THEOREM ReworkNeedsBaseline == ASSUME Ahead = 0 PROVE Spec => NoUnprovenRework
<1> DEFINE A == \A j \in JobId :
                   /\ Exists(store, j) /\ InRework(store.jobs[j])
                   /\ store'.jobs[j].cues # store.jobs[j].cues
                   => store'.events[Len(store'.events)].type = "rework.cues.edited"
<1>1. ServiceInv /\ NotAhead /\ [Next]_vars => [A]_vars
  <2> SUFFICES ASSUME ServiceInv, NotAhead, Next, NEW j \in JobId, Exists(store, j),
                      InRework(store.jobs[j]), store'.jobs[j].cues # store.jobs[j].cues
               PROVE  store'.events[Len(store'.events)].type = "rework.cues.edited"
    BY DEF vars
  <2>0. PICK i \in DOMAIN calls : \E w \in Writes(store, calls[i].request, calls[i].seen) :
          /\ Ready(i) /\ ~ Recorded(store, calls[i].request, calls[i].seen)
          /\ store' = Applied(store, w) /\ SoundWrite(store, w)
    BY HandledWrite
  <2>1. PICK w \in Writes(store, calls[i].request, calls[i].seen) :
          /\ Ready(i) /\ ~ Recorded(store, calls[i].request, calls[i].seen)
          /\ store' = Applied(store, w) /\ SoundWrite(store, w)
    BY <2>0
  <2> DEFINE r == calls[i].request
             seen == calls[i].seen
  <2>2. /\ Consistent(store) /\ IsStore(store) /\ Asked(r) /\ w.job \in JobId
        /\ w.key \in Key \cup {NoKey}
    BY <2>1 DEF ServiceInv, Served, Consistent, CallInv, IsCall, SoundWrite
  <2>3. store'.events[Len(store'.events)].type = w.type
    BY <2>1, <2>2, EventsOfApplied
  <2>4. w.job = j /\ w.body.cues # store.jobs[j].cues
    BY <2>1, <2>2, AppliedParts
  <2>5. r.kind # "create" /\ Exists(store, r.job) /\ UpToDate(store.jobs[r.job], r)
    <3>1. r.kind # "create"
      BY <2>1, <2>4 DEF Writes, Create, WriteOf, Exists
    <3> QED  BY <2>1, <3>1 DEF Writes
  <2>6. w.job = r.job
    BY <2>1, <2>2, <2>5, WritesAreSound DEF WriteFits
  <2>7. CASE r.kind = "metadata"
    <3>1. w \in ReviseMetadata(store, r, seen)
      BY <2>1, <2>5, <2>7 DEF Writes
    <3>2. store.jobs[r.job].status = "draft"
      BY <3>1 DEF ReviseMetadata
    <3> QED  BY <2>4, <2>6, <3>2 DEF InRework
  <2>8. CASE r.kind = "cue-import"
    <3>1. seen # Nothing
      BY <2>1, <2>8, ReadyCalls DEF Routed
    <3>2. seen = store.jobs[r.job]
      BY <2>5, <3>1, SeenIsCurrent
    <3>3. InRework(seen)
      BY <2>4, <2>6, <3>2
    <3>4. w \in ReworkCues(store, r)
      BY <2>1, <2>5, <2>8, <3>3 DEF Writes
    <3> QED  BY <2>2, <2>3, <2>5, <2>8, <3>3, <3>4, ReworkIsSound
  <2>9. CASE r.kind = "credential"
    <3>1. w \in IssueCredential(store, r)
      BY <2>1, <2>5, <2>9 DEF Writes
    <3>2. w.body.cues = store.jobs[r.job].cues
      BY <2>1, <2>2, <2>5, <2>9, <3>1, IssueIsSound
    <3> QED  BY <2>4, <2>6, <3>2
  <2>10. CASE r.kind \notin {"metadata", "cue-import", "credential"}
    <3>1. w \in Advance(store, r)
      BY <2>1, <2>5, <2>10 DEF Writes
    <3>2. w.body.cues = store.jobs[r.job].cues
      BY <2>2, <2>5, <2>10, <3>1, AdvanceIsSound
    <3> QED  BY <2>4, <2>6, <3>2
  <2> QED  BY <2>7, <2>8, <2>9, <2>10
<1>2. Spec => [][Next]_vars /\ [](ServiceInv /\ NotAhead)
  BY NotAheadHolds, PTL DEF Spec
<1> QED  BY <1>1, <1>2, PTL DEF NoUnprovenRework

\* A partial revision leaves the fields it does not name as they were when it took
\* effect: the metadata it was completed with is that of the version it names.
THEOREM PatchesKeepOtherFields == ASSUME Ahead = 0 PROVE Spec => PatchKeepsOtherFields
<1> DEFINE A == \A i \in DOMAIN calls :
                   LET r == calls[i].request IN
                   r.kind = "metadata" /\ calls[i].effect # calls'[i].effect =>
                      \A f \in DOMAIN store.jobs[r.job].meta \ DOMAIN r.arg :
                         store'.jobs[r.job].meta[f] = store.jobs[r.job].meta[f]
<1>1. ServiceInv /\ NotAhead /\ [Next]_vars => [A]_vars
  <2> SUFFICES ASSUME ServiceInv, NotAhead, Next, NEW i \in DOMAIN calls,
                      calls[i].request.kind = "metadata", calls[i].effect # calls'[i].effect,
                      NEW f \in DOMAIN store.jobs[calls[i].request.job].meta
                                  \ DOMAIN calls[i].request.arg
               PROVE  store'.jobs[calls[i].request.job].meta[f]
                        = store.jobs[calls[i].request.job].meta[f]
    BY DEF vars
  <2> DEFINE r == calls[i].request
             seen == calls[i].seen
             job == store.jobs[r.job]
  <2>1. Handle(i)
    <3>1. ASSUME NEW code, NEW result, Answer(i, code, result, 0), Ready(i)
          PROVE  calls'[i].effect = calls[i].effect
      <4>1. calls'[i] = Answered(calls[i], code, result, 0)
        BY <3>1, AnswerGives
      <4>2. calls[i].effect = 0
        BY <3>1, ReadyCalls
      <4> QED  BY <4>1, <4>2 DEF Answered
    <3>2. CASE Replay(i) \/ Refuse(i)
      BY <3>1, <3>2 DEF Replay, Refuse
    <3>3. CASE Route(i)
      <4>1. CASE calls' = [calls EXCEPT ![i].stage = "routed", ![i].seen = job]
        <5>1. calls'[i] = RoutedCall(calls[i], job)
          BY <4>1, RouteGives
        <5> QED  BY <5>1 DEF RoutedCall
      <4>2. CASE Answer(i, "refused", Nothing, 0) /\ calls[i].stage = "sent"
        <5>1. calls[i].effect = 0
          BY <4>2 DEF ServiceInv, Served, CallInv, IsCall, TookPlace
        <5>2. calls'[i] = Answered(calls[i], "refused", Nothing, 0)
          BY <4>2, AnswerGives
        <5> QED  BY <5>1, <5>2 DEF Answered
      <4> QED  BY <3>3, <4>1, <4>2 DEF Route
    <3> QED  BY <3>2, <3>3, OneCallAtATime
  <2>2. PICK w \in Writes(store, r, seen) : store' = Applied(store, w)
    <3>1. CASE Answer(i, "failed", Nothing, 0)
      <4>1. calls'[i] = Answered(calls[i], "failed", Nothing, 0)
        BY <3>1, AnswerGives
      <4>2. calls[i].effect = 0
        BY <2>1, ReadyCalls DEF Handle
      <4> QED  BY <4>1, <4>2 DEF Answered
    <3> QED  BY <2>1, <3>1 DEF Handle
  <2>3. /\ Consistent(store) /\ IsStore(store) /\ Asked(r)
        /\ Ready(i) /\ ~ Recorded(store, r, seen)
    BY <2>1 DEF ServiceInv, Served, Consistent, CallInv, IsCall, Handle
  <2>4. /\ Exists(store, r.job) /\ UpToDate(job, r) /\ w \in ReviseMetadata(store, r, seen)
    BY <2>2 DEF Writes
  <2>5. SoundWrite(store, w) /\ w.job = r.job
    BY <2>2, <2>3, WritesAreSound DEF WriteFits
  <2>6. store'.jobs[r.job] = w.body
    BY <2>2, <2>3, <2>5, WriteAdds
  <2>7. seen = job
    BY <2>3, <2>4, ReadyCalls, SeenIsCurrent DEF Routed
  <2> DEFINE m == Merged(r, seen)
  <2>8. m[f] = job.meta[f]
    BY <2>7 DEF Merged
  <2>9. w.body = [Bumped(job) EXCEPT !.meta = m] /\ IsBody(job)
    BY <2>3, <2>4, JobOfRequest DEF ReviseMetadata, WriteOf
  <2> HIDE DEF m, job
  <2>10. w.body.meta = m
    BY <2>9, BumpedJob DEF Following
  <2> QED  BY <2>6, <2>8, <2>10 DEF job
<1>2. Spec => [][Next]_vars /\ [](ServiceInv /\ NotAhead)
  BY NotAheadHolds, PTL DEF Spec
<1> QED  BY <1>1, <1>2, PTL DEF PatchKeepsOtherFields

\* A new store is one a service can start from.
LEMMA EmptyIsConsistent == Consistent(EmptyState)
<1> DEFINE s == EmptyState
<1>1. /\ s = [jobs |-> s.jobs, credentials |-> s.credentials, idempotency |-> s.idempotency,
             events |-> s.events, sequence |-> s.sequence,
             previousDigest |-> s.previousDigest]
      /\ s.jobs = [j \in JobId |-> s.jobs[j]] /\ \A j \in JobId : s.jobs[j] = Nothing
      /\ s.credentials = [j \in JobId |-> s.credentials[j]]
      /\ \A j \in JobId : s.credentials[j] = Nothing
      /\ s.idempotency = [k \in Key |-> s.idempotency[k]]
      /\ \A k \in Key : s.idempotency[k] = Nothing
      /\ s.events = <<>> /\ s.sequence = 0
  BY DEF EmptyState
<1> HIDE DEF s
<1>2. IsStore(s)
  <2>1. DOMAIN s.events = {} /\ Len(s.events) = 0
        /\ s.events \in Seq({s.events[i] : i \in DOMAIN s.events})
    BY <1>1
  <2> QED  BY <1>1, <2>1 DEF IsStore
<1>3. StoredBodies(s) = {}
  BY <1>1 DEF StoredBodies
<1> QED  BY <1>1, <1>2, <1>3 DEF Consistent, JobsAreSound, CredentialsAreSound, RecordsAreSound,
                                 OfOneHistory, s

=============================================================================
