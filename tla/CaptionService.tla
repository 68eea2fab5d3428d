--------------------------- MODULE CaptionService ----------------------------
(***************************************************************************)
(* The service as its clients see it: requests that wait on the network    *)
(* and on the service's mutex, replies that get lost, requests sent again, *)
(* idempotency keys, and the two reads of internal/httpapi outside the     *)
(* mutex.                                                                  *)
(*                                                                         *)
(* The store is the atomic one that Journal implements.  What the rules of *)
(* a job refuse is the business of ReviewJob: here any request that is not *)
(* a replay may be refused.                                                *)
(***************************************************************************)
EXTENDS JournalState, FiniteSets

CONSTANTS
    Cues,           \* the contents a job can have, each a list of cues
    Form,           \* what clients ask: [actor, kind, job, key, arg]
    Asks(_, _),     \* Asks(s, f): somebody who has seen the store s asks f
    Ahead,          \* how far beyond the version it can have read a client names
    InitialStore,   \* the contents of the store to start from
    MaxCalls        \* bound on the requests sent

ASSUME AheadAssumption == Ahead \in Nat /\ MaxCalls \in Nat

Status == {"draft", "in_review", "rework", "pending_approval", "approved", "credentialed"}
Kind == {"create", "metadata", "cue-import", "submit", "report", "finish", "respond",
         "approve", "credential"}

\* The content of a job that has just been created.
NoCues == ""

VARIABLES
    store,   \* jobs, credentials, idempotency records and events
    calls    \* the requests sent, in order

vars == <<store, calls>>

\* A body is [version, status, meta, cues, candidates]; candidates[r] is the
\* content frozen as revision r.
Exists(s, j) == j \in JobId /\ s.jobs[j] # Nothing

-----------------------------------------------------------------------------
(* Keys and replays. *)

\* Creation keys are shared by all actors, the others are each actor's own.
FullKey(r) ==
    IF r.kind = "create" THEN <<"create", r.key>> ELSE <<r.kind, r.actor, r.key>>

\* Requests are about jobs and contents there can be, and the keys they are handled
\* with are keys; revisions and issues have one.  Nobody is called a forger.
ASSUME FormAssumption ==
    \A f \in Form :
        /\ f.kind \in Kind /\ f.job \in JobId \cup {Nothing} /\ f.actor # "forger"
        /\ f.kind = "cue-import" => f.arg.cues \in Cues
        /\ f.kind \in {"metadata", "credential"} => f.key # NoKey
        /\ f.kind \in {"create", "metadata", "cue-import", "credential"} /\ f.key # NoKey =>
             FullKey(f) \in Key
ASSUME CuesAssumption == "forged" \notin Cues

\* No job is called by the empty name.
ASSUME NameAssumption == NoKey \notin JobId

\* Partial metadata is completed with the metadata read before the mutex.
Merged(r, seen) ==
    [f \in DOMAIN seen.meta |-> IF f \in DOMAIN r.arg THEN r.arg[f] ELSE seen.meta[f]]

InRework(seen) == seen # Nothing /\ seen.status = "rework"

\* Whether the request is handled with a key: revisions and issues must have one,
\* creations and cue imports may, and cue edits routed to ReworkCues ignore it.
Keyed(r, seen) ==
    \/ r.kind \in {"metadata", "credential"}
    \/ r.key # NoKey /\ r.kind = "create"
    \/ r.key # NoKey /\ r.kind = "cue-import" /\ ~ InRework(seen)

\* What a request with a key is recognised by.
Digest(s, r, seen) ==
    CASE r.kind = "create"     -> <<r.actor, r.arg>>
      [] r.kind = "metadata"   -> <<r.job, Merged(r, seen), r.expected>>
      [] r.kind = "cue-import" -> <<r.job, r.expected, r.arg.cues>>
      [] r.kind = "credential" -> <<r.job, Len(s.jobs[r.job].candidates), r.actor>>

\* A seeded fault: the record is written but nobody looks it up.
Recorded_Bug(s, r, seen) == FALSE
Recorded(s, r, seen) ==
    /\ Keyed(r, seen)
    /\ r.kind # "create" => Exists(s, r.job)
    /\ s.idempotency[FullKey(r)] # Nothing

\* A seeded fault: the job as it is now is returned for the job as it was.
ReplayResult_Bug(s, r) ==
    LET rec == s.idempotency[FullKey(r)] IN
    CASE r.kind = "create"     -> rec.job
      [] r.kind = "credential" -> s.credentials[rec.job]
      [] OTHER                 -> s.jobs[rec.job]
\* What is sent back: the identifier of the job created (and the job as it is
\* now), the credential, or the job as the first request left it.
ReplayResult(s, r) ==
    LET rec == s.idempotency[FullKey(r)] IN
    CASE r.kind = "create"     -> rec.job
      [] r.kind = "credential" -> s.credentials[rec.job]
      [] OTHER                 -> rec.result

-----------------------------------------------------------------------------
(* The write a request leads to. *)

\* From and to which status an operation takes a job.  Findings and answers
\* leave the status and what is kept of a job here, but for the version.
Steps_Bug(kind) ==
    CASE kind = "submit"  -> {<<"draft", "in_review">>, <<"rework", "in_review">>}
      [] kind = "report"  -> {<<t, t>> : t \in {"in_review", "pending_approval",
                                                "approved", "credentialed"}}
      [] kind = "finish"  -> {<<"in_review", "rework">>, <<"in_review", "pending_approval">>}
      [] kind = "respond" -> {<<"rework", "rework">>}
      [] kind = "approve" -> {<<"pending_approval", "approved">>}
      [] OTHER            -> {}
Steps(kind) ==
    CASE kind = "submit"  -> {<<"draft", "in_review">>, <<"rework", "in_review">>}
      [] kind = "report"  -> {<<"in_review", "in_review">>}
      [] kind = "finish"  -> {<<"in_review", "rework">>, <<"in_review", "pending_approval">>}
      [] kind = "respond" -> {<<"rework", "rework">>}
      [] kind = "approve" -> {<<"pending_approval", "approved">>}
      [] OTHER            -> {}

\* A seeded fault: a request that names an older version is let through.
UpToDate_Bug(job, r) == r.expected <= job.version
UpToDate(job, r) == job.version = r.expected

Bumped(job) == [job EXCEPT !.version = @ + 1]

WriteOf(type, j, body, r, data, key, record, credential) ==
    [type |-> type, job |-> j, body |-> body, actor |-> r.actor, data |-> data,
     key |-> key, record |-> record, credential |-> credential]

Create(s, r) ==
    {WriteOf("job.created", j,
             [version |-> 0, status |-> "draft", meta |-> r.arg, cues |-> NoCues,
              candidates |-> <<>>],
             [r EXCEPT !.actor = "system"], r.arg,
             IF Keyed(r, Nothing) THEN FullKey(r) ELSE NoKey,
             [digest |-> Digest(s, r, Nothing), job |-> j, result |-> Nothing], Nothing) :
        j \in {i \in JobId : s.jobs[i] = Nothing}}

ReviseMetadata(s, r, seen) ==
    LET job  == s.jobs[r.job]
        next == [Bumped(job) EXCEPT !.meta = Merged(r, seen)]
    IN  {WriteOf("metadata.revised", r.job, next, r, Merged(r, seen), FullKey(r),
                 [digest |-> Digest(s, r, seen), job |-> r.job, result |-> next], Nothing) :
            x \in {job.status} \cap {"draft"}}

\* BatchCues, UpsertCue and DeleteCue do not ask whether the job is in rework.
BatchCues(s, r, seen) ==
    LET job  == s.jobs[r.job]
        next == [Bumped(job) EXCEPT !.cues = r.arg.cues]
    IN  {WriteOf("cue.batch", r.job, next, r, r.arg.cues,
                 IF Keyed(r, seen) THEN FullKey(r) ELSE NoKey,
                 [digest |-> Digest(s, r, seen), job |-> r.job, result |-> next], Nothing) :
            x \in {job.status} \cap {"draft", "rework"}}

ReworkCues(s, r) ==
    LET job  == s.jobs[r.job]
        next == [Bumped(job) EXCEPT !.cues = r.arg.cues]
    IN  {WriteOf("rework.cues.edited", r.job, next, r, r.arg, NoKey, Nothing, Nothing) :
            x \in {y \in {job} : /\ y.status = "rework"
                                 /\ r.arg.baseRevision = Len(y.candidates)}}

Advance(s, r) ==
    LET job == s.jobs[r.job] IN
    {WriteOf(r.kind, r.job,
             [Bumped(job) EXCEPT
                !.status = step[2],
                !.candidates = IF r.kind = "submit" THEN Append(@, job.cues) ELSE @],
             r, step, NoKey, Nothing, Nothing) :
        step \in {t \in Steps(r.kind) : t[1] = job.status}}

IssueCredential(s, r) ==
    LET job == s.jobs[r.job]
        credential == [revision         |-> Len(job.candidates),
                       contentDigest    |-> job.cues,
                       eventChainDigest |-> EventsOf(s, r.job),
                       issuedBy         |-> r.actor]
    IN  {WriteOf("credential.issued", r.job, [Bumped(job) EXCEPT !.status = "credentialed"],
                 r, credential, FullKey(r),
                 [digest |-> Digest(s, r, Nothing), job |-> r.job, result |-> Nothing],
                 credential) :
            x \in {y \in {job} : y.status = "approved" /\ s.credentials[r.job] = Nothing}}

Writes(s, r, seen) ==
    IF r.kind = "create" THEN Create(s, r)
    ELSE IF ~ Exists(s, r.job) \/ ~ UpToDate(s.jobs[r.job], r) THEN {}
    ELSE CASE r.kind = "metadata"   -> ReviseMetadata(s, r, seen)
           [] r.kind = "cue-import" -> IF InRework(seen) THEN ReworkCues(s, r)
                                                         ELSE BatchCues(s, r, seen)
           [] r.kind = "credential" -> IssueCredential(s, r)
           [] OTHER                 -> Advance(s, r)

-----------------------------------------------------------------------------
(* What a service finds when it starts: a store that others have left.     *)

IsBody(b) ==
    /\ b = [version |-> b.version, status |-> b.status, meta |-> b.meta, cues |-> b.cues,
            candidates |-> b.candidates]
    /\ b.version \in Nat /\ b.status \in Status
    /\ b.cues \in Cues \cup {NoCues} /\ b.candidates \in Seq(Cues \cup {NoCues})

\* Maps of jobs, credentials and records, and events in the order of their numbers.
IsStore(s) ==
    /\ s = [jobs |-> s.jobs, credentials |-> s.credentials, idempotency |-> s.idempotency,
            events |-> s.events, sequence |-> s.sequence,
            previousDigest |-> s.previousDigest]
    /\ s.jobs = [j \in JobId |-> s.jobs[j]]
    /\ s.credentials = [j \in JobId |-> s.credentials[j]]
    /\ s.idempotency = [k \in Key |-> s.idempotency[k]]
    /\ s.events \in Seq({s.events[i] : i \in DOMAIN s.events})
    /\ s.sequence = Len(s.events)
    /\ \A i \in DOMAIN s.events : s.events[i].sequence = i

\* What is under review or beyond is the last candidate.
JobsAreSound(s) ==
    \A j \in JobId : s.jobs[j] # Nothing =>
        LET b == s.jobs[j] IN
        /\ IsBody(b)
        /\ b.status \notin {"draft", "rework"} =>
             b.candidates # <<>> /\ b.cues = b.candidates[Len(b.candidates)]

\* A job has a credential when it says so, whose issue is its last event.
CredentialsAreSound(s) ==
    \A j \in JobId :
        /\ s.credentials[j] # Nothing =>
             LET b == s.jobs[j]
                 c == s.credentials[j]
                 E == EventsOf(s, j)
             IN  /\ b # Nothing /\ b.status = "credentialed"
                 /\ c.issuedBy # "forger"
                 /\ \E e \in Newest(E) :
                      /\ e.type = "credential.issued"
                      /\ c = [revision |-> Len(b.candidates), contentDigest |-> b.cues,
                              eventChainDigest |-> E \ {e}, issuedBy |-> c.issuedBy]
        /\ s.jobs[j] # Nothing /\ s.jobs[j].status = "credentialed" =>
             s.credentials[j] # Nothing

\* A record is of what its digest says.
RecordHolds(s, k, rec) ==
    /\ rec = [digest |-> rec.digest, job |-> rec.job, result |-> rec.result]
    /\ rec.job \in JobId /\ s.jobs[rec.job] # Nothing
    /\ k[1] = "metadata" =>
         /\ IsBody(rec.result) /\ rec.digest[1] = rec.job
         /\ rec.digest[3] + 1 = rec.result.version
    /\ k[1] = "cue-import" =>
         /\ IsBody(rec.result) /\ rec.digest[1] = rec.job
         /\ rec.digest[2] + 1 = rec.result.version
    /\ k[1] = "credential" =>
         /\ s.credentials[rec.job] # Nothing
         /\ rec.digest = <<rec.job, Len(s.jobs[rec.job].candidates), k[2]>>

RecordsAreSound(s) ==
    \A k \in Key : s.idempotency[k] # Nothing => RecordHolds(s, k, s.idempotency[k])

\* The jobs the store shows, as they are and as they were when a record was made.
StoredBodies(s) ==
    {[job |-> j, body |-> s.jobs[j]] : j \in {i \in JobId : s.jobs[i] # Nothing}}
    \cup {[job |-> s.idempotency[k].job, body |-> s.idempotency[k].result] :
             k \in {i \in Key : /\ s.idempotency[i] # Nothing
                               /\ i[1] \in {"metadata", "cue-import"}}}

\* The bodies in B are of jobs up to now, and one of each version.
OfOneHistory(s, B) ==
    /\ \A a \in B : /\ a.job \in JobId /\ s.jobs[a.job] # Nothing
                    /\ IsBody(a.body) /\ a.body.version <= s.jobs[a.job].version
    /\ \A a, b \in B : a.job = b.job /\ a.body.version = b.body.version => a.body = b.body

Consistent(s) ==
    /\ IsStore(s) /\ JobsAreSound(s) /\ CredentialsAreSound(s) /\ RecordsAreSound(s)
    /\ OfOneHistory(s, StoredBodies(s))

\* The file is one this program has written.
ASSUME StoreAssumption == \A s \in InitialStore : Consistent(s)

-----------------------------------------------------------------------------
(* Requests under way.  A call is [request, stage, seen, code, result,     *)
(* effect]: seen is what the HTTP layer read outside the mutex, effect the *)
(* sequence number of the event it caused, 0 if none.                      *)

Call(r) == [request |-> r, stage |-> "sent", seen |-> Nothing,
            code |-> "none", result |-> Nothing, effect |-> 0]

\* A client names a version it has read.  An older one than this is that of a
\* request that has waited.
Send ==
    /\ Len(calls) < MaxCalls
    /\ \E f \in {g \in Form : Asks(store, g)}, d \in 0..Ahead :
         LET version == IF Exists(store, f.job) THEN store.jobs[f.job].version ELSE 0
             r == [actor |-> f.actor, kind |-> f.kind, job |-> f.job, key |-> f.key,
                   arg |-> f.arg, expected |-> version + d]
         IN  calls' = Append(calls, Call(r))
    /\ UNCHANGED store

\* A client whose request or whose reply is lost, or who is tired of waiting,
\* sends it again, word for word.  A call that is never handled here is one
\* that was lost, on the network or because the process was restarted.
Resend ==
    /\ Len(calls) < MaxCalls
    /\ \E i \in DOMAIN calls : calls' = Append(calls, Call(calls[i].request))
    /\ UNCHANGED store

Routed(r) == r.kind \in {"metadata", "cue-import"}

Answer(i, code, result, effect) ==
    calls' = [calls EXCEPT ![i].stage = "answered", ![i].code = code,
                           ![i].result = result, ![i].effect = effect]

\* What patchMetadata and the cues branch of jobSubpath read without the mutex.
Route(i) ==
    LET r == calls[i].request IN
    /\ calls[i].stage = "sent"
    /\ Routed(r)
    /\ IF Exists(store, r.job)
       THEN calls' = [calls EXCEPT ![i].stage = "routed", ![i].seen = store.jobs[r.job]]
       ELSE Answer(i, "refused", Nothing, 0)
    /\ UNCHANGED store

Ready(i) == calls[i].stage = IF Routed(calls[i].request) THEN "routed" ELSE "sent"

\* The service method, from taking the mutex to releasing it: a replay,
Replay(i) ==
    LET r == calls[i].request IN
    /\ Ready(i)
    /\ Recorded(store, r, calls[i].seen)
    /\ IF store.idempotency[FullKey(r)].digest = Digest(store, r, calls[i].seen)
       THEN Answer(i, "ok", ReplayResult(store, r), 0)
       ELSE Answer(i, "refused", Nothing, 0)
    /\ UNCHANGED store

\* or a change that is saved, or not,
Handle(i) ==
    LET r == calls[i].request IN
    /\ Ready(i)
    /\ ~ Recorded(store, r, calls[i].seen)
    /\ \E w \in Writes(store, r, calls[i].seen) :
         \/ /\ store' = Applied(store, w)
            /\ Answer(i, "ok", CASE r.kind = "create"     -> w.job
                                 [] r.kind = "credential" -> w.credential
                                 [] OTHER                 -> w.body,
                      store.sequence + 1)
         \/ /\ UNCHANGED store
            /\ Answer(i, "failed", Nothing, 0)

\* or an error.
Refuse(i) ==
    LET r == calls[i].request IN
    /\ Ready(i)
    /\ ~ Recorded(store, r, calls[i].seen)
    /\ Answer(i, "refused", Nothing, 0)
    /\ UNCHANGED store

Init == store \in InitialStore /\ calls = <<>>

Next ==
    \/ Send \/ Resend
    \/ \E i \in DOMAIN calls : Route(i) \/ Replay(i) \/ Handle(i) \/ Refuse(i)

Spec == Init /\ [][Next]_vars

-----------------------------------------------------------------------------
(* Safety. *)

\* Calls are made and answered in the stages above, for requests clients make;
\* an event a call has caused is in the log.
TypeOK ==
    \A i \in DOMAIN calls :
        /\ calls[i].request.kind \in Kind /\ calls[i].request.expected \in Nat
        /\ calls[i].request.job \in JobId \cup {Nothing}
        /\ calls[i].stage \in {"sent", "routed", "answered"}
        /\ calls[i].code \in {"none", "ok", "refused", "failed"}
        /\ calls[i].effect \in 0..store.sequence

\* However often requests with one key are sent, by retries or by mistake, and
\* whatever is lost on the way, one of them takes effect (edits in rework, which
\* are handled without their key, aside).
KeyUsedOnce ==
    \A i, k \in DOMAIN calls :
        /\ calls[i].effect # 0 /\ calls[k].effect # 0
        /\ Keyed(calls[i].request, calls[i].seen) /\ Keyed(calls[k].request, calls[k].seen)
        /\ FullKey(calls[i].request) = FullKey(calls[k].request)
        => i = k

\* The copies of one request that are answered with success are told the same:
\* the same job created, the same credential, the job at the same version.  Only
\* a creation without a key may create another job each time.
SameRequestSameAnswer ==
    \A i, k \in DOMAIN calls :
        /\ calls[i].request = calls[k].request
        /\ calls[i].request.kind = "create" => calls[i].request.key # NoKey
        /\ calls[i].code = "ok" /\ calls[k].code = "ok"
        => calls[i].result = calls[k].result

TookEffect(r) == \E k \in DOMAIN calls : calls[k].request = r /\ calls[k].effect # 0

AnsweredNow(i) == calls[i].code = "none" /\ calls'[i].code # "none"

ReplayConfirmed(i) ==
    TookEffect(calls[i].request) /\ AnsweredNow(i) => calls'[i].code = "ok"

\* An issue that took effect is confirmed, with the credential, to whoever sends
\* the request again, although the job has one by then and takes no other.
IssueReplays ==
    [][\A i \in DOMAIN calls :
         calls[i].request.kind = "credential" => ReplayConfirmed(i)]_vars

\* What the documentation says of a cue import with a key: sent again, it is
\* replayed.
ImportReplays ==
    [][\A i \in DOMAIN calls :
         calls[i].request.kind = "cue-import" /\ calls[i].request.key # NoKey
            => ReplayConfirmed(i)]_vars

\* Cues change in a job in rework by edits with a baseline only, although the
\* status that decides it is read before the mutex is taken.
NoUnprovenRework ==
    [][\A j \in JobId :
         /\ Exists(store, j) /\ InRework(store.jobs[j])
         /\ store'.jobs[j].cues # store.jobs[j].cues
         => store'.events[Len(store'.events)].type = "rework.cues.edited"]_vars

\* A partial revision leaves the fields it does not name as they were when it
\* took effect, although they were read before the mutex was taken.
PatchKeepsOtherFields ==
    [][\A i \in DOMAIN calls :
         LET r == calls[i].request IN
         r.kind = "metadata" /\ calls[i].effect # calls'[i].effect =>
            \A f \in DOMAIN store.jobs[r.job].meta \ DOMAIN r.arg :
               store'.jobs[r.job].meta[f] = store.jobs[r.job].meta[f]]_vars

-----------------------------------------------------------------------------
(* Verification of the credential, and of copies people hand in.           *)

\* The events a credential can attest: those before its own issue.
Attestable(s, j) ==
    LET E == EventsOf(s, j) IN E \ {e \in Newest(E) : e.type = "credential.issued"}

\* What is in the body of a credential c that agrees with the store.
ContentHolds(s, j, c) == c.revision \in DOMAIN s.jobs[j].candidates
                         /\ c.contentDigest = s.jobs[j].candidates[c.revision]
ChainHolds(s, j, c) == c.eventChainDigest = Attestable(s, j)

\* VerifyCredential.
CredentialValid(s, j) ==
    ContentHolds(s, j, s.credentials[j]) /\ ChainHolds(s, j, s.credentials[j])

\* A copy is [job, id, body, digest]: the digest of a body is the body, and the
\* identifier of a credential is that of its job.
CopyOf(s, j) == [job |-> j, id |-> j, body |-> s.credentials[j], digest |-> s.credentials[j]]

\* A seeded fault: a copy has to agree with itself only.
SealHolds_Bug(s, j, copy) == copy.digest = copy.body
SealHolds(s, j, copy) == copy.digest = s.credentials[j] /\ copy.digest = copy.body

\* VerifyCredentialCopy: the checks a copy fails, or an error.
FailedChecks(s, j, copy) ==
    IF ~ Exists(s, j) \/ s.credentials[j] = Nothing THEN {"credentialFormat"}
    ELSE IF copy.id # j THEN {"credentialIdentity"}
    ELSE {check \in {"contentDigest", "eventChainDigest", "credentialDigest",
                     "candidateRevision"} :
            CASE check = "contentDigest"     -> ~ ContentHolds(s, j, copy.body)
              [] check = "eventChainDigest"  -> ~ ChainHolds(s, j, copy.body)
              [] check = "credentialDigest"  -> ~ SealHolds(s, j, copy)
              [] check = "candidateRevision" ->
                    copy.body.revision \notin DOMAIN s.jobs[j].candidates}

\* VerifyCredentialsBatch refuses a batch with two copies for one job or of one
\* credential, or too many, and counts the others, failures by check.
BatchLimit == 50

BatchRefused(copies) ==
    \/ Len(copies) \notin 1..BatchLimit
    \/ \E i, k \in DOMAIN copies :
         i # k /\ (copies[i].job = copies[k].job \/ copies[i].id = copies[k].id)

BatchVerdict(s, copies) ==
    LET failed == [i \in DOMAIN copies |-> FailedChecks(s, copies[i].job, copies[i])] IN
    [valid    |-> Cardinality({i \in DOMAIN copies : failed[i] = {}}),
     failures |-> [check \in UNION {failed[i] : i \in DOMAIN copies} |->
                     Cardinality({i \in DOMAIN copies : check \in failed[i]})]]

\* A credential verifies from its issue on: nothing that is still under way, or
\* is sent later, adds an event to its job or touches its candidate.
CredentialVerifies ==
    \A j \in JobId : store.credentials[j] # Nothing => CredentialValid(store, j)

\* Copies of the credential of j somebody has changed in one place, with the old
\* digest or with one that fits.
Forged(s, j) ==
    LET c == s.credentials[j]
        bodies == {[c EXCEPT !.revision = @ + 1],
                   [c EXCEPT !.contentDigest = "forged"],
                   [c EXCEPT !.eventChainDigest = EventsOf(s, j)],
                   [c EXCEPT !.issuedBy = "forger"]}
    IN  {[CopyOf(s, j) EXCEPT !.body = b] : b \in bodies}
        \cup {[CopyOf(s, j) EXCEPT !.body = b, !.digest = b] : b \in bodies}
        \cup {[CopyOf(s, j) EXCEPT !.digest = Nothing], [CopyOf(s, j) EXCEPT !.id = NoKey]}

\* A copy of a credential verifies if it is one, and not when it was changed in
\* one place, even if it agrees with itself.  Beside it in a batch a copy for a job
\* without a credential is counted as invalid and spoils nothing, and a second copy
\* of the same credential is refused.
OnlyTheCredentialVerifies ==
    \A j \in JobId : store.credentials[j] # Nothing =>
        LET genuine == CopyOf(store, j)
            unknown == [genuine EXCEPT !.job = Nothing, !.id = Nothing]
            Valid(copy) == IF BatchRefused(<<unknown, copy>>) THEN 0
                           ELSE BatchVerdict(store, <<unknown, copy>>).valid
        IN  /\ Valid(genuine) = 1
            /\ BatchVerdict(store, <<unknown, genuine>>).failures =
                 [check \in {"credentialFormat"} |-> 1]
            /\ \A copy \in Forged(store, j) : Valid(copy) = 0
            /\ BatchRefused(<<genuine, genuine>>)

=============================================================================
