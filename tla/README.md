# Verification of caption-delivery-qc

TLA+ models, TLC configurations and TLAPS proofs for the subtitle quality
review service in this repository (`src/`, Go). The service keeps *review jobs*:
an editor prepares subtitle cues, submits them as a frozen candidate, a reviewer
reports findings and concludes the round, the editor reworks and answers, an
approver signs a checklist, and an issuer certifies the delivered candidate.

## 1. The system

| component | source | state it keeps | operations |
|---|---|---|---|
| Cue rules and batch edits | `internal/domain/workflows.go`, `types.go`, `cue_preview.go` | none (functions of a cue map) | quality and coverage issues, `ValidateCues`, `ApplyCueEdits`, content digest, preview |
| Review job aggregate | `internal/domain/{types,state,extensions,workflows,rules,validation}.go` | one `ReviewJob`: status, version, revision and round counters, metadata, cues, findings, frozen snapshots, conclusions, rework proofs, approval fields | create, revise metadata, edit cues, freeze, report, conclude, answer, approve, credential |
| Application service | `internal/application/service.go`, `commands.go`, `queries.go` | a mutex; otherwise only what the store holds | one method per operation: read the job, check the actor, run the aggregate, save; queries and credential verification |
| Queries | `service.go`, `queries.go`, `journal/store.go`, `workflows.go` | none | detail, timeline and finding pages, candidate differences, finding summaries, preview |
| Journal store | `internal/journal/*.go` | jobs, credentials, idempotency records, hash-chained events, sequence and previous digest; optionally a file | `Create`, `Save`, `SaveIdempotent`, `CommitCredential`, `New` (reload), `Verify`, event pages |
| HTTP layer | `internal/httpapi/*.go` | none | decodes, finds the operation, reads the job *outside the mutex* to route cue edits and to merge partial metadata, calls the service |
| Process | `cmd/captionqc` | none | flags, `journal.New("")`, listening, self check |

**Interactions.** A request runs on its own goroutine: HTTP layer → service
method (under `Service.mu`, several queries and verifications without it) →
aggregate (a private copy obtained from the store) → store (under `Store.mu`, saves
the copy, appends one event, rewrites the file).
There are no callbacks and no background work; everything that happens is the
consequence of a request. Clients coordinate only through `expectedVersion`,
digests they read (`candidateDigest`, `findingSummaryDigest`, `checklistDigest`,
`cueContentHash`, `baseDigest`) and idempotency keys.

**What is hard.** Long legal sequences (a job passes through up to six statuses
in several rounds, and every rule of a later status relies on what earlier ones
guaranteed); fields that each round overwrites but that duty separation depends
on; evidence read at one version and used at another; retries whose first reply
was lost; a write to the journal that fails between its parts; views put together
from several reads that a write may come between; lists that change while they
are read page by page; boundary values of the timeline rules. `PROJECT.json` lists
each hazard at its line.

**What makes the components correct.**

- Cue rules: checks that compare neighbours in a sorted list must imply the
  property over all pairs; a candidate must meet the rules under the metadata it
  is delivered with.
- Job: candidates never change; what is reviewed is what was submitted, what is
  signed is what was reviewed, what is issued is what was signed; no open severe
  finding gets past a review; four eyes throughout; signed statistics stay true;
  answers are in the candidate they were promised for.
- Journal: memory and file agree whenever nobody is writing; a failed write
  undoes all of its parts; nothing acknowledged is lost by a restart; the event
  chain verifies.
- Service: a keyed request takes effect once however often it is delivered; its
  operations are atomic, and every request is answered; a request that only asks
  never writes, but for findings or answers sent to the findings' preflight
  (section 6).
- Verification: the credential that was issued verifies for good, whenever its
  parts are read; a changed copy does not.
- Queries: a preview foretells what sending the batch does; differences and
  summaries agree with the answers and the statistics people have signed; a walk
  through pages misses nothing that is not moved under it.

## 2. Plan

Order of work, the most important behaviour first:

1. `CueTimeline`, `ReviewJob`: rules and aggregate (done).
2. `ReviewLifecycle`: the abstract promise of one job, refined by `ReviewJob`
   (done).
3. `JournalState`, `Journal`, `AtomicStore`: save and rollback, temporary file
   and rename, crash and reload, hash chain; the store is shown to implement an
   atomic one (done, model-checked and proved).
4. `CaptionService`: clients with requests under way, stale versions, lost
   replies, retries with and without keys, the reads outside the mutex (done,
   model-checked and proved).
5. `ReviewQueries`: preview, differences and summaries over the state of a job
   (done, model-checked and proved).
6. `HttpRoutes`, `ServiceLocks`, `AtomicService`: requests, the operations they
   lead to and the locks these take; the service is shown to implement an atomic
   one (done, model-checked and proved; liveness model-checked).
7. `Paging`: timeline and finding pages while the lists change (done,
   model-checked and proved).
8. Proofs: every invariant, every action property and the three refinements that
   the runs check (done). Open: that a call `CaptionService` answers with success
   is a step of an abstract service with one effect per key, stated as a
   refinement; and the power loss of section 7.

The modules are layered:

```
CueTimeline <- ReviewJob --(INSTANCE)--> ReviewLifecycle
               ReviewJob <- ReviewQueries <- MCReviewJob
               ReviewJob <- ReviewJob_proofs <- ReviewJob_candidates <- ReviewJob_safety
               ReviewJob_safety, ReviewQueries <- ReviewJob_rounds
JournalState <- AtomicStore <--(INSTANCE)-- Journal <- Journal_proofs
JournalState <- CaptionService <- CaptionService_proofs
HttpRoutes <- ServiceLocks --(INSTANCE)--> AtomicService
              ServiceLocks <- ServiceLocks_proofs
Paging <- Paging_proofs
```

Each layer justifies what the next takes for granted: `Journal` implements the
atomic store `CaptionService` writes to, and `ServiceLocks` implements the service
in which an operation is one step, as it is in `ReviewJob` and `CaptionService`.

## 3. The models

A definition whose name ends in `_Bug` is a seeded fault: a plausible mistake in
the definition next to it, which some property must notice. `PROJECT.json`
("mutants") pairs each property with one.

### CueTimeline

The pure functions on cues. A *track* is a function from cue identifiers to cues
or `NoCue`, for `map[string]Cue`. Identifiers are numbers, so that the order the
code gets from sorting strings is `<`. `CueQualityIssues` and `CoverageIssues`
are the two issue lists (as sets of a code and a cue); `ValidateCues` takes the
order in which an unstable sort by start time may leave the cues as a parameter,
and the callers quantify over `StartOrders`. `EditsApply` and `Edited` are the
validation and the effect of `ApplyCueEdits`, including the rule that one cue is
named once per batch. The reading speed is integer arithmetic corrected by the
constant `RoundsAbove`: the pairs of a length and a duration that lie at exactly
25 characters per second and that two roundings of `float64` put above it. Rune
counts, blank texts and the digests' view of a text are constants.

### ReviewJob

One job, a variable for each group of fields of the aggregate, and one action
for every operation of `Service` that writes it. The service holds its mutex
from reading the job to saving it, so each operation is one step; a refused
request is an action that is not enabled. `Next` lets clients send, besides the
small sets of inputs, only digests, revisions and content hashes they can have
read from the job, those of other revisions, cues and actors included. The
requests a stale `expectedVersion` would make are refused by `Bump` and are
therefore not enumerated: `CaptionService` is about them.

| code | model |
|---|---|
| `CreateJob` / `NewJob` | `Init` |
| `ReviseMetadata` | `ReviseMetadata` |
| `BatchCues`, `UpsertCue`, `DeleteCue` | actions of the same names over `ApplyCueEdits` |
| `ReworkCues` / `ApplyReworkCueEdits` | `ReworkCues`, `Baseline`, `ChangedCues` |
| `Submit` / `FreezeSubmit`, `SubmissionPreflight`, `ClosurePreflight` | `Submit`, `CanSubmit`, `ClosureItems` |
| `AddFinding`, `BatchFindings` | same names, `NewFinding`, `Links` |
| `FinishReviewWithConclusion` | `FinishReview`, `FindingStatistics` |
| `Respond`, `BatchRespond` / `ApplyFindingResponses` | same names, `Answerable`, `Resolved` |
| `ApproveWithChecklist`, `Approve`, `ApprovalReadiness` | same names, `Blocking`, `Checklist` |
| `Credential` | `IssueCredential` |

`ReviewLifecycle` is what a client can rely on without knowing any of this: edit,
freeze, conclude, sign, deliver the last frozen candidate. `ImplementsLifecycle`
maps `status` to its phases and contents to their digests.

### ReviewQueries

What a job answers without changing, as operators over the variables of
`ReviewJob`; the runs of `ReviewJob` are made with this module, so its properties
are checked in every state of a job. `PreviewCueEdits` is a walk of its own over
the operations of a batch, which goes on after an issue where `ApplyCueEdits`
stops, and carries out the operations it can; the properties compare the two for
every batch of the instance in every order. `Diff` and `FindingSummary` are the
difference of two candidates and the table of findings by round, category and
severity. The text and the speaker of a cue are one content, so that two of the
kinds of a change are one.

### JournalState, Journal, AtomicStore

`JournalState` holds what a store is (maps, events, sequence and head of the
chain), `Applied`, the effect of one save, and `Verify`, the chain check.
`Journal` is the store at work: a save is `BeginSave` (the changes to the maps
and the event), `WriteFile` (the temporary file) and `Rename`; either of the two
may fail, after which the four hand-written rollbacks, `RolledBack`, restore the
memory part by part. `Kill` ends the process anywhere, with the temporary file
untouched, torn or whole; `Start` is `New`, and `StartMisreading` is `New` when
reading the file fails, which it takes for a file that does not exist (for a
store whose file is not `reliable`). `path = FALSE` is the store without a file
that `main` opens: there saving is one step and `Kill` loses everything.
The three save functions of the code differ in which parts they touch and share
this one model: `w.key = NoKey` and `w.credential = Nothing` leave theirs alone.
`Nothing` is what a map has where it has no entry. Events carry their numbers, so
the events of one job, `EventsOf`, are a set; its `Newest` is the last of them.

`AtomicStore` is the store its callers believe in: a save happens or does not.
`ImplementsAtomicStore` maps its contents to the file, or to the memory when
there is none, and says nothing of a file that cannot be relied on.

### CaptionService

The requests of several clients. A call is *sent*, then, if the HTTP layer reads
the job before it calls the service (`patchMetadata`, the cues branch of
`jobSubpath`), *routed* with what was read kept in `seen`, then *answered* by one
step of the service under its mutex: a `Replay` of what the key recorded, a
change (`Handle`), or an error (`Refuse`). `Resend` sends any call again, word
for word. Calls are answered in any order or never: a call that is never
answered is one that was lost, or whose process was restarted, and a reply that
is lost is one after which the client sends the request again. `Handle` may also
fail, when the store fails to save.

The store is the atomic one, which is what `ImplementsAtomicStore` and its proof
justify. The rules inside a job are abstracted to its status, version, contents
and candidates, and any request that is not a replay may be refused: this
service has every behaviour of the real one and more, so what holds of it holds
of the code, and what the violations show does not use a refusal for which the
code has no reason (a stale version, a changed digest). A creation without a key,
which the service takes and the HTTP layer does not pass on, is among the inputs.

`Form` is what clients ask, `Asks` who asks it when: it lets an instance leave out
requests that would be refused at once, and is `Always` where nothing is left out.
A service may start with any store of `InitialStore`. `Consistent` says what such a
store is: bodies with the last candidate under review, a credential exactly for a
credentialed job, whose issue is its last event, records that say what their digest
says, and one body for each version of a job. That is no assumption about people
but about the program: the empty store is consistent (`EmptyIsConsistent`) and every
write keeps it so (`ConsistencyStays`, `WritesAreSound`), so any file this program
has written is. TLC evaluates it on the stores of the runs, and the same is assumed
of requests (`FormAssumption`): they are about jobs and contents there can be, the
keys they are handled with are not empty where the service insists on one, and no
job has the empty name.

Verification is here because it is about what the store holds: `CredentialValid`
is `VerifyCredential`, `FailedChecks` the checks of `VerifyCredentialCopy`, and
`BatchRefused` and `BatchVerdict` are `VerifyCredentialsBatch`. `Forged` are the
copies of a credential changed in one place, with the old digest or one that fits.

### HttpRoutes, ServiceLocks, AtomicService

`HttpRoutes` is `jobSubpath` and its neighbours: a request is a method, a path,
what follows it, and the parts of body and query that are looked at, and
`Route(q)` is the operation of the service it leads to. Each branch of the code is
a list of rules of which the first that holds counts, in the order of the code.
Two operations stand for the choice by a status read outside the mutex.

`ServiceLocks` serves such requests on one job. `Program(o)` lists the steps of an
operation that touch a lock: taking `Service.mu`, one read of the store, one write.
A read is `LockToRead` and `ReadStore`, a write `LockToWrite` and `WriteStore`, with
the rule of `sync.RWMutex` that a reader who comes after a waiting writer waits for
it (`blocked`). Any read may end an operation, which is how the refusals and
replays of the other modules look at this grain, and a write may fail. `got` is
what an operation has read so far, and what it writes is made from that, not from
what the store holds by then. `Return` is the deferred `Unlock` and the answer.

`AtomicService` is the service that does one write at a time on the state the last
has left, and none after a credential is issued; `ImplementsAtomicService` maps the
store of `ServiceLocks` to its own.

### Paging

A client asks for one page after the other with the cursor the last one gave it,
while reviewers report, the editor reworks and answers, and events of other jobs
are appended. `TimelinePage` is `PageEvents`, `FindingsPage` is `FilterFindings`; a
walk (`reading`, `listing`) remembers its query, the cursor and what it has been
shown. The job is reduced to its status, the sequence of its cues (any one of
`Placements`, whatever the times) and its findings; the guards that decide when
these may change are kept. An edit of the cues in rework, or an answer while the
list is filtered by status, is noted as a disturbance of a walk over the findings:
it moves entries across an offset, and the code does not promise anything then.

## 4. What is checked

Run any of them with `tlc -config X.cfg M` in this directory.

| run | states (distinct) | what it asks |
|---|---|---|
| `rounds` | 29 thousand | candidates, rounds and proofs over as many rounds as fit, and the refinement of `ReviewLifecycle` |
| `people` | 69 thousand | duties and signed statements for every assignment of people; summaries against them |
| `answers` | 22 thousand | answers to findings against later edits and in differences |
| `timeline` | 9 thousand | overlap, coverage and rules at their bounds; previews against edits |
| `saves` | 50 thousand | failed saves, kills, restarts, misread files; refinement of `AtomicStore` |
| `creating` | 1.5 million | keys shared by people, copies of requests |
| `working` | 1.4 million | reads outside the mutex, one credential, replays, verification of it and of copies |
| `locks` | 123 thousand | atomicity, views without the mutex, which requests that only ask come to write, liveness |
| `paging` | 308 thousand | walks over the timeline and the findings |
| `second_rework`, `reading_speed`, `import_replay` | end at a violation | section 6 |

**Properties.** Each is stated above its definition. Those that took most
thought: `CuesDisjoint` (neighbour checks imply the property of all pairs, while
metadata moves underneath), `NoOpenBlockingPastReview` (a conclusion counts its
own round only), `AnswersAreInCandidate` (an answer survives the edits after it
or blocks the submission), `DutySeparation` (over the whole history, though the
fields it is checked against are overwritten), `SavesAreWhole` (job, event,
credential and key stand or fall together), `NoUnprovenRework` and
`PatchKeepsOtherFields` (a decision made on a read outside the mutex is harmless
when it is applied), `VerifiedWheneverFound` and `DetailNeverLags` (reads one by
one, in the order the code makes them, give no false verdict and no job that is
newer than its events), `PreviewAgrees` (two separate walks over a batch come to
the same), `NoFindingMissed` (a report only pushes entries away from the offset of
a walk, never behind it).

**Bounds of the job.** `MaxVersion` bounds the number of changes. One review
from creation to credential takes six; a second submission can come at the
earliest after seven, a third after twelve, so `rounds` uses 12 with `Pace`,
which stops a revision from idling for more than `Slack` changes beyond the five
it needs; without it the same states recur with larger version numbers. `people`
(9) covers one round trip through rework and on to the credential with one cue;
`answers` (9, `Slack` 2) covers two findings on two cues with edits between
answer and submission; `timeline` (5) builds tracks of up to three cues whose
times touch, overlap, nest or start together, at the edge of the programme, the
gap threshold of each rule set, 25 characters per second and the minimum
duration, under metadata that shrinks or changes rule set. Two findings, two or
three cues and three people are the smallest numbers at which the properties can
fail; the seeded faults show that they do fail there. People and finding
identifiers are symmetric: no action and no property names one.

**Bounds of the journal and the service.** `MaxEvents` 3 lets two jobs, two keys
and a credential meet a failed save before, between and after them. `MaxCalls` 4
is a request, its copy, and two others that move the job meanwhile; `InitialStore`
puts a job on its way, so that these calls are not spent on getting there. In
`working` clients ask for what the status they have seen allows (`AsksInTurn`), and
for imports whatever the status; what waits or is sent again meets any other. `Ahead` is how far beyond the version it can have
read a client names, and is 0 (see the end of section 6). A request with an older
version needs no extra input, it is one that was sent and handled late.
Symmetry is used only in `creating`, whose forms treat jobs and keys alike, in the
runs of the job and in the journal; every property under symmetry is a safety
property.

**Bounds of the locks and the pages.** In `locks` three connections serve one
request at a time each and any number one after the other: an editor (a metadata
revision, a deletion, a preview with operations), an approver (a signature, an
issue, a creation, findings sent to their preflight) and a reader (a view, a
verification, a batch of them), which is every kind of program the operations have, with a writer, another writer or a
reader waiting on each lock. `MaxVersion` 2 lets a change come before an issue and
between two reads; it bounds the writes, not the requests, so that behaviours are
infinite and liveness means something. In `paging` pages have at most two entries
and are asked for with sizes below and above that (`Limit`); four events and four
findings on two cues give walks of up to four pages with reports between any two of
them. `OneWalk` keeps a walk over the timeline and one over the findings from
being under way in one behaviour: a walk changes nothing the other reads.

**Deadlock.** Checked in the journal, which can always save, be killed or start, in
`locks`, where some connection can always arrive or go on, whoever holds and waits
for the two locks, and in `paging`, where a walk can always begin or go on. Not checked for a job (a credentialed job takes
no further change, and the version is bounded) nor for the service (all calls may be
answered).

**Fairness and liveness.** `ServiceLocks` states fairness: `WF_vars(Progress(r))` for
every connection, because a goroutine that can run does, and
`SF_vars(LockMutex(r))`, because `sync.Mutex` hands itself to a goroutine that has
waited for a millisecond, so that whoever asks for it while it is released again
and again gets it. Weak fairness is enough for the store's lock: once a writer
waits no reader enters, and who waited for the writer enters before the next one.
Nothing is assumed of arrivals, because nothing in the code makes anybody send the
next request. Under this `EveryRequestAnswered` holds: on whichever path an
operation ends, its locks are released. The other modules state no liveness: there
is no background work and no retry loop, and a claim such as "a submitted job is
eventually reviewed" would be about people.

**Idealisations.** SHA-256 is injective, so a digest is the value it is taken of.
Identifiers made by `newID` are fresh. Times are left out: nothing is decided by
them but the order of findings on one cue with one severity, for which the clock
is taken to advance between two reports. Notes and evidence are not blank (a blank
one is refused, like an incomplete metadata, which is in the inputs). Findings and answers carry no
fields that the service overwrites. In the journal a file is what `New` reads
from it, so no file is an empty store, and the process is killed, not the
machine: what an unsynced file holds after a power loss is not modelled.

## 5. What is proved

TLAPS proves the following for all values of the constants that satisfy the
assumptions stated with them (any people, cues, texts, findings, batches, rule
sets and bounds of the job; any jobs, keys, data and bound of the journal; any
clients, requests, keys, contents and consistent store of the service; any
connections, requests and bound of the locks; any filters, page sizes and bounds of
the lists). A batch of edits and the identifiers of findings are finite, because a
request is; `None` is neither a job nor a list of events.

| module | theorem | says |
|---|---|---|
| `ReviewJob_proofs` | `TypeCorrect` | `Spec => []TypeOK` |
| `ReviewJob_candidates` | `NoTwoCuesOverlap` | `Spec => []CuesDisjoint` |
| | `SnapshotsStayFrozen` | `Spec => SnapshotsImmutable` |
| | `ReviewedIsFrozen` | `Spec => []FrozenCandidate` |
| | `CandidatesDeliverable` | `Spec => []SnapshotsDeliverable` |
| | `JobImplementsLifecycle` | `Spec => ImplementsLifecycle` |
| `ReviewJob_safety` | `AtMostOneRework` | `Spec => []SingleRework` |
| | `PassedIsClean` | `Spec => []NoOpenBlockingPastReview` |
| | `HistoryIsLinked` | `Spec => []HistoryLinks` |
| | `AnswersAreFrozen` | `Spec => []AnswersAreInCandidate` |
| `ReviewJob_rounds` | `RoundsConcludedOnce` | `Spec => []OneConclusionPerRound` |
| | `CredentialIsDeserved` | `Spec => []CredentialAttestsReviewedCandidate` |
| | `ReworkIsProved` | `Spec => []ProofsInOrder` |
| | `FourEyes` | `Spec => []DutySeparation` |
| | `DiffShowsAnswers` | `Spec => []AnswersShowInDiff` |
| | `SummaryAddsUp` | `Spec => []SummaryMatchesConclusions` |
| | `PreviewTellsTheOutcome` | `Spec => []PreviewAgrees` |
| | `ImportableDraftsSubmit` | `Spec => ImportableIsSubmittable` |
| `Journal_proofs` | `ChainAlwaysVerifies` | `Spec => []ChainVerifies` |
| | `FailedSavesLeaveNothing` | `Spec => []MemoryIsFile` |
| | `StoreIsAtomic` | `Spec => ImplementsAtomicStore` |
| | `SavesStayWhole` | `Spec => []SavesAreWhole` |
| `CaptionService_proofs` | `CallsAreOfRequests` | `Spec => []TypeOK` |
| | `KeysAreUsedOnce` | `Spec => []KeyUsedOnce` |
| | `CopiesAreToldTheSame` | `Spec => []SameRequestSameAnswer` |
| | `IssuesAreConfirmed` | `Spec => IssueReplays` |
| | `CredentialsKeepVerifying` | `Spec => []CredentialVerifies` |
| | `ChangedCopiesFail` | `Spec => []OnlyTheCredentialVerifies` |
| | `ReworkNeedsBaseline` | `Spec => NoUnprovenRework`, if `Ahead = 0` |
| | `PatchesKeepOtherFields` | `Spec => PatchKeepsOtherFields`, if `Ahead = 0` |
| `ServiceLocks_proofs` | `OperationsAreAtomic` | `Spec => ImplementsAtomicService` |
| | `FoundCredentialsVerify` | `Spec => []VerifiedWheneverFound` |
| | `TypesHold` | `Spec => []TypeOK` |
| | `AskingWritesByFindingsOnly` | `Spec => []OnlyFindingsOverrideAsking` |
| | `DetailsNeverLag` | `Spec => []DetailNeverLags` |
| `Paging_proofs` | `Types` | `Spec => []TypeOK` |
| | `TimelineWalks` | `Spec => []TimelineWalkIsExact` |
| | `ChainDigestsTheWalk` | `Spec => []ChainCoversTheWalk` |
| | `FindingWalks` | `Spec => []NoFindingMissed` |

**The job.** `TypeOK` is not inductive: a submission takes the revision and round
counters up, and that they stay in range rests on every change taking the version
up as well; an approval read by a credential must be there. `TypeInv` adds this
(`Counters`, `ApprovalRecorded`). `FindingsInv` is `TypeInv` and four facts on
findings: each is about the candidate under review when it was reported
(`FindingsOfCandidates`); each answer names a later candidate, the next at most
(`AnswersInOrder`); severe ones are open only in the round they belong to, or in
rework (`OpenOnlyNow`), which makes the conclusion, that counts its round only,
count them all; and a rework has a severe finding on the candidate it replaces,
which stays answered once that is replaced (`ReworkHasCause`). In a second rework
that finding is an answered one of an earlier revision, the closure preflight
blocks on it, and no third candidate can be frozen (`NoThirdCandidate`).
`HistoryInv` adds the links themselves, `FrozenInv` is `TypeInv` with the
property. Candidates stay deliverable because the one operation that changes the
metadata is over before the first candidate is frozen. `DisjointInv` adds to
`CuesDisjoint` that the metadata is valid: `NeighboursDisjoint` shows
that no two cues overlap when no neighbours do: of the pairs that do, one with the
fewest cues between it has none between it. `AnswersInv` adds that the cue a severe
finding was about is in the candidate that answers it, because the closure preflight
has looked; other findings may lose theirs after the answer. The proofs first reduce
`Next` to what its requests do (`Steps`), so that the many ways of asking for the
same change are treated once.

**The rounds.** `RoundsInv` is `FrozenInv`, the property, and what the last
conclusion has to do with the status (`LastConclusion`): a job in rework was sent
there by it, a job past its review was passed by it with nothing severe open, and
its reviewer is the one the job remembers. On it rest what is signed and issued
(`AttestInv`), the proofs of the rework (`ProofsInv`: they are in the order of the
versions and their review is concluded) and four eyes. The code compares an actor
with fields that later rounds overwrite; `DutyInv` says instead, of each record of
the history, who else took part in the round it belongs to (`ReportsApart`,
`ReviewsApart`, `ReworkApart`, `ApprovalApart`, `IssuanceApart`), and each operation
disturbs one of them.

**The queries.** Differences show the answers because of `AnswersInv` and because a
digest tells texts apart. `SummaryInv` says of every conclusion that its statistics
are the numbers of findings of its round there are now; `TotalsAddUp` shows that the
rows of a severity have as many findings as that severity has, and what a row has
open of a concluded round is open in rework only (`UnresolvedMeansRework`). That a
preview agrees is a fact about the two walks over a batch, whatever the job:
`CleanBatches` shows that one accepts the operations exactly if the other does, and
`OnlyHoles` that what a preview finds of a batch that would be accepted are holes in
the coverage.

**The journal.** `ChainVerifies` and `MemoryIsFile` speak of the memory between
saves, and say nothing of a save in progress, whose failure is the interesting
case. `JInv` says what the save started from: `Base`, the state that a failure
would restore, is a state whose chain verifies, the memory is `Base` with the
write applied, and `Base` is the file. The lemma it rests on,
`RollbackUndoesSave`, is the heart of the matter: restoring the parts put aside
gives back exactly the state before, including the absence of a job, a key or a
credential that was not there and the event log cut at its old length. It needs
the write to name a job and a key of the store (`WritesAreAddressed`).
`StoreIsAtomic` then maps `Rename` to the abstract save, the in-memory save to
the same, the end of a store without a file to its loss, and every other step to
a stutter. Both speak of files that can always be read: a store that takes an
unreadable file for none replaces it, with a chain that verifies. `SavesStayWhole`
needs no such reservation: the memory, the file, and what a failure would restore
each have all the parts of their saves (`WholeInv`), because each of them is
another's or one write further.

**The service.** `ServiceInv` holds the store together with every call: the store is
`Consistent`; what a call has seen or was told of a job, the job as it is, and the
jobs in the records are all of one history, in which a job has one body for each
version (`OfOneHistory`); a call that had an effect has left its record under its
key; one told of a creation or an issue was told what the record or the credential
says; and no two effects have the same key. A write adds one version and one event to one
job, never to one with a credential, and uses a key without a record (`SoundWrite`).
`HistoryGrows` and `ConsistencyStays` are about any such write, `WritesAreSound` shows
that the requests lead to no other. A replay then tells what the first answer told,
as it is of the same version; the credential's chain is what precedes the last
event of its job, and it has no later one. `ReworkNeedsBaseline` and
`PatchesKeepOtherFields` have the hypothesis `Ahead = 0`, and without it they are
false (end of section 6). With it no request names a later version than the job
had when it was read outside the mutex (`NotAhead`), so one that is let through was
read at the version it is applied to, and was read as the job still is.

**The locks.** `OperationsAreAtomic` rests on an invariant of what each connection
holds: an operation that writes is inside the mutex from the read it works on to
its end, so there is one at most (`RoutesAreOperations` and the shape of each program say
where the mutex is taken); what such an operation has read of the job, the events
and the credential is still what the store holds when it writes. With that a
`WriteStore` is a step of `AtomicService` and everything else a stutter.
`FoundCredentialsVerify` adds what the store is: with a credential the last event is
its issue and the ones before are those it attests, and neither changes any more,
so a verification that has found the credential reads the same events whenever it
does. `AskingWritesByFindingsOnly` is a matter of the routes: every operation that a
request which only asks may lead to has a program without a write, unless the
request is a `POST` to the findings with findings or answers in its body
(`Overridden`; section 6, among what was observed). For `DetailsNeverLag` the
invariant says of each of the four reads of a detail what the earlier ones were: a
state of the job up to now; and that events read later cover it, with the issue if
the job is credentialed, and then there is a credential to be found (`DetailInv`).

**The walks.** For the timeline, the invariant is the property with the cursor
inside the log: an event appended later has a greater number, so it cannot fall
behind the cursor. For the findings it is: what was listed when the walk began and
has not been shown is at or after the cursor. A report inserts into the order and
only pushes entries back; a page shows everything from the cursor to the cursor it
hands on; and a last page leaves nothing behind. The lemmas count positions as
cardinalities of sets of findings.

**Only model-checked.** `EveryRequestAnswered`: the prover does not do liveness or
`ENABLED`. All other properties that hold are proved. The
violations of section 6 are traces; that the first of them is so for every job is
`AtMostOneRework`. No definition of the modules with proofs is recursive, so nothing
needs induction over data. That the sort orders of `ValidateCues` are what Go's sort returns, and that a
store at work is the atomic one the service and the locks take it for, is part of the
models (the second by `StoreIsAtomic`, for a file that can be read).

## 6. Where the code and its words disagree

Each is a run that expects a violation; the trace TLC prints is the scenario.

1. **A second rework is a dead end** (`second_rework`, `workflows.go:303`). The
   closure preflight wants every answered finding to have been answered for the
   *next* revision, those answered in the first rework too. After a second
   review that sends the job back it reports them as answered for the wrong
   revision, and they cannot be answered again. `AtMostOneRework` proves that no
   job is ever submitted a third time.
2. **25 characters per second is sometimes more than 25** (`reading_speed`,
   `workflows.go:130`): for some lengths the quotient in `float64` is above 25.
3. **An import with a key is not replayed in rework** (`import_replay`,
   `server.go:331`): the route is chosen by the status at arrival, and
   `ReworkCues` does not look at keys. The retry is refused; nothing is done
   twice.

Observed while modelling, without a run:

- A partial metadata revision with a key is completed with the metadata of the
  moment it arrives before the digest of the request is taken (`server.go:187`): a
  retry after somebody else's revision is refused as a conflict, not replayed.
- A `DELETE` of a cue without an identifier is taken for an upsert
  (`server.go:356`).
- A `POST` to `findings/preflight` or `findings/closure-preflight` is routed by its
  body before its path: findings or answers in it are registered and no preflight is
  answered (`server.go:431` comes before `server.go:443`), although the repository's
  README says that the path returns the preflight. `OnlyFindingsOverrideAsking` makes
  this its one exception, and `locks` sends such a request: without the exception
  TLC finds the property violated.
- `approval/readiness` with a digest computes the report twice (`server.go:478`).
- A walk over the findings can skip entries when the rework moves the list (cues
  edited, or answers under a status filter), and when two findings on one cue with
  one severity carry the same time (`service.go:728`: a map's order and an unstable
  sort); a negative cursor slices before the list.
- The creation event names `system` instead of the creator as its actor; an event's
  actor and time are not part of its digest.
- A file that cannot be read, or is empty, is taken for an empty store and replaced
  by the next save.
- Two findings on one cue must be answered in one batch, because each answer must
  follow the edit of its cue directly; anonymous requests may submit, approve and
  issue.
- The `maps` of `idempotency.go` and `Service.idem`, `PutCredential`, `Frame`,
  `Replay` and `Service.FinishReview` are not used by the program.

Whether an edit in rework needs a baseline (README.md:34 of the service says it
does) is decided by a status read outside the mutex, while `BatchCues` accepts
jobs in rework. With clients that name only versions they have read, the version
check closes the gap: `NoUnprovenRework`. With `Ahead = 1`, a client that names
the next version before it has read it, TLC finds in three calls that an edit
routed before the conclusion of a review is applied after it without a baseline.
The same client can undo, by a partial revision completed with what was read before,
what somebody else has revised meanwhile (`PatchKeepsOtherFields`).

## 7. What is not modelled

- **HTTP decoding, status codes, limits of bodies, error messages, and the order
  and wording of replies** are input and output.
- **The process entry point and its self check**: flags, listening, and a client
  with a fixed script of operations that are all modelled.
- **Dead code** named at the end of section 6. `PutCredential` would be the one
  save without a rollback; no operation calls it.
- **Power loss**, the file system's ordering, and files edited from outside.
- **Times**: waiting and resolution times of summaries, and ties of the clock.
- **Whether a job can still be finished** after an unlucky order of answers
  (`workflows.go:402`): a possibility, which these properties do not express.
