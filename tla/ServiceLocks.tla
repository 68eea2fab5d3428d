----------------------------- MODULE ServiceLocks -----------------------------
(***************************************************************************)
(* Requests on one job at the grain of the locks they take: the service's  *)
(* mutex, which every operation that writes holds from its first read to   *)
(* its end, and the store's readers-writer lock, which is held for one     *)
(* read or one write at a time.  Several operations that only read take no *)
(* mutex, and read the job, its events and its credential one by one.      *)
(*                                                                         *)
(* What an operation answers, and what the rules of a job refuse, is the   *)
(* business of ReviewJob and CaptionService: here any read may end an      *)
(* operation, as a refusal or a replay.                                    *)
(***************************************************************************)
EXTENDS HttpRoutes

\* What the store holds of a job, and which events it appends to it.
Job == [version : Nat, issued : BOOLEAN]
EventType == {"changed", "credential.issued"}

CONSTANTS
    Request,      \* the connections of clients, one request at a time on each
    Form,         \* the requests each of them makes
    None,         \* no request, no credential, nothing read
    MaxVersion    \* bound on the version of the job

ASSUME RequestAssumption == None \notin Request
ASSUME FormAssumption == \A r \in Request : Form[r] \subseteq HttpRequest \ {None}
ASSUME MaxVersionAssumption == MaxVersion \in Nat
ASSUME NoneAssumption == None \notin Job \cup Seq(EventType)

VARIABLES
    mutex,     \* Service.mu: the request that holds it
    readers,   \* Store.mu: the requests that hold it to read,
    writer,    \* the request that holds it to write, or waits for the readers,
    blocked,   \* the readers that wait for that writer
    store,     \* what the store holds of the job
    form,      \* what is being served on each connection,
    op,        \* the operation of the service that is,
    at,        \* the step it is at; 0 when it is about to return
    got        \* and what it has read of the job, of its events and credential

locks == <<mutex, readers, writer, blocked>>
vars == <<mutex, readers, writer, blocked, store, form, op, at, got>>

Atomic == INSTANCE AtomicService

-----------------------------------------------------------------------------
(* The steps of each operation. *)

Unlocked == {"FindFindings", "FindingStatistics", "ClosurePreflight", "Diff"}
Writing == {"BatchCues", "ReworkCues", "UpsertCue", "DeleteCue", "Submit", "AddFinding",
            "BatchFindings", "FinishReview", "Respond", "BatchRespond", "Approve",
            "ReviseMetadata", "Credential"}
Verifying == {"VerifyCredential", "VerifyCredentialCopy", "VerifyCredentialsBatch"}

\* "get", "exists", "events", "credential", "idempotency" and "verify" are the reads
\* of the store, "save" its writes; "exists" reads the job and forgets it, as Timeline
\* does.  The HTTP layer reads the job before it calls the operations that revise
\* metadata or edit cues.  A batch of credentials repeats its last reads, and a
\* replay, which ends an operation, may read once more what it returns.
Program(o) ==
    CASE o = "CreateJob"      -> <<"lock", "idempotency", "create">>
      [] o \in {"ReviseMetadata", "BatchCues"} ->
                                 <<"get", "lock", "get", "idempotency", "save">>
      [] o \in {"ReworkCues", "UpsertCue", "DeleteCue"} -> <<"get", "lock", "get", "save">>
      [] o \in {"Submit", "AddFinding", "BatchFindings", "FinishReview", "Respond",
                "BatchRespond", "Approve"} -> <<"lock", "get", "save">>
      [] o = "Credential" -> <<"lock", "get", "idempotency", "credential", "events", "save">>
      [] o \in {"PreviewCues", "Snapshot"} -> <<"lock", "verify", "get">>
      [] o = "Preflight"      -> <<"lock", "get">>
      [] o = "Detail"         -> <<"get", "exists", "events", "credential">>
      [] o = "TimelinePage"   -> <<"exists", "events">>
      [] o = "Readiness"      -> <<"get", "get">>
      [] o \in Unlocked       -> <<"get">>
      [] o \in {"VerifyCredential", "VerifyCredentialCopy"} ->
                                 <<"credential", "get", "events">>
      [] o = "VerifyCredentialsBatch" -> <<"verify", "credential", "get", "events">>

Unread == [job |-> None, events |-> None, credential |-> None]

\* A connection that is idle has no form.
Busy(r) == form[r] # None
Working(r) == Busy(r) /\ at[r] # 0

\* A seeded fault: a detail reads the credential before the events.
Step_Detail_Bug(r) ==
    IF op[r] = "Detail" THEN <<"get", "exists", "credential", "events">>[at[r]]
                        ELSE Program(op[r])[at[r]]
\* A seeded fault: a verification reads the events before the credential.
Step_Verify_Bug(r) ==
    IF op[r] = "VerifyCredential" THEN <<"events", "get", "credential">>[at[r]]
                                  ELSE Program(op[r])[at[r]]
Step(r) == Program(op[r])[at[r]]

\* A seeded fault: the last step is never left.
Advanced_Bug(r) == [at EXCEPT ![r] = @ + 1]
\* The next step, or 0 after the last.
Advanced(r) == [at EXCEPT ![r] = IF @ = Len(Program(op[r])) THEN 0 ELSE @ + 1]

-----------------------------------------------------------------------------

\* jobSubpath finds the operation.  What it answers itself takes no lock.
Arrive(r, f) ==
    /\ ~ Busy(r)
    /\ form' = [form EXCEPT ![r] = f]
    /\ \E o \in Route(f) : op' = [op EXCEPT ![r] = o]
    /\ at' = [at EXCEPT ![r] = 1]
    /\ UNCHANGED <<mutex, readers, writer, blocked, store, got>>

\* A seeded fault: the mutex is not taken.
LockMutex_Bug(r) ==
    /\ Working(r) /\ Step(r) = "lock"
    /\ at' = Advanced(r)
    /\ UNCHANGED <<mutex, readers, writer, blocked, store, form, op, got>>
LockMutex(r) ==
    /\ Working(r) /\ Step(r) = "lock"
    /\ mutex = None
    /\ mutex' = r
    /\ at' = Advanced(r)
    /\ UNCHANGED <<readers, writer, blocked, store, form, op, got>>

Reads == {"get", "exists", "events", "credential", "idempotency", "verify"}

\* RLock: who comes after a writer waits for it.
LockToRead(r) ==
    /\ Working(r) /\ Step(r) \in Reads
    /\ r \notin readers \cup blocked
    /\ IF writer = None THEN readers' = readers \cup {r} /\ UNCHANGED blocked
                        ELSE blocked' = blocked \cup {r} /\ UNCHANGED readers
    /\ UNCHANGED <<mutex, writer, store, form, op, at, got>>

Read(r) ==
    [got EXCEPT ![r] = CASE Step(r) = "get"        -> [@ EXCEPT !.job = store.job]
                         [] Step(r) = "events"     -> [@ EXCEPT !.events = store.events]
                         [] Step(r) = "credential" -> [@ EXCEPT !.credential = store.credential]
                         [] OTHER                  -> @]

\* What ends an operation for sure: a change of a job that takes no more, an issue
\* when there is a credential, a verification when there is none.
MustEnd(r) ==
    \/ /\ op[r] \in Writing
       /\ at[r] + 1 \in DOMAIN Program(op[r]) /\ Program(op[r])[at[r] + 1] = "save"
       /\ Atomic!Closed(Read(r)[r].job)
    \/ Step(r) = "credential" /\ op[r] \in Verifying /\ store.credential = None
    \/ Step(r) = "credential" /\ op[r] = "Credential" /\ store.credential # None

\* Detail answers what it finds after its first read.
MayEnd(r) == op[r] = "Detail" => at[r] = 1

ReadStore(r) ==
    /\ Working(r) /\ r \in readers
    /\ readers' = readers \ {r}
    /\ \/ ~ MustEnd(r) /\ at' = Advanced(r) /\ got' = Read(r)
       \/ MayEnd(r) /\ at' = [at EXCEPT ![r] = 0] /\ got' = [got EXCEPT ![r] = Unread]
    /\ UNCHANGED <<mutex, writer, blocked, store, form, op>>

\* Lock: from here on no reader enters.
LockToWrite(r) ==
    /\ Working(r) /\ Step(r) \in {"save", "create"}
    /\ writer = None
    /\ writer' = r
    /\ UNCHANGED <<mutex, readers, blocked, store, form, op, at, got>>

\* Save, SaveIdempotent, CommitCredential, and Create, which adds another job.  A
\* write whose file fails is taken back.
WriteStore(r) ==
    /\ writer = r /\ readers = {}
    /\ \/ /\ Step(r) = "save"
          /\ store' = IF op[r] = "Credential"
                      THEN Atomic!Issued(store, got[r].job, got[r].events)
                      ELSE Atomic!Changed(store, got[r].job)
       \/ UNCHANGED store
    /\ writer' = None /\ readers' = blocked /\ blocked' = {}
    /\ at' = Advanced(r)
    /\ UNCHANGED <<mutex, form, op, got>>

\* A seeded fault: an operation that ends early keeps the mutex.
Return_Bug(r) ==
    /\ Busy(r) /\ at[r] = 0
    /\ mutex' = IF mutex = r /\ got[r] # Unread THEN None ELSE mutex
    /\ form' = [form EXCEPT ![r] = None] /\ op' = [op EXCEPT ![r] = "none"]
    /\ got' = [got EXCEPT ![r] = Unread]
    /\ UNCHANGED <<readers, writer, blocked, store, at>>
\* The deferred Unlock, and the answer.
Return(r) ==
    /\ Busy(r) /\ at[r] = 0
    /\ mutex' = IF mutex = r THEN None ELSE mutex
    /\ form' = [form EXCEPT ![r] = None] /\ op' = [op EXCEPT ![r] = "none"]
    /\ got' = [got EXCEPT ![r] = Unread]
    /\ UNCHANGED <<readers, writer, blocked, store, at>>

Init ==
    /\ mutex = None /\ readers = {} /\ writer = None /\ blocked = {}
    /\ store = Atomic!Created
    /\ form = [r \in Request |-> None] /\ op = [r \in Request |-> "none"]
    /\ at = [r \in Request |-> 0] /\ got = [r \in Request |-> Unread]

Progress(r) == LockToRead(r) \/ ReadStore(r) \/ LockToWrite(r) \/ WriteStore(r) \/ Return(r)

Next == \E r \in Request : (\E f \in Form[r] : Arrive(r, f)) \/ LockMutex(r) \/ Progress(r)

\* Goroutines run.  Go's mutex does not starve who waits for it: a waiter that has
\* waited for a millisecond is given it next.
Fairness == \A r \in Request : WF_vars(Progress(r)) /\ SF_vars(LockMutex(r))

Spec == Init /\ [][Next]_vars /\ Fairness

-----------------------------------------------------------------------------
(* Safety. *)

Seen == [job : Job \cup {None}, events : Seq(EventType) \cup {None},
         credential : Seq(EventType) \cup {None}]

\* Connections are idle or at a step of an operation their request leads to, and
\* hold the locks that step is taken under.
TypeOK ==
    /\ mutex \in Request \cup {None}
    /\ readers \in SUBSET Request /\ blocked \in SUBSET Request
    /\ writer \in Request \cup {None}
    /\ store \in Seen /\ store.job # None /\ store.events # None
    /\ got \in [Request -> Seen]
    /\ \A r \in Request :
         /\ at[r] # 0 => Busy(r) /\ at[r] \in DOMAIN Program(op[r])
         /\ Busy(r) => form[r] \in Form[r] /\ op[r] \in Route(form[r])
    /\ \A r \in readers \cup blocked : Working(r) /\ Step(r) \in Reads
    /\ writer # None => Working(writer) /\ Step(writer) \in {"save", "create"}
    /\ blocked # {} => writer # None

\* A request that reads, that asks for a preflight, or to verify, by its method, its
\* path or a flag.
AsksOnly(q) ==
    \/ q.method = "GET"
    \/ q.path \in {"preflight", "verify", "verify-batch"}
    \/ q.path = "cues" /\ q.method = "POST" /\ (q.sub = "preflight" \/ "preflight" \in q.with)
    \/ q.path = "submit" /\ q.sub = "preflight"
    \/ q.path = "findings" /\ q.sub \in {"preflight", "closure-preflight"}
    \/ q.path = "approval" /\ q.sub = "readiness"

\* Lists of findings or of answers in the body of a POST to the findings, which
\* FindingsRoute looks at before the path.
Overridden(q) ==
    q.path = "findings" /\ q.method = "POST" /\ q.with \cap {"findings", "responses"} # {}

\* A request that only asks comes to write in one case: it goes to the findings,
\* which their preflights do, and its body holds findings or answers.  All others
\* read, whatever their bodies hold.
OnlyFindingsOverrideAsking ==
    writer # None /\ AsksOnly(form[writer]) => Overridden(form[writer])

Answering(r) == Busy(r) /\ at[r] = 0

\* A credential that is found verifies, although it, the job and the events are
\* read one by one while others write: the events that are read include its issue,
\* and without it are those it attests.
VerifiedWheneverFound ==
    \A r \in Request :
        Answering(r) /\ op[r] \in Verifying /\ got[r].events # None =>
            LET E == got[r].events
                n == Len(E)
            IN  /\ E[n] = "credential.issued"
                /\ got[r].credential = SubSeq(E, 1, n - 1)

\* The three parts of a detail are read without the mutex and may be of different
\* moments, but each is as new as the one read before it: the events include what
\* the job has been through, and the credential is there when its issue is.
DetailNeverLags ==
    \A r \in Request :
        Answering(r) /\ op[r] = "Detail" /\ got[r].events # None =>
            LET E == got[r].events IN
            /\ got[r].job.version < Len(E)
            /\ got[r].job.issued => "credential.issued" \in {E[i] : i \in DOMAIN E}
            /\ "credential.issued" \in {E[i] : i \in DOMAIN E} => got[r].credential # None

\* The operations, at the grain of their locks, are those of a service that does
\* one write at a time on the state the last has left.
ImplementsAtomicService == Atomic!Spec

-----------------------------------------------------------------------------
(* Liveness. *)

\* Every request is answered, whoever else holds or waits for the locks, and on
\* whichever path an operation ends.
EveryRequestAnswered == \A r \in Request : Busy(r) ~> ~ Busy(r)

=============================================================================
