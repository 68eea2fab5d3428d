------------------------- MODULE ServiceLocks_proofs --------------------------
(***************************************************************************)
(* For any number of requests: the operations of the service, taken apart  *)
(* into the sections of the locks they hold, are those of a service that   *)
(* does one write at a time; a credential that is found verifies; the      *)
(* parts of a detail are each as new as the one before; and who only asks  *)
(* never comes to write.                                                   *)
(*                                                                         *)
(* The inductive invariant says how far an operation that writes has come: *)
(* beyond its "lock" it holds the mutex, beyond the "get" that follows what *)
(* it has read of the job is the job.  So nobody else is between the two   *)
(* and a write.                                                            *)
(***************************************************************************)
EXTENDS ServiceLocks, TLAPS

-----------------------------------------------------------------------------
(* The operations and their steps. *)

\* Whatever an HTTP request asks for, the service has the operation.
LEMMA RoutesAreOperations ==
    ASSUME NEW q \in HttpRequest PROVE Route(q) \subseteq Operation
<1>1. q.method \in Method /\ q.path \in Path
  BY DEF HttpRequest
<1>2. JobRoute(q) \subseteq Operation
  BY DEF JobRoute, FirstOf, Operation
<1>3. CuesRoute(q) \subseteq Operation
  <2>1. {"PreviewCues"} \subseteq Operation /\ {"BatchCues", "ReworkCues"} \subseteq Operation
        /\ {"DeleteCue", "ReworkCues"} \subseteq Operation
        /\ {"UpsertCue", "ReworkCues"} \subseteq Operation
    BY DEF Operation
  <2>2. \A b, c, d \in BOOLEAN :
          FirstOf(<< <<b, {"PreviewCues"}>>, <<c, {"BatchCues", "ReworkCues"}>>,
                     <<d, {"DeleteCue", "ReworkCues"}>>,
                     <<TRUE, {"UpsertCue", "ReworkCues"}>> >>) \subseteq Operation
    BY <2>1 DEF FirstOf
  <2> QED  BY <2>2 DEF CuesRoute
<1>4. SubmitRoute(q) \subseteq Operation /\ ApprovalRoute(q) \subseteq Operation
      /\ ReviewRoute(q) \subseteq Operation /\ CredentialRoute(q) \subseteq Operation
      /\ DiffRoute(q) \subseteq Operation
  BY DEF SubmitRoute, ApprovalRoute, ReviewRoute, CredentialRoute, DiffRoute, Operation
<1>5. FindingsRoute(q) \subseteq Operation
  BY DEF FindingsRoute, FirstOf, Operation
<1>6. VerifyRoute(q) \subseteq Operation
  BY DEF VerifyRoute, FirstOf, Operation
<1>7. {"CreateJob"} \subseteq Operation /\ {"VerifyCredentialsBatch"} \subseteq Operation
      /\ {"Preflight"} \subseteq Operation /\ {"TimelinePage"} \subseteq Operation
  BY DEF Operation
<1> QED
  BY <1>1, <1>2, <1>3, <1>4, <1>5, <1>6, <1>7 DEF Route, Path, JobPath, JobsRoute, BatchVerifyRoute

\* Where an operation that writes takes the mutex.
LockAt(o) ==
    IF o \in {"ReviseMetadata", "BatchCues", "ReworkCues", "UpsertCue", "DeleteCue"}
    THEN 2 ELSE 1

LEMMA ProgramsWithEarlyRead ==
    /\ \A o \in {"ReviseMetadata", "BatchCues"} :
         Program(o) = <<"get", "lock", "get", "idempotency", "save">>
    /\ \A o \in {"ReworkCues", "UpsertCue", "DeleteCue"} :
         Program(o) = <<"get", "lock", "get", "save">>
BY DEF Program, Unlocked

LEMMA ProgramsFromLock ==
    /\ \A o \in {"Submit", "AddFinding", "BatchFindings", "FinishReview", "Respond",
                 "BatchRespond", "Approve"} : Program(o) = <<"lock", "get", "save">>
    /\ Program("Credential") =
         <<"lock", "get", "idempotency", "credential", "events", "save">>
BY DEF Program, Unlocked

\* Operations that write take the mutex, read the job at once and not again, and
\* write at their end.
LEMMA WritingPrograms ==
    ASSUME NEW o \in Writing
    PROVE  LET p == Program(o) IN
           /\ Len(p) \in Nat /\ DOMAIN p = 1..Len(p)
           /\ LockAt(o) \in 1..2 /\ LockAt(o) + 2 <= Len(p)
           /\ p[LockAt(o) + 1] = "get"
           /\ \A i \in 1..Len(p) : /\ p[i] \in {"save", "create"} <=> i = Len(p)
                                   /\ p[i] = "lock" <=> i = LockAt(o)
                                   /\ i > LockAt(o) + 1 => p[i] # "get"
<1>1. CASE o \in {"ReviseMetadata", "BatchCues"}
  <2>1. Program(o) = <<"get", "lock", "get", "idempotency", "save">> /\ LockAt(o) = 2
    BY <1>1, ProgramsWithEarlyRead DEF LockAt
  <2>2. \A i \in 1..5 : i \in {1, 2, 3, 4, 5}  OBVIOUS
  <2>3. Len(Program(o)) = 5 /\ DOMAIN Program(o) = 1..5  BY <2>1
  <2> QED  BY <2>1, <2>2, <2>3
<1>2. CASE o \in {"ReworkCues", "UpsertCue", "DeleteCue"}
  <2>1. Program(o) = <<"get", "lock", "get", "save">> /\ LockAt(o) = 2
    BY <1>2, ProgramsWithEarlyRead DEF LockAt
  <2>2. \A i \in 1..4 : i \in {1, 2, 3, 4}  OBVIOUS
  <2>3. Len(Program(o)) = 4 /\ DOMAIN Program(o) = 1..4  BY <2>1
  <2> QED  BY <2>1, <2>2, <2>3
<1>3. CASE o \in {"Submit", "AddFinding", "BatchFindings", "FinishReview", "Respond",
                  "BatchRespond", "Approve"}
  <2>1. Program(o) = <<"lock", "get", "save">> /\ LockAt(o) = 1
    BY <1>3, ProgramsFromLock DEF LockAt
  <2>2. \A i \in 1..3 : i \in {1, 2, 3}  OBVIOUS
  <2>3. Len(Program(o)) = 3 /\ DOMAIN Program(o) = 1..3  BY <2>1
  <2> QED  BY <2>1, <2>2, <2>3
<1>4. CASE o = "Credential"
  <2>1. Program(o) = <<"lock", "get", "idempotency", "credential", "events", "save">>
        /\ LockAt(o) = 1
    BY <1>4, ProgramsFromLock DEF LockAt
  <2>2. \A i \in 1..6 : i \in {1, 2, 3, 4, 5, 6}  OBVIOUS
  <2>3. Len(Program(o)) = 6 /\ DOMAIN Program(o) = 1..6  BY <2>1
  <2> QED  BY <2>1, <2>2, <2>3
<1> QED
  BY <1>1, <1>2, <1>3, <1>4 DEF Writing

\* The others do not write the job, and only one writes at all.
LEMMA ReadingPrograms ==
    ASSUME NEW o \in Operation \ Writing
    PROVE  LET p == Program(o) IN
           /\ Len(p) \in Nat /\ Len(p) >= 1 /\ DOMAIN p = 1..Len(p)
           /\ \A i \in 1..Len(p) : p[i] # "save" /\ (p[i] = "create" => o = "CreateJob")
<1>1. CASE o = "CreateJob"
  <2>1. Program(o) = <<"lock", "idempotency", "create">>  BY <1>1 DEF Program, Unlocked
  <2> QED  BY <1>1, <2>1
<1>2. CASE o \in {"PreviewCues", "Snapshot"}
  <2>1. Program(o) = <<"lock", "verify", "get">>  BY <1>2 DEF Program, Unlocked
  <2> QED  BY <2>1
<1>3. CASE o = "Preflight"
  <2>1. Program(o) = <<"lock", "get">>  BY <1>3 DEF Program, Unlocked
  <2> QED  BY <2>1
<1>4. CASE o = "Detail"
  <2>1. Program(o) = <<"get", "exists", "events", "credential">>  BY <1>4 DEF Program, Unlocked
  <2> QED  BY <2>1
<1>5. CASE o = "TimelinePage"
  <2>1. Program(o) = <<"exists", "events">>  BY <1>5 DEF Program, Unlocked
  <2> QED  BY <2>1
<1>6. CASE o = "Readiness"
  <2>1. Program(o) = <<"get", "get">>  BY <1>6 DEF Program, Unlocked
  <2> QED  BY <2>1
<1>7. CASE o \in Unlocked
  <2>1. Program(o) = <<"get">>  BY <1>7 DEF Program, Unlocked
  <2> QED  BY <2>1
<1>8. CASE o \in {"VerifyCredential", "VerifyCredentialCopy"}
  <2>1. Program(o) = <<"credential", "get", "events">>  BY <1>8 DEF Program, Unlocked
  <2> QED  BY <2>1
<1>9. CASE o = "VerifyCredentialsBatch"
  <2>1. Program(o) = <<"verify", "credential", "get", "events">>
    BY <1>9 DEF Program, Unlocked
  <2> QED  BY <2>1
<1> QED
  BY <1>1, <1>2, <1>3, <1>4, <1>5, <1>6, <1>7, <1>8, <1>9 DEF Operation, Writing, Unlocked

-----------------------------------------------------------------------------
(* The inductive invariant. *)

Shapes ==
    /\ at \in [Request -> Nat] /\ DOMAIN op = Request /\ DOMAIN form = Request
    /\ DOMAIN got = Request
    /\ \A r \in Request :
         got[r] = [job |-> got[r].job, events |-> got[r].events, credential |-> got[r].credential]
    /\ store = [job |-> store.job, events |-> store.events, credential |-> store.credential]
    /\ readers \subseteq Request /\ blocked \subseteq Request /\ readers \cap blocked = {}
    /\ writer \in Request \cup {None}

AtItsStep(r) ==
    /\ Busy(r) => op[r] \in Operation
    /\ Working(r) => at[r] \in 1..Len(Program(op[r]))
    /\ r \in readers \cup blocked => Working(r) /\ Step(r) \in Reads
    /\ writer = r => Working(r) /\ Step(r) \in {"save", "create"}

\* An operation that writes is i steps beyond its "lock".
Beyond(r, i) == Working(r) /\ op[r] \in Writing /\ at[r] > LockAt(op[r]) + i

HoldsMutex(r) == Beyond(r, 0) => mutex = r
KnowsJob(r) == Beyond(r, 1) => got[r].job = store.job
MaySave(r) == Beyond(r, 1) /\ Step(r) = "save" => ~ Atomic!Closed(store.job)
KnowsEvents(r) ==
    Beyond(r, 1) /\ Step(r) = "save" /\ op[r] = "Credential" => got[r].events = store.events

InvOf(r) == AtItsStep(r) /\ HoldsMutex(r) /\ KnowsJob(r) /\ MaySave(r) /\ KnowsEvents(r)

LockInv == Shapes /\ \A r \in Request : InvOf(r)

-----------------------------------------------------------------------------

LEMMA StepsAreNumbered ==
    ASSUME NEW o \in Operation
    PROVE  Len(Program(o)) \in Nat /\ Len(Program(o)) >= 1 /\ DOMAIN Program(o) = 1..Len(Program(o))
<1>1. CASE o \in Writing  BY <1>1, WritingPrograms
<1>2. CASE o \notin Writing  BY <1>2, ReadingPrograms
<1> QED  BY <1>1, <1>2

\* A request is not disturbed by a step that leaves it, the store and its mutex be.
LEMMA Undisturbed ==
    ASSUME NEW s \in Request, InvOf(s),
           form'[s] = form[s], op'[s] = op[s], at'[s] = at[s], got'[s] = got[s],
           store' = store \/ ~ Beyond(s, 0), mutex = s => mutex' = s,
           s \in readers' \cup blocked' => s \in readers \cup blocked,
           writer' = s => writer = s
    PROVE  InvOf(s)'
<1>1. Busy(s)' = Busy(s) /\ Working(s)' = Working(s) /\ Step(s)' = Step(s)
  BY DEF Busy, Working, Step
<1>2. AtItsStep(s)'
  BY <1>1 DEF InvOf, AtItsStep
<1>3. \A i \in {0, 1} : Beyond(s, i)' = Beyond(s, i)
  BY <1>1 DEF Beyond
<1>4. Beyond(s, 1) /\ AtItsStep(s) => Beyond(s, 0)
  BY WritingPrograms DEF Beyond, AtItsStep
<1>5. HoldsMutex(s)'
  BY <1>3 DEF InvOf, HoldsMutex
<1> QED
  BY <1>1, <1>2, <1>3, <1>4, <1>5 DEF InvOf, KnowsJob, MaySave, KnowsEvents, Atomic!Closed

LEMMA LockInvInit == Init => LockInv
<1> SUFFICES ASSUME Init PROVE LockInv
  OBVIOUS
<1>1. Shapes
  BY DEF Init, Shapes, Unread, Atomic!Created
<1>2. ASSUME NEW r \in Request PROVE InvOf(r)
  <2>1. ~ Busy(r) /\ ~ Working(r) /\ writer # r
    BY RequestAssumption DEF Init, Busy, Working
  <2> QED  BY <2>1 DEF Init, InvOf, AtItsStep, HoldsMutex, KnowsJob, MaySave, KnowsEvents, Beyond
<1> QED  BY <1>1, <1>2 DEF LockInv

\* A request that arrives is before its lock.
LEMMA ArriveStep ==
    ASSUME LockInv, NEW r \in Request, NEW f \in Form[r], Arrive(r, f)
    PROVE  LockInv'
<1> USE DEF LockInv
<1>1. Shapes'
  BY DEF Arrive, Shapes
<1>2. ASSUME NEW s \in Request, s # r PROVE InvOf(s)'
  <2>1. form'[s] = form[s] /\ op'[s] = op[s] /\ at'[s] = at[s] /\ got'[s] = got[s]
    BY <1>2 DEF Arrive, Shapes
  <2> QED  BY <2>1, Undisturbed DEF Arrive
<1>3. InvOf(r)'
  <2>1. Busy(r)' /\ at'[r] = 1 /\ op'[r] \in Operation
    BY RoutesAreOperations, FormAssumption DEF Arrive, Shapes, Busy
  <2>2. r \notin readers \cup blocked /\ writer # r
    BY DEF Arrive, InvOf, AtItsStep, Working
  <2>3. AtItsStep(r)'
    BY <2>1, <2>2, StepsAreNumbered DEF AtItsStep, Working, Arrive
  <2>4. ~ Beyond(r, 0)' /\ ~ Beyond(r, 1)'
    BY <2>1, WritingPrograms DEF Beyond
  <2> QED  BY <2>3, <2>4 DEF InvOf, HoldsMutex, KnowsJob, MaySave, KnowsEvents
<1> QED  BY <1>1, <1>2, <1>3

\* A request that takes the mutex has not yet read the job.
LEMMA LockMutexStep ==
    ASSUME LockInv, NEW r \in Request, LockMutex(r)
    PROVE  LockInv'
<1> USE DEF LockInv
<1>1. Working(r) /\ op[r] \in Operation /\ at[r] \in 1..Len(Program(op[r])) /\ Step(r) = "lock"
  BY DEF LockMutex, InvOf, AtItsStep, Working
<1>2. at'[r] = (IF at[r] = Len(Program(op[r])) THEN 0 ELSE at[r] + 1)
      /\ \A s \in Request \ {r} : at'[s] = at[s]
  BY DEF LockMutex, Shapes, Advanced
<1>3. Shapes'
  BY <1>1, StepsAreNumbered DEF LockMutex, Shapes, Advanced
<1>4. ASSUME NEW s \in Request, s # r PROVE InvOf(s)'
  <2>1. form'[s] = form[s] /\ op'[s] = op[s] /\ at'[s] = at[s] /\ got'[s] = got[s]
    BY <1>2, <1>4 DEF LockMutex
  <2>2. mutex # s
    BY RequestAssumption DEF LockMutex
  <2> QED  BY <2>1, <2>2, Undisturbed DEF LockMutex
<1>5. InvOf(r)'
  <2>1. r \notin readers \cup blocked /\ writer # r
    BY <1>1 DEF InvOf, AtItsStep, Reads
  <2>2. AtItsStep(r)'
    BY <1>1, <1>2, <2>1, StepsAreNumbered DEF AtItsStep, Working, Busy, LockMutex
  <2>3. op[r] \in Writing => at[r] = LockAt(op[r])
    BY <1>1, WritingPrograms DEF Step
  <2>4. ~ Beyond(r, 1)'
    BY <1>1, <1>2, <2>3, WritingPrograms DEF Beyond, Working, LockMutex
  <2> QED  BY <2>2, <2>4 DEF InvOf, HoldsMutex, KnowsJob, MaySave, KnowsEvents, LockMutex
<1> QED  BY <1>3, <1>4, <1>5

LEMMA LockToReadStep ==
    ASSUME LockInv, NEW r \in Request, LockToRead(r)
    PROVE  LockInv'
<1> USE DEF LockInv
<1>1. Shapes'
  BY DEF LockToRead, Shapes
<1>2. ASSUME NEW s \in Request, s # r PROVE InvOf(s)'
  BY <1>2, Undisturbed DEF LockToRead
<1>3. InvOf(r)'
  <2>1. AtItsStep(r)'
    BY DEF LockToRead, InvOf, AtItsStep, Working, Busy, Step
  <2>2. \A i \in {0, 1} : Beyond(r, i)' = Beyond(r, i)
    BY DEF LockToRead, Beyond, Working, Busy
  <2>3. Step(r)' = Step(r)
    BY DEF LockToRead, Step
  <2> QED
    BY <2>1, <2>2, <2>3 DEF InvOf, HoldsMutex, KnowsJob, MaySave, KnowsEvents, LockToRead,
                            Atomic!Closed
<1> QED  BY <1>1, <1>2, <1>3

LEMMA LockToWriteStep ==
    ASSUME LockInv, NEW r \in Request, LockToWrite(r)
    PROVE  LockInv'
<1> USE DEF LockInv
<1>1. Shapes'
  BY DEF LockToWrite, Shapes
<1>2. ASSUME NEW s \in Request, s # r PROVE InvOf(s)'
  BY <1>2, Undisturbed DEF LockToWrite
<1>3. InvOf(r)'
  <2>1. AtItsStep(r)'
    BY DEF LockToWrite, InvOf, AtItsStep, Working, Busy, Step
  <2>2. \A i \in {0, 1} : Beyond(r, i)' = Beyond(r, i)
    BY DEF LockToWrite, Beyond, Working, Busy
  <2>3. Step(r)' = Step(r)
    BY DEF LockToWrite, Step
  <2> QED
    BY <2>1, <2>2, <2>3 DEF InvOf, HoldsMutex, KnowsJob, MaySave, KnowsEvents, LockToWrite,
                            Atomic!Closed
<1> QED  BY <1>1, <1>2, <1>3

LEMMA ReturnStep ==
    ASSUME LockInv, NEW r \in Request, Return(r)
    PROVE  LockInv'
<1> USE DEF LockInv
<1>1. Shapes'
  BY DEF Return, Shapes, Unread
<1>2. ASSUME NEW s \in Request, s # r PROVE InvOf(s)'
  <2>1. form'[s] = form[s] /\ op'[s] = op[s] /\ at'[s] = at[s] /\ got'[s] = got[s]
    BY <1>2 DEF Return, Shapes
  <2> QED  BY <1>2, <2>1, Undisturbed DEF Return
<1>3. InvOf(r)'
  <2>1. ~ Busy(r)' /\ ~ Working(r)'
    BY DEF Return, Shapes, Busy, Working
  <2>2. r \notin readers \cup blocked /\ writer # r
    BY DEF Return, InvOf, AtItsStep, Working
  <2> QED  BY <2>1, <2>2 DEF InvOf, AtItsStep, HoldsMutex, KnowsJob, MaySave, KnowsEvents,
                             Beyond, Return
<1> QED  BY <1>1, <1>2, <1>3

\* What is read under the mutex is what the store holds, and ends the operation
\* when the job takes no more.
LEMMA ReadStoreStep ==
    ASSUME LockInv, NEW r \in Request, ReadStore(r)
    PROVE  LockInv'
<1> USE DEF LockInv
<1>1. Working(r) /\ Busy(r) /\ op[r] \in Operation /\ at[r] \in 1..Len(Program(op[r]))
      /\ Step(r) \in Reads /\ writer # r
  BY DEF ReadStore, InvOf, AtItsStep, Working, Reads
<1>2. CASE at' = [at EXCEPT ![r] = 0] /\ got' = [got EXCEPT ![r] = Unread]
  <2>1. Shapes'
    BY <1>2 DEF ReadStore, Shapes, Unread
  <2>2. ASSUME NEW s \in Request, s # r PROVE InvOf(s)'
    BY <1>2, <2>2, Undisturbed DEF ReadStore, Shapes
  <2>3. ~ Working(r)' /\ Busy(r)' = Busy(r)
    BY <1>2 DEF ReadStore, Shapes, Working, Busy
  <2>4. r \notin readers' \cup blocked' /\ writer' # r
    <3>1. r \notin blocked  BY DEF ReadStore, Shapes
    <3> QED  BY <1>1, <3>1 DEF ReadStore
  <2>5. InvOf(r)'
    BY <1>1, <2>3, <2>4 DEF InvOf, AtItsStep, HoldsMutex, KnowsJob, MaySave, KnowsEvents,
                            Beyond, ReadStore
  <2> QED  BY <2>1, <2>2, <2>5
<1>3. CASE ~ MustEnd(r) /\ at' = Advanced(r) /\ got' = Read(r)
  <2>1. at'[r] = (IF at[r] = Len(Program(op[r])) THEN 0 ELSE at[r] + 1)
        /\ \A s \in Request \ {r} : at'[s] = at[s] /\ got'[s] = got[s]
    BY <1>3 DEF Shapes, Advanced, Read
  <2>2. got'[r] = (CASE Step(r) = "get"        -> [got[r] EXCEPT !.job = store.job]
                     [] Step(r) = "events"     -> [got[r] EXCEPT !.events = store.events]
                     [] Step(r) = "credential" -> [got[r] EXCEPT !.credential = store.credential]
                     [] OTHER                  -> got[r])
    BY <1>3 DEF Shapes, Read
  <2>3. /\ got'[r] = [job |-> got'[r].job, events |-> got'[r].events,
                      credential |-> got'[r].credential]
        /\ got'[r].job = IF Step(r) = "get" THEN store.job ELSE got[r].job
        /\ got'[r].events = IF Step(r) = "events" THEN store.events ELSE got[r].events
    <3>1. got[r] = [job |-> got[r].job, events |-> got[r].events,
                    credential |-> got[r].credential]
      BY DEF Shapes
    <3> QED  BY <2>2, <3>1
  <2>4. Shapes'
    <3>1. at' \in [Request -> Nat]
      BY <1>1, <1>3, StepsAreNumbered DEF Shapes, Advanced
    <3>2. \A s \in Request : got'[s] = [job |-> got'[s].job, events |-> got'[s].events,
                                        credential |-> got'[s].credential]
      BY <2>1, <2>3 DEF Shapes
    <3>3. DOMAIN got' = Request
      BY <1>3 DEF Shapes, Read
    <3> QED  BY <3>1, <3>2, <3>3 DEF Shapes, ReadStore
  <2>5. ASSUME NEW s \in Request, s # r PROVE InvOf(s)'
    BY <2>1, <2>5, Undisturbed DEF ReadStore
  <2>6. InvOf(r)'
    <3>1. r \notin readers' \cup blocked' /\ writer' # r
      <4>1. r \notin blocked  BY DEF ReadStore, Shapes
      <4> QED  BY <1>1, <4>1 DEF ReadStore
    <3>2. AtItsStep(r)'
      BY <1>1, <2>1, <3>1, StepsAreNumbered DEF AtItsStep, Working, Busy, ReadStore
    <3>3. CASE op[r] \in Writing /\ at'[r] # 0
      <4> DEFINE p == Program(op[r])
                 k == LockAt(op[r])
      <4>1. /\ Len(p) \in Nat /\ DOMAIN p = 1..Len(p) /\ k \in 1..2 /\ k + 2 <= Len(p)
            /\ p[k + 1] = "get"
            /\ \A i \in 1..Len(p) : /\ p[i] \in {"save", "create"} <=> i = Len(p)
                                    /\ p[i] = "lock" <=> i = k
                                    /\ i > k + 1 => p[i] # "get"
        BY <3>3, WritingPrograms
      <4>2. at'[r] = at[r] + 1 /\ at[r] + 1 \in 1..Len(p)
        BY <1>1, <2>1, <3>3, <4>1
      <4>3. Step(r) = p[at[r]] /\ at[r] # k
        BY <1>1, <4>1 DEF Step, Reads
      <4>4. Beyond(r, 0)' => Beyond(r, 0)
        BY <1>1, <4>1, <4>2, <4>3 DEF Beyond, ReadStore
      <4>5. HoldsMutex(r)'
        BY <4>4 DEF InvOf, HoldsMutex, ReadStore
      <4>6. KnowsJob(r)'
        <5> SUFFICES ASSUME Beyond(r, 1)' PROVE got'[r].job = store.job
          BY DEF KnowsJob, ReadStore
        <5>1. at[r] >= k + 1
          BY <1>1, <4>1, <4>2 DEF Beyond, ReadStore
        <5>2. CASE at[r] = k + 1
          BY <2>3, <4>1, <4>3, <5>2
        <5>3. CASE at[r] > k + 1
          <6>1. Beyond(r, 1)  BY <1>1, <3>3, <5>3 DEF Beyond
          <6> QED  BY <2>3, <6>1 DEF InvOf, KnowsJob
        <5> QED  BY <1>1, <4>1, <5>1, <5>2, <5>3
      <4>7. ASSUME Beyond(r, 1)', Step(r)' = "save"
            PROVE  at[r] + 1 = Len(p) /\ ~ Atomic!Closed(got'[r].job)
        <5>1. p[at[r] + 1] = "save"
          BY <4>2, <4>7 DEF Step, ReadStore
        <5> QED  BY <1>3, <3>3, <4>1, <4>2, <5>1 DEF MustEnd
      <4>8. MaySave(r)'
        BY <4>6, <4>7 DEF MaySave, KnowsJob, Atomic!Closed, ReadStore
      <4>9. KnowsEvents(r)'
        <5> SUFFICES ASSUME Beyond(r, 1)', Step(r)' = "save", op[r] = "Credential"
                     PROVE  got'[r].events = store.events
          BY DEF KnowsEvents, ReadStore
        <5>0. at[r] + 1 = Len(p)
          BY <4>7
        <5>2. p = <<"lock", "get", "idempotency", "credential", "events", "save">>
          BY ProgramsFromLock
        <5>4. Len(p) = 6
          BY <5>2
        <5>3. at[r] = 5
          <6> HIDE DEF p
          <6> QED  BY <1>1, <5>0, <5>4
        <5>1. Step(r) = "events"
          BY <4>3, <5>2, <5>3
        <5> QED  BY <2>3, <5>1
      <4> QED  BY <3>2, <4>5, <4>6, <4>8, <4>9 DEF InvOf
    <3>4. CASE op[r] \notin Writing \/ at'[r] = 0
      <4>1. ~ Beyond(r, 0)' /\ ~ Beyond(r, 1)'
        BY <3>4 DEF Beyond, Working, ReadStore
      <4> QED  BY <3>2, <4>1 DEF InvOf, HoldsMutex, KnowsJob, MaySave, KnowsEvents
    <3> QED  BY <3>3, <3>4
  <2> QED  BY <2>4, <2>5, <2>6
<1> QED  BY <1>2, <1>3 DEF ReadStore

\* Who writes holds the mutex: nobody else is between a read and a write.
LEMMA WriteStoreStep ==
    ASSUME LockInv, NEW r \in Request, WriteStore(r)
    PROVE  LockInv'
<1> USE DEF LockInv
<1>1. Working(r) /\ Busy(r) /\ op[r] \in Operation /\ at[r] \in 1..Len(Program(op[r]))
      /\ Step(r) \in {"save", "create"}
  BY DEF WriteStore, InvOf, AtItsStep, Working
<1>2. at'[r] = (IF at[r] = Len(Program(op[r])) THEN 0 ELSE at[r] + 1)
      /\ \A s \in Request \ {r} : at'[s] = at[s]
  BY DEF WriteStore, Shapes, Advanced
<1>3. Shapes'
  <2>1. at' \in [Request -> Nat]
    BY <1>1, StepsAreNumbered DEF WriteStore, Shapes, Advanced
  <2>2. store' = [job |-> store'.job, events |-> store'.events, credential |-> store'.credential]
    BY DEF WriteStore, Shapes, Atomic!Issued, Atomic!Changed
  <2> QED  BY <2>1, <2>2 DEF WriteStore, Shapes
<1>4. r \notin readers \cup blocked
  BY <1>1 DEF InvOf, AtItsStep, Reads
<1>5. store' = store \/ op[r] \in Writing
  <2>1. Step(r) = "save" => op[r] \in Writing
    BY <1>1, ReadingPrograms DEF Step
  <2> QED  BY <2>1 DEF WriteStore
<1>6. op[r] \in Writing => Beyond(r, 0)
  BY <1>1, WritingPrograms DEF Beyond, Step
<1>7. ASSUME NEW s \in Request, s # r PROVE InvOf(s)'
  <2>1. form'[s] = form[s] /\ op'[s] = op[s] /\ at'[s] = at[s] /\ got'[s] = got[s]
    BY <1>2, <1>7 DEF WriteStore
  <2>2. store' = store \/ ~ Beyond(s, 0)
    BY <1>5, <1>6, <1>7 DEF InvOf, HoldsMutex
  <2>3. writer' # s
    BY RequestAssumption DEF WriteStore
  <2> QED  BY <2>1, <2>2, <2>3, Undisturbed DEF WriteStore
<1>8. InvOf(r)'
  <2>1. AtItsStep(r)'
    <3>1. r \notin readers' \cup blocked' /\ writer' # r
      BY <1>4, RequestAssumption DEF WriteStore
    <3> QED  BY <1>1, <1>2, <3>1, StepsAreNumbered DEF AtItsStep, Working, Busy, WriteStore
  <2>2. op[r] \in Writing => at'[r] = 0
    BY <1>1, <1>2, WritingPrograms DEF Step
  <2>3. ~ Beyond(r, 0)' /\ ~ Beyond(r, 1)'
    BY <2>2 DEF Beyond, Working, WriteStore
  <2> QED  BY <2>1, <2>3 DEF InvOf, HoldsMutex, KnowsJob, MaySave, KnowsEvents
<1> QED  BY <1>3, <1>7, <1>8

LEMMA LockInvStep == LockInv /\ [Next]_vars => LockInv'
<1> SUFFICES ASSUME LockInv, [Next]_vars PROVE LockInv'
  OBVIOUS
<1>1. CASE UNCHANGED vars
  <2>1. Shapes'
    BY <1>1 DEF LockInv, Shapes, vars
  <2>2. ASSUME NEW s \in Request PROVE InvOf(s)'
    BY <1>1, Undisturbed DEF LockInv, vars
  <2> QED  BY <2>1, <2>2 DEF LockInv
<1>2. ASSUME NEW r \in Request, NEW f \in Form[r], Arrive(r, f) PROVE LockInv'
  BY <1>2, ArriveStep
<1>3. ASSUME NEW r \in Request, LockMutex(r) PROVE LockInv'
  BY <1>3, LockMutexStep
<1>4. ASSUME NEW r \in Request, Progress(r) PROVE LockInv'
  BY <1>4, LockToReadStep, ReadStoreStep, LockToWriteStep, WriteStoreStep, ReturnStep
     DEF Progress
<1> QED  BY <1>1, <1>2, <1>3, <1>4 DEF Next

\* Every write is that of the atomic service: what it starts from is the job as
\* it is, and what an issue attests are the events as they are.
LEMMA StepsAreAtomic == LockInv /\ [Next]_vars => [Atomic!Next]_store
<1> SUFFICES ASSUME LockInv, [Next]_vars, store' # store PROVE Atomic!Next
  OBVIOUS
<1>1. PICK r \in Request : WriteStore(r)
  BY DEF Next, Progress, Arrive, LockMutex, LockToRead, ReadStore, LockToWrite, Return, vars
<1>2. Step(r) = "save"
      /\ store' = IF op[r] = "Credential" THEN Atomic!Issued(store, got[r].job, got[r].events)
                                          ELSE Atomic!Changed(store, got[r].job)
  BY <1>1 DEF WriteStore
<1>3. Working(r) /\ op[r] \in Operation /\ at[r] \in 1..Len(Program(op[r]))
  BY <1>1 DEF WriteStore, LockInv, InvOf, AtItsStep, Working
<1>4. op[r] \in Writing
  BY <1>2, <1>3, ReadingPrograms DEF Step
<1>5. Beyond(r, 1)
  BY <1>2, <1>3, <1>4, WritingPrograms DEF Step, Beyond
<1>6. got[r].job = store.job /\ ~ Atomic!Closed(store.job)
      /\ (op[r] = "Credential" => got[r].events = store.events)
  BY <1>2, <1>5 DEF LockInv, InvOf, KnowsJob, MaySave, KnowsEvents
<1> QED
  BY <1>2, <1>6 DEF Atomic!Next, Atomic!Change, Atomic!Issue

\* Whatever the requests and however many, the operations of the service, at the
\* grain of their locks, write as if they were done one after the other.
THEOREM OperationsAreAtomic == Spec => ImplementsAtomicService
<1>1. Init => Atomic!Init
  BY DEF Init, Atomic!Init
<1> QED
  BY <1>1, LockInvInit, LockInvStep, StepsAreAtomic, PTL
     DEF Spec, ImplementsAtomicService, Atomic!Spec

-----------------------------------------------------------------------------
(* Verification, without the mutex. *)

Attested ==
    /\ store.job = [version |-> store.job.version, issued |-> store.job.issued]
    /\ store.job.issued \in BOOLEAN /\ store.events \in Seq(EventType)
    /\ store.job.issued => /\ store.credential \in Seq(EventType)
                           /\ store.events = Append(store.credential, "credential.issued")
    /\ ~ store.job.issued => store.credential = None

\* Where a verification reads the credential.
CredentialAt(o) == IF o = "VerifyCredentialsBatch" THEN 2 ELSE 1

\* What a verification has read so far is of the job after the issue.
ReadsIssued(r) ==
    /\ ~ Busy(r) => got[r] = Unread
    /\ Busy(r) /\ op[r] \in Verifying =>
         /\ got[r].credential # None => /\ store.job.issued
                                        /\ got[r].credential = store.credential
         /\ got[r].events # None => /\ got[r].events = store.events
                                    /\ got[r].credential # None
         /\ at[r] > CredentialAt(op[r]) => got[r].credential # None

VerifyInv == Attested /\ \A r \in Request : ReadsIssued(r)

LEMMA VerifyingPrograms ==
    ASSUME NEW o \in Verifying
    PROVE  LET p == Program(o) IN
           /\ o \in Operation \ Writing /\ CredentialAt(o) \in 1..2
           /\ Len(p) \in Nat /\ CredentialAt(o) + 2 = Len(p) /\ DOMAIN p = 1..Len(p)
           /\ \A i \in 1..Len(p) : /\ p[i] = "credential" <=> i = CredentialAt(o)
                                   /\ p[i] = "events" => i > CredentialAt(o)
<1>1. CASE o \in {"VerifyCredential", "VerifyCredentialCopy"}
  <2>1. Program(o) = <<"credential", "get", "events">> /\ CredentialAt(o) = 1
    BY <1>1 DEF Program, Unlocked, CredentialAt
  <2> QED  BY <1>1, <2>1 DEF Operation, Writing
<1>2. CASE o = "VerifyCredentialsBatch"
  <2>1. Program(o) = <<"verify", "credential", "get", "events">> /\ CredentialAt(o) = 2
    BY <1>2 DEF Program, Unlocked, CredentialAt
  <2>2. \A i \in 1..4 : i \in {1, 2, 3, 4}  OBVIOUS
  <2>3. Len(Program(o)) = 4 /\ DOMAIN Program(o) = 1..4  BY <2>1
  <2>4. o \in Operation \ Writing  BY <1>2 DEF Operation, Writing
  <2> QED  BY <2>1, <2>2, <2>3, <2>4
<1> QED  BY <1>1, <1>2 DEF Verifying

LEMMA NoLockToVerify ==
    ASSUME NEW o \in Verifying, NEW i \in 1..Len(Program(o))
    PROVE  Program(o)[i] \in Reads
<1>1. CASE o \in {"VerifyCredential", "VerifyCredentialCopy"}
  <2>1. Program(o) = <<"credential", "get", "events">>
    BY <1>1 DEF Program, Unlocked
  <2> QED  BY <2>1 DEF Reads
<1>2. CASE o = "VerifyCredentialsBatch"
  <2>1. Program(o) = <<"verify", "credential", "get", "events">>
    BY <1>2 DEF Program, Unlocked
  <2> QED  BY <2>1 DEF Reads
<1> QED  BY <1>1, <1>2 DEF Verifying

LEMMA VerifyInvInit == Init => VerifyInv
<1> SUFFICES ASSUME Init PROVE VerifyInv
  OBVIOUS
<1>1. Attested
  <2>1. <<"changed">> \in Seq(EventType)
    BY DEF EventType
  <2>2. /\ store.job = [version |-> 0, issued |-> FALSE] /\ store.events = <<"changed">>
        /\ store.credential = None
    BY DEF Init, Atomic!Created
  <2> QED  BY <2>1, <2>2 DEF Attested
<1>2. ASSUME NEW r \in Request PROVE ReadsIssued(r)
  BY DEF Init, ReadsIssued, Busy
<1> QED  BY <1>1, <1>2 DEF VerifyInv

\* A step of the atomic service keeps the store attested, and none is taken after
\* the issue.
LEMMA AttestedStep ==
    ASSUME Shapes, Attested, [Atomic!Next]_store
    PROVE  Attested' /\ (store.job.issued => store' = store)
<1>1. CASE store' = store
  BY <1>1 DEF Attested
<1>2. CASE Atomic!Change
  <2>1. ~ store.job.issued
    BY <1>2 DEF Atomic!Change, Atomic!Closed
  <2>2. /\ store'.events = Append(store.events, "changed")
        /\ store'.credential = store.credential
        /\ store'.job = [store.job EXCEPT !.version = @ + 1]
    <3>1. store' = [[store EXCEPT !.job = [store.job EXCEPT !.version = @ + 1]]
                       EXCEPT !.events = Append(store.events, "changed")]
      BY <1>2 DEF Atomic!Change, Atomic!Changed, Shapes
    <3> QED  BY <3>1 DEF Shapes
  <2>3. store'.job = [version |-> store'.job.version, issued |-> FALSE]
    <3>1. store.job = [version |-> store.job.version, issued |-> store.job.issued]
      BY DEF Attested
    <3> QED  BY <2>1, <2>2, <3>1 DEF Attested
  <2>4. store'.events \in Seq(EventType)
    BY <2>2 DEF Attested, EventType
  <2> QED  BY <2>1, <2>2, <2>3, <2>4 DEF Attested
<1>3. CASE Atomic!Issue
  <2>1. ~ store.job.issued
    BY <1>3 DEF Atomic!Issue, Atomic!Closed
  <2>2. store'.events = Append(store.events, "credential.issued")
        /\ store'.credential = store.events
        /\ store'.job = [version |-> store.job.version + 1, issued |-> TRUE]
    BY <1>3 DEF Atomic!Issue, Atomic!Issued, Shapes
  <2>3. store'.events \in Seq(EventType)
    BY <2>2 DEF Attested, EventType
  <2>4. store'.job = [version |-> store'.job.version, issued |-> store'.job.issued]
        /\ store'.job.issued = TRUE
    BY <2>2
  <2> QED  BY <2>1, <2>2, <2>3, <2>4 DEF Attested
<1> QED  BY <1>1, <1>2, <1>3 DEF Atomic!Next

LEMMA VerifyInvStep == LockInv /\ VerifyInv /\ [Next]_vars => VerifyInv'
<1> SUFFICES ASSUME LockInv, VerifyInv, [Next]_vars PROVE VerifyInv'
  OBVIOUS
<1>1. Attested' /\ (store.job.issued => store' = store)
  BY AttestedStep, StepsAreAtomic DEF LockInv, VerifyInv
<1>2. ASSUME NEW s \in Request, form'[s] = form[s], op'[s] = op[s], got'[s] = got[s],
             at'[s] = at[s] \/ at'[s] = 0 \/ at[s] > CredentialAt(op[s])
                \/ op[s] \notin Verifying
      PROVE  ReadsIssued(s)'
  <2>1. ReadsIssued(s) /\ Busy(s)' = Busy(s)
    BY <1>2 DEF VerifyInv, Busy
  <2>2. CASE ~ Busy(s) \/ op[s] \notin Verifying
    BY <1>2, <2>1, <2>2 DEF ReadsIssued, Unread
  <2>3. CASE Busy(s) /\ op[s] \in Verifying
    <3>1. at'[s] > CredentialAt(op'[s]) => got'[s].credential # None
      BY <1>2, <2>1, <2>3 DEF ReadsIssued, CredentialAt
    <3>2. got[s].credential # None => store' = store
      BY <1>1, <2>1, <2>3 DEF ReadsIssued
    <3>3. got[s].credential # None => store.job.issued /\ got[s].credential = store.credential
      BY <2>1, <2>3 DEF ReadsIssued
    <3>4. got[s].events # None => got[s].events = store.events /\ got[s].credential # None
      BY <2>1, <2>3 DEF ReadsIssued
    <3> QED  BY <1>2, <2>1, <2>3, <3>1, <3>2, <3>3, <3>4 DEF ReadsIssued
  <2> QED  BY <2>2, <2>3
<1>3. ASSUME NEW s \in Request PROVE ReadsIssued(s)'
  <2>1. CASE UNCHANGED vars
    BY <1>2, <2>1 DEF vars
  <2>2. ASSUME NEW r \in Request, NEW f \in Form[r], Arrive(r, f) PROVE ReadsIssued(s)'
    <3>1. CASE s = r
      BY <2>2, <3>1 DEF Arrive, LockInv, Shapes, VerifyInv, ReadsIssued, Busy, Unread,
                        CredentialAt
    <3> QED  BY <1>2, <2>2, <3>1 DEF Arrive, LockInv, Shapes
  <2>3. ASSUME NEW r \in Request, LockMutex(r) PROVE ReadsIssued(s)'
    <3>1. Step(r) = "lock" /\ Busy(r) /\ at[r] \in 1..Len(Program(op[r]))
      BY <2>3 DEF LockMutex, LockInv, InvOf, AtItsStep, Working
    <3>2. op[r] \notin Verifying
      BY <3>1, NoLockToVerify DEF Step, Reads
    <3>3. at'[s] = at[s] \/ s = r
      BY <2>3 DEF LockMutex, LockInv, Shapes, Advanced
    <3> QED  BY <1>2, <2>3, <3>2, <3>3 DEF LockMutex
  <2>4. ASSUME NEW r \in Request, LockToRead(r) PROVE ReadsIssued(s)'
    BY <1>2, <2>4 DEF LockToRead
  <2>5. ASSUME NEW r \in Request, ReadStore(r) PROVE ReadsIssued(s)'
    <3>1. /\ Busy(r) /\ op[r] \in Operation /\ at[r] \in 1..Len(Program(op[r]))
          /\ Step(r) \in Reads /\ ReadsIssued(r)
      BY <2>5 DEF ReadStore, LockInv, InvOf, AtItsStep, Working, VerifyInv
    <3>2. CASE s # r
      <4>1. at'[s] = at[s] /\ got'[s] = got[s]
        BY <2>5, <3>2 DEF ReadStore, LockInv, Shapes, Advanced, Read
      <4> QED  BY <1>2, <2>5, <4>1 DEF ReadStore
    <3>3. CASE s = r /\ got' = [got EXCEPT ![r] = Unread] /\ at' = [at EXCEPT ![r] = 0]
      <4>1. got'[r] = Unread /\ at'[r] = 0 /\ op' = op
        BY <2>5, <3>3 DEF ReadStore, LockInv, Shapes
      <4> QED  BY <3>3, <4>1 DEF ReadsIssued, Unread, CredentialAt
    <3>4. CASE s = r /\ ~ MustEnd(r) /\ at' = Advanced(r) /\ got' = Read(r)
      <4>1. CASE op[r] \notin Verifying
        <5>1. Busy(r)' /\ op'[r] \notin Verifying
          BY <2>5, <3>1, <4>1 DEF ReadStore, Busy
        <5> QED  BY <3>4, <5>1 DEF ReadsIssued
      <4>2. CASE op[r] \in Verifying
        <5> DEFINE p == Program(op[r])
                   k == CredentialAt(op[r])
        <5>1. /\ k \in 1..2 /\ Len(p) \in Nat /\ k + 2 = Len(p)
              /\ \A i \in 1..Len(p) : /\ p[i] = "credential" <=> i = k
                                      /\ p[i] = "events" => i > k
          BY <4>2, VerifyingPrograms
        <5>2. at'[r] = IF at[r] = Len(p) THEN 0 ELSE at[r] + 1
          BY <3>4 DEF LockInv, Shapes, Advanced
        <5>3. /\ got'[r].credential = IF at[r] = k THEN store.credential ELSE got[r].credential
              /\ got'[r].events = IF Step(r) = "events" THEN store.events ELSE got[r].events
          <6>1. got[r] = [job |-> got[r].job, events |-> got[r].events,
                          credential |-> got[r].credential]
            BY DEF LockInv, Shapes
          <6>2. got'[r] = (CASE Step(r) = "get"        -> [got[r] EXCEPT !.job = store.job]
                     [] Step(r) = "events"     -> [got[r] EXCEPT !.events = store.events]
                     [] Step(r) = "credential" -> [got[r] EXCEPT !.credential = store.credential]
                     [] OTHER                  -> got[r])
            BY <3>4 DEF LockInv, Shapes, Read
          <6>3. Step(r) = "credential" <=> at[r] = k
            BY <3>1, <5>1 DEF Step
          <6> QED  BY <6>1, <6>2, <6>3
        <5>4. at[r] = k => store.credential # None /\ store.job.issued
          <6>1. at[r] = k => Step(r) = "credential"
            BY <3>1, <5>1 DEF Step
          <6> QED  BY <3>4, <4>2, <6>1 DEF MustEnd, VerifyInv, Attested
        <5>5. at[r] >= k => got'[r].credential # None
          BY <3>1, <4>2, <5>1, <5>3, <5>4 DEF ReadsIssued
        <5>6. Step(r) = "events" => at[r] > k
          BY <3>1, <5>1 DEF Step
        <5>7. store' = store /\ op' = op /\ Busy(r)'
          BY <2>5, <3>1 DEF ReadStore, Busy
        <5>8. at'[r] > k => at[r] >= k
          BY <3>1, <5>1, <5>2
        <5>9. got'[r].credential # None => store.job.issued /\ got'[r].credential = store.credential
          BY <3>1, <4>2, <5>3, <5>4 DEF ReadsIssued
        <5>10. got'[r].events # None => got'[r].events = store.events /\ got'[r].credential # None
          BY <3>1, <4>2, <5>3, <5>4, <5>5, <5>6 DEF ReadsIssued
        <5> QED  BY <3>4, <5>5, <5>7, <5>8, <5>9, <5>10 DEF ReadsIssued
      <4> QED  BY <4>1, <4>2
    <3> QED  BY <2>5, <3>2, <3>3, <3>4 DEF ReadStore
  <2>6. ASSUME NEW r \in Request, LockToWrite(r) PROVE ReadsIssued(s)'
    BY <1>2, <2>6 DEF LockToWrite
  <2>7. ASSUME NEW r \in Request, WriteStore(r) PROVE ReadsIssued(s)'
    <3>1. Step(r) \in {"save", "create"} /\ Busy(r) /\ at[r] \in 1..Len(Program(op[r]))
      BY <2>7 DEF WriteStore, LockInv, InvOf, AtItsStep, Working
    <3>2. op[r] \notin Verifying
      BY <3>1, NoLockToVerify DEF Step, Reads
    <3>3. at'[s] = at[s] \/ s = r
      BY <2>7 DEF WriteStore, LockInv, Shapes, Advanced
    <3> QED  BY <1>2, <2>7, <3>2, <3>3 DEF WriteStore
  <2>8. ASSUME NEW r \in Request, Return(r) PROVE ReadsIssued(s)'
    <3>1. CASE s = r
      BY <2>8, <3>1 DEF Return, LockInv, Shapes, ReadsIssued, Busy
    <3> QED  BY <1>2, <2>8, <3>1 DEF Return, LockInv, Shapes
  <2> QED  BY <2>1, <2>2, <2>3, <2>4, <2>5, <2>6, <2>7, <2>8 DEF Next, Progress
<1> QED  BY <1>1, <1>3 DEF VerifyInv

\* However many requests come and go while it reads the credential, the job and
\* the events one by one, a verification that finds a credential finds it valid.
THEOREM FoundCredentialsVerify == Spec => []VerifiedWheneverFound
<1>1. LockInv /\ VerifyInv => VerifiedWheneverFound
  <2> SUFFICES ASSUME VerifyInv, NEW r \in Request, Answering(r), op[r] \in Verifying,
                      got[r].events # None
               PROVE  LET E == got[r].events
                          n == Len(E)
                      IN  /\ E[n] = "credential.issued"
                          /\ got[r].credential = SubSeq(E, 1, n - 1)
    BY DEF VerifiedWheneverFound
  <2>1. got[r].events = store.events /\ got[r].credential = store.credential /\ store.job.issued
    BY DEF VerifyInv, ReadsIssued, Answering
  <2>2. store.credential \in Seq(EventType)
        /\ store.events = Append(store.credential, "credential.issued")
    BY <2>1 DEF VerifyInv, Attested
  <2> QED  BY <2>1, <2>2
<1> QED
  BY <1>1, LockInvInit, LockInvStep, VerifyInvInit, VerifyInvStep, PTL DEF Spec

-----------------------------------------------------------------------------
(* Types, and what a request may do. *)

\* What the store holds of the job fits together: an event for every version, the
\* first for its creation, and none of an issue before there is one.
Numbered ==
    /\ store.job.version \in Nat /\ Len(store.events) = store.job.version + 1
    /\ \A i \in DOMAIN store.events :
         store.events[i] = "credential.issued" => store.job.issued

\* A connection serves a request of its own, by an operation that leads to.
Served(r) ==
    /\ at[r] # 0 => Busy(r)
    /\ Busy(r) => form[r] \in Form[r] /\ op[r] \in Route(form[r])

Queues == mutex \in Request \cup {None} /\ (blocked # {} => writer # None)

ServedInv ==
    /\ LockInv /\ VerifyInv /\ Numbered /\ Queues /\ got \in [Request -> Seen]
    /\ \A r \in Request : Served(r)

\* What the store holds of the job can be read.
LEMMA StoreIsSeen ==
    ASSUME Shapes, Attested, Numbered
    PROVE  /\ store \in Seen /\ store.job \in Job /\ store.events \in Seq(EventType)
           /\ store.credential \in Seq(EventType) \cup {None}
           /\ store.job # None /\ store.events # None
           /\ store.job.issued => store.credential # None
<1>1. store.job \in Job
  BY DEF Attested, Numbered, Job
<1>2. store.events \in Seq(EventType) /\ store.credential \in Seq(EventType) \cup {None}
  BY DEF Attested
<1>3. store \in Seen
  BY <1>1, <1>2 DEF Seen, Shapes
<1> QED  BY <1>1, <1>2, <1>3, NoneAssumption DEF Attested

\* A write adds one event and one version, and no issue is taken back.
LEMMA NumberedStep ==
    ASSUME Shapes, Attested, Numbered, [Atomic!Next]_store
    PROVE  /\ Numbered' /\ Len(store'.events) >= Len(store.events)
           /\ store.job.issued => store'.job.issued
<1> DEFINE E == store.events
           v == store.job.version
<1>0. E \in Seq(EventType) /\ v \in Nat /\ Len(E) = v + 1
  BY DEF Attested, Numbered
<1>1. CASE store' = store
  BY <1>0, <1>1 DEF Numbered
<1>2. CASE Atomic!Change
  <2>1. /\ store'.events = Append(E, "changed")
        /\ store'.job = [store.job EXCEPT !.version = @ + 1]
    <3>1. store' = [[store EXCEPT !.job = [store.job EXCEPT !.version = @ + 1]]
                       EXCEPT !.events = Append(store.events, "changed")]
      BY <1>2 DEF Atomic!Change, Atomic!Changed, Shapes
    <3> QED  BY <3>1 DEF Shapes
  <2>2. store'.job.version = v + 1 /\ store'.job.issued = store.job.issued
    BY <2>1 DEF Attested
  <2>3. Len(store'.events) = v + 2
    BY <1>0, <2>1
  <2>4. \A i \in DOMAIN store'.events :
          store'.events[i] = "credential.issued" => i \in DOMAIN E /\ E[i] = "credential.issued"
    BY <1>0, <2>1
  <2> QED  BY <1>0, <2>2, <2>3, <2>4 DEF Numbered
<1>3. CASE Atomic!Issue
  <2>1. /\ store'.events = Append(E, "credential.issued")
        /\ store'.job = [version |-> v + 1, issued |-> TRUE]
    BY <1>3 DEF Atomic!Issue, Atomic!Issued, Shapes
  <2>2. Len(store'.events) = v + 2
    BY <1>0, <2>1
  <2> QED  BY <1>0, <2>1, <2>2 DEF Numbered
<1> QED  BY <1>1, <1>2, <1>3 DEF Atomic!Next

LEMMA ServedInit == Init => ServedInv
<1> SUFFICES ASSUME Init PROVE ServedInv
  OBVIOUS
<1>1. Numbered
  <2>1. /\ store.job = [version |-> 0, issued |-> FALSE] /\ store.events = <<"changed">>
    BY DEF Init, Atomic!Created
  <2> QED  BY <2>1 DEF Numbered
<1>2. ASSUME NEW r \in Request PROVE Served(r)
  BY DEF Init, Served, Busy
<1>3. got \in [Request -> Seen]
  BY DEF Init, Unread, Seen
<1> QED  BY <1>1, <1>2, <1>3, LockInvInit, VerifyInvInit DEF ServedInv, Queues, Init

\* Who reads has a read step before it, and keeps what it has read.
LEMMA ReadsAreSeen ==
    ASSUME Shapes, store \in Seen, got \in [Request -> Seen], NEW r \in Request
    PROVE  /\ Read(r) \in [Request -> Seen]
           /\ \A s \in Request \ {r} : Read(r)[s] = got[s]
           /\ Read(r)[r] = [job |-> IF Step(r) = "get" THEN store.job ELSE got[r].job,
                            events |-> IF Step(r) = "events" THEN store.events
                                                             ELSE got[r].events,
                            credential |-> IF Step(r) = "credential" THEN store.credential
                                                                     ELSE got[r].credential]
<1>1. DOMAIN Read(r) = Request /\ \A s \in Request \ {r} : Read(r)[s] = got[s]
  BY DEF Read, Shapes
<1>2. Read(r)[r] = (CASE Step(r) = "get"     -> [got[r] EXCEPT !.job = store.job]
                   [] Step(r) = "events"     -> [got[r] EXCEPT !.events = store.events]
                   [] Step(r) = "credential" -> [got[r] EXCEPT !.credential = store.credential]
                   [] OTHER                  -> got[r])
  BY DEF Read, Shapes
<1>3. Read(r)[r] = [job |-> IF Step(r) = "get" THEN store.job ELSE got[r].job,
                    events |-> IF Step(r) = "events" THEN store.events ELSE got[r].events,
                    credential |-> IF Step(r) = "credential" THEN store.credential
                                                             ELSE got[r].credential]
  <2>1. got[r] = [job |-> got[r].job, events |-> got[r].events, credential |-> got[r].credential]
    BY DEF Shapes
  <2> QED  BY <1>2, <2>1
<1>4. Read(r)[r] \in Seen
  BY <1>3 DEF Seen
<1>5. Read(r) \in [Request -> Seen]
  BY <1>4 DEF Read
<1> QED  BY <1>1, <1>3, <1>5

LEMMA ServedStep == ServedInv /\ [Next]_vars => ServedInv'
<1> SUFFICES ASSUME ServedInv, [Next]_vars PROVE ServedInv'
  OBVIOUS
<1> USE DEF ServedInv
<1>1. LockInv' /\ VerifyInv' /\ Shapes /\ Attested
  BY LockInvStep, VerifyInvStep DEF LockInv, VerifyInv
<1>2. Numbered'
  BY <1>1, NumberedStep, StepsAreAtomic
<1>3. got' \in [Request -> Seen]
  <2>1. Unread \in Seen
    BY DEF Unread, Seen
  <2>2. \A r \in Request : Read(r) \in [Request -> Seen]
    BY <1>1, ReadsAreSeen, StoreIsSeen
  <2>3. ASSUME NEW r \in Request, ReadStore(r) PROVE got' \in [Request -> Seen]
    BY <2>1, <2>2, <2>3 DEF ReadStore
  <2> QED  BY <2>1, <2>3 DEF Next, Progress, Arrive, LockMutex, LockToRead, LockToWrite,
                             WriteStore, Return, vars
<1>4. ASSUME NEW s \in Request, form'[s] = form[s], op'[s] = op[s], at'[s] = at[s] \/ Busy(s)
      PROVE  Served(s)'
  BY <1>4 DEF Served, Busy
<1> DEFINE Goal == Queues' /\ \A s \in Request : Served(s)'
<1>5. Goal
  <2>1. CASE UNCHANGED vars
    BY <2>1 DEF vars, Queues, Served, Busy
  <2>2. ASSUME NEW r \in Request, NEW f \in Form[r], Arrive(r, f) PROVE Goal
    <3>1. ASSUME NEW s \in Request, s # r PROVE Served(s)'
      BY <1>1, <1>4, <2>2, <3>1 DEF Arrive, Shapes
    <3>2. Served(r)'
      BY <1>1, <2>2, FormAssumption DEF Arrive, Shapes, Served, Busy
    <3> QED  BY <2>2, <3>1, <3>2 DEF Arrive, Queues
  <2>3. ASSUME NEW r \in Request, LockMutex(r) PROVE Goal
    <3>1. ASSUME NEW s \in Request PROVE Served(s)'
      BY <1>1, <1>4, <2>3 DEF LockMutex, Shapes, Working, Advanced
    <3> QED  BY <2>3, <3>1 DEF LockMutex, Queues
  <2>4. ASSUME NEW r \in Request, LockToRead(r) PROVE Goal
    BY <1>4, <2>4 DEF LockToRead, Queues
  <2>5. ASSUME NEW r \in Request, ReadStore(r) PROVE Goal
    <3>1. ASSUME NEW s \in Request PROVE Served(s)'
      BY <1>1, <1>4, <2>5 DEF ReadStore, Shapes, Working, Advanced
    <3> QED  BY <2>5, <3>1 DEF ReadStore, Queues
  <2>6. ASSUME NEW r \in Request, LockToWrite(r) PROVE Goal
    BY <1>4, <2>6, RequestAssumption DEF LockToWrite, Queues
  <2>7. ASSUME NEW r \in Request, WriteStore(r) PROVE Goal
    <3>1. Busy(r)
      BY <2>7 DEF WriteStore, LockInv, InvOf, AtItsStep, Working
    <3>2. ASSUME NEW s \in Request PROVE Served(s)'
      BY <1>1, <1>4, <2>7, <3>1 DEF WriteStore, Shapes, Advanced
    <3> QED  BY <2>7, <3>2 DEF WriteStore, Queues
  <2>8. ASSUME NEW r \in Request, Return(r) PROVE Goal
    <3>1. ASSUME NEW s \in Request, s # r PROVE Served(s)'
      BY <1>1, <1>4, <2>8, <3>1 DEF Return, Shapes
    <3>2. Served(r)'
      BY <1>1, <2>8 DEF Return, Shapes, Served, Busy
    <3> QED  BY <2>8, <3>1, <3>2 DEF Return, Queues
  <2> QED  BY <2>1, <2>2, <2>3, <2>4, <2>5, <2>6, <2>7, <2>8 DEF Next, Progress
<1> QED  BY <1>1, <1>2, <1>3, <1>5

\* Connections, locks, the store and what requests have read of it have their
\* types, whatever the requests: nobody waits for a lock that is free.
THEOREM TypesHold == Spec => []TypeOK
<1>1. ServedInv => TypeOK
  <2> SUFFICES ASSUME ServedInv PROVE TypeOK
    OBVIOUS
  <2>1. store \in Seen /\ store.job # None /\ store.events # None
    BY StoreIsSeen DEF ServedInv, LockInv, VerifyInv
  <2>2. got \in [Request -> Seen]
    BY DEF ServedInv
  <2>3. ASSUME NEW r \in Request
        PROVE  /\ at[r] # 0 => Busy(r) /\ at[r] \in DOMAIN Program(op[r])
               /\ Busy(r) => form[r] \in Form[r] /\ op[r] \in Route(form[r])
    BY StepsAreNumbered DEF ServedInv, Served, LockInv, InvOf, AtItsStep, Working
  <2>4. /\ \A r \in readers \cup blocked : Working(r) /\ Step(r) \in Reads
        /\ writer # None => Working(writer) /\ Step(writer) \in {"save", "create"}
    BY DEF ServedInv, LockInv, Shapes, InvOf, AtItsStep
  <2> QED  BY <2>1, <2>2, <2>3, <2>4 DEF TypeOK, ServedInv, LockInv, Shapes, Queues
<1> QED
  BY <1>1, ServedInit, ServedStep, PTL DEF Spec

\* The rules from the one that holds on are not looked at.
LEMMA FirstOfWithin ==
    ASSUME NEW rules, NEW n \in DOMAIN rules, NEW S,
           DOMAIN rules \subseteq Nat \ {0}, rules[n][1],
           \A i \in DOMAIN rules : i <= n => rules[i][2] \subseteq S
    PROVE  FirstOf(rules) \subseteq S
<1> SUFFICES ASSUME NEW i \in DOMAIN rules, \A j \in 1..(i - 1) : ~ rules[j][1]
             PROVE  rules[i][2] \subseteq S
  BY DEF FirstOf
<1>1. i <= n
  OBVIOUS
<1> QED  BY <1>1

\* A POST to the preflight of the findings, with no list in its body, has it done.
LEMMA FindingsPreflight ==
    ASSUME NEW q, q.path = "findings", q.method = "POST", ~ Overridden(q),
           q.sub \in {"preflight", "closure-preflight"}
    PROVE  FindingsRoute(q) \subseteq {"ClosurePreflight"}
<1> DEFINE B == q.method = "GET" /\ q.sub \in {"closure-preflight", "preflight"}
           C == q.method = "GET" /\ q.sub = "finish"
           D == q.method = "GET"
           F == "findings" \in q.with
           A == "responses" \in q.with
           P == q.sub \in {"closure-preflight", "preflight"}
           Later == << <<q.sub \in {"id/response", "response/id"}, {"Respond"}>>,
                       <<q.sub = "finish",                         {"FinishReview"}>>,
                       <<q.sub = "response",                       {}>>,
                       <<TRUE,                                     {"AddFinding"}>> >>
           rules == << <<B, {"ClosurePreflight"}>>, <<C, {"FindingStatistics"}>>,
                       <<D, {"FindFindings"}>>, <<F, {"BatchFindings"}>>,
                       <<A, {"BatchRespond"}>>, <<P, {"ClosurePreflight"}>>,
                       Later[1], Later[2], Later[3], Later[4] >>
<1>1. FindingsRoute(q) = FirstOf(rules)
  BY DEF FindingsRoute
<1>2. P /\ ~ B /\ ~ C /\ ~ D /\ ~ F /\ ~ A
  BY DEF Overridden
<1> HIDE DEF B, C, D, F, A, P, Later
<1>3. /\ DOMAIN rules = 1..10
      /\ ~ rules[1][1] /\ ~ rules[2][1] /\ ~ rules[3][1] /\ ~ rules[4][1] /\ ~ rules[5][1]
      /\ rules[6][1] /\ rules[6][2] = {"ClosurePreflight"}
  BY <1>2
<1> HIDE DEF rules
<1>4. ASSUME NEW i \in DOMAIN rules, rules[i][1], \A j \in 1..(i - 1) : ~ rules[j][1]
      PROVE  rules[i][2] \subseteq {"ClosurePreflight"}
  <2>1. i \notin 1..5
    <3>1. \A k \in 1..5 : k \in {1, 2, 3, 4, 5}
      OBVIOUS
    <3> QED  BY <1>3, <1>4, <3>1
  <2>2. i \in 1..10 /\ ~ 6 \in 1..(i - 1)
    BY <1>3, <1>4
  <2>3. i = 6
    BY <2>1, <2>2
  <2> QED  BY <1>3, <2>3
<1> QED
  BY <1>1, <1>4 DEF FirstOf

\* What a request that only asks leads to does not write, unless its body makes it
\* another.
LEMMA AskingIsReading ==
    ASSUME NEW q \in HttpRequest, AsksOnly(q), ~ Overridden(q), NEW o \in Route(q)
    PROVE  o \notin Writing \cup {"CreateJob"}
<1> DEFINE Mutating == Writing \cup {"CreateJob"}
<1>1. q.method \in Method /\ q.path \in Path
  BY DEF HttpRequest
<1>2. CASE q.path \in {"jobs", "verify-batch", "other", "preflight", "timeline", "diff"}
  BY <1>2 DEF Route, JobsRoute, BatchVerifyRoute, DiffRoute, AsksOnly, Writing, JobPath
<1>3. CASE q.path = "job"
  <2>1. q.method = "GET"
    BY <1>3 DEF AsksOnly
  <2>2. JobRoute(q) \subseteq {"Snapshot", "Detail"}
    <3> DEFINE B == q.method = "GET" /\ "revision" \in q.with
               C == q.method = "GET"
               D == q.method = "PATCH"
               rules == << <<B, {"Snapshot"}>>, <<C, {"Detail"}>>, <<D, {"ReviseMetadata"}>> >>
    <3>1. JobRoute(q) = FirstOf(rules) /\ C
      BY <2>1 DEF JobRoute
    <3> HIDE DEF B, C, D
    <3>2. /\ DOMAIN rules = 1..3 /\ rules[2][1]
          /\ rules[1][2] = {"Snapshot"} /\ rules[2][2] = {"Detail"}
      BY <3>1
    <3> HIDE DEF rules
    <3>3. \A k \in 1..3 : k <= 2 => k \in {1, 2}
      OBVIOUS
    <3>4. \A k \in DOMAIN rules : k <= 2 => rules[k][2] \subseteq {"Snapshot", "Detail"}
      BY <3>2, <3>3
    <3>5. 2 \in DOMAIN rules /\ DOMAIN rules \subseteq Nat \ {0}
      BY <3>2
    <3> QED  BY <3>1, <3>2, <3>4, <3>5, FirstOfWithin
  <2>3. Route(q) = JobRoute(q)
    BY <1>3 DEF Route, JobPath
  <2> QED  BY <2>2, <2>3 DEF Writing
<1>4. CASE q.path = "cues"
  <2>1. Methods["cues"] = {"POST", "DELETE"}
    BY DEF Methods, JobPath
  <2>2. CASE q.method \notin Methods["cues"]
    BY <1>4, <2>2 DEF Route, JobPath
  <2>3. CASE q.method \in Methods["cues"]
    <3>1. q.method = "POST" /\ ("preflight" \in q.with \/ q.sub = "preflight")
      BY <1>4, <2>1, <2>3 DEF AsksOnly
    <3>2. Route(q) = CuesRoute(q)
      BY <1>4, <2>3 DEF Route, JobPath
    <3>3. CuesRoute(q) \subseteq {"PreviewCues"}
      <4> DEFINE B == q.method = "POST" /\ ("preflight" \in q.with \/ q.sub = "preflight")
                 C == q.method = "POST" /\ "operations" \in q.with
                 D == q.method = "DELETE" /\ q.sub # ""
                 rules == << <<B, {"PreviewCues"}>>, <<C, {"BatchCues", "ReworkCues"}>>,
                             <<D, {"DeleteCue", "ReworkCues"}>>,
                             <<TRUE, {"UpsertCue", "ReworkCues"}>> >>
      <4>1. CuesRoute(q) = FirstOf(rules) /\ B
        BY <3>1 DEF CuesRoute
      <4> HIDE DEF B, C, D
      <4>2. DOMAIN rules = 1..4 /\ rules[1][1] /\ rules[1][2] = {"PreviewCues"}
        BY <4>1
      <4> HIDE DEF rules
      <4>3. \A k \in 1..4 : k <= 1 => k = 1
        OBVIOUS
      <4>4. \A k \in DOMAIN rules : k <= 1 => rules[k][2] \subseteq {"PreviewCues"}
        BY <4>2, <4>3
      <4>5. 1 \in DOMAIN rules /\ DOMAIN rules \subseteq Nat \ {0}
        BY <4>2
      <4> QED  BY <4>1, <4>2, <4>4, <4>5, FirstOfWithin
    <3> QED  BY <3>2, <3>3 DEF Writing
  <2> QED  BY <2>2, <2>3
<1>5. CASE q.path \in {"submit", "approval", "review", "credential"}
  BY <1>5 DEF Route, JobPath, AsksOnly, SubmitRoute, ApprovalRoute, ReviewRoute,
              CredentialRoute, Writing
<1>6. CASE q.path = "findings"
  <2>1. CASE q.method = "POST" /\ q.sub \in {"preflight", "closure-preflight"}
    <3>1. Route(q) \subseteq FindingsRoute(q)
      BY <1>6 DEF Route, JobPath
    <3> QED  BY <1>6, <2>1, <3>1, FindingsPreflight DEF Writing
  <2>2. CASE q.method = "GET"
    <3>1. FindingsRoute(q) \subseteq {"ClosurePreflight", "FindingStatistics", "FindFindings"}
      <4> DEFINE B == q.method = "GET" /\ q.sub \in {"closure-preflight", "preflight"}
                 C == q.method = "GET" /\ q.sub = "finish"
                 D == q.method = "GET"
                 Later == << <<"findings" \in q.with,                    {"BatchFindings"}>>,
                             <<"responses" \in q.with,                   {"BatchRespond"}>>,
                             <<q.sub \in {"closure-preflight", "preflight"}, {"ClosurePreflight"}>>,
                             <<q.sub \in {"id/response", "response/id"}, {"Respond"}>>,
                             <<q.sub = "finish",                         {"FinishReview"}>>,
                             <<q.sub = "response",                       {}>>,
                             <<TRUE,                                     {"AddFinding"}>> >>
                 rules == << <<B, {"ClosurePreflight"}>>, <<C, {"FindingStatistics"}>>,
                             <<D, {"FindFindings"}>>, Later[1], Later[2], Later[3], Later[4],
                             Later[5], Later[6], Later[7] >>
                 Asked == {"ClosurePreflight", "FindingStatistics", "FindFindings"}
      <4>1. FindingsRoute(q) = FirstOf(rules)
        BY DEF FindingsRoute
      <4>2. D
        BY <2>2
      <4> HIDE DEF B, C, D, Later
      <4>3. /\ DOMAIN rules = 1..10 /\ rules[3][1] /\ rules[1][2] = {"ClosurePreflight"}
            /\ rules[2][2] = {"FindingStatistics"} /\ rules[3][2] = {"FindFindings"}
        BY <4>2
      <4> HIDE DEF rules
      <4>4. \A k \in 1..10 : k <= 3 => k \in {1, 2, 3}
        OBVIOUS
      <4>5. \A k \in DOMAIN rules : k <= 3 => rules[k][2] \subseteq Asked
        BY <4>3, <4>4
      <4>6. 3 \in DOMAIN rules /\ DOMAIN rules \subseteq Nat \ {0}
        BY <4>3
      <4> HIDE DEF Asked
      <4>7. FirstOf(rules) \subseteq Asked
        BY <4>3, <4>5, <4>6, FirstOfWithin
      <4> QED  BY <4>1, <4>7 DEF Asked
    <3>2. Route(q) \subseteq FindingsRoute(q)
      BY <1>6 DEF Route, JobPath
    <3> QED  BY <3>1, <3>2 DEF Writing
  <2>3. CASE q.method \notin {"GET", "POST"}
    BY <1>6, <2>3 DEF Route, JobPath, Methods
  <2> QED  BY <1>6, <2>1, <2>2, <2>3 DEF AsksOnly
<1>7. CASE q.path = "verify"
  <2>1. VerifyRoute(q) \subseteq Verifying
    BY DEF VerifyRoute, FirstOf, Verifying
  <2>2. Route(q) \subseteq VerifyRoute(q)
    BY <1>7 DEF Route, JobPath
  <2> QED  BY <2>1, <2>2 DEF Writing, Verifying
<1> QED
  BY <1>1, <1>2, <1>3, <1>4, <1>5, <1>6, <1>7 DEF Path, JobPath

\* A request that reads, asks for a preflight or verifies never holds the store's
\* lock to write, on no path of no handler and whatever its body holds besides,
\* but for findings or answers sent to the findings, which go before the path.
THEOREM AskingWritesByFindingsOnly == Spec => []OnlyFindingsOverrideAsking
<1>1. ServedInv => OnlyFindingsOverrideAsking
  <2> SUFFICES ASSUME ServedInv, writer # None, AsksOnly(form[writer])
               PROVE  Overridden(form[writer])
    BY DEF OnlyFindingsOverrideAsking
  <2>1. /\ writer \in Request /\ Working(writer) /\ Step(writer) \in {"save", "create"}
        /\ op[writer] \in Operation /\ at[writer] \in 1..Len(Program(op[writer]))
    BY DEF ServedInv, LockInv, Shapes, InvOf, AtItsStep, Working
  <2>2. form[writer] \in HttpRequest /\ op[writer] \in Route(form[writer])
    BY <2>1, FormAssumption DEF ServedInv, Served, Working
  <2>3. op[writer] \in Writing \cup {"CreateJob"}
    BY <2>1, ReadingPrograms DEF Step
  <2> QED  BY <2>2, <2>3, AskingIsReading
<1> QED
  BY <1>1, ServedInit, ServedStep, PTL DEF Spec

-----------------------------------------------------------------------------
(* A detail, without the mutex. *)

HasIssue(E) == "credential.issued" \in {E[i] : i \in DOMAIN E}

\* What the job was at some moment up to the store s, and its events then or later.
PastJob(s, j) == j \in Job /\ j.version < Len(s.events) /\ (j.issued => s.job.issued)
PastEvents(s, j, E) ==
    /\ j.version < Len(E) /\ (j.issued => HasIssue(E))
    /\ HasIssue(E) => s.job.issued

\* What a detail has read before each of its steps, and when it answers.
DetailReads(r) ==
    Busy(r) /\ op[r] = "Detail" =>
        /\ at[r] = 1 => got[r] = Unread
        /\ at[r] \in {2, 3} => PastJob(store, got[r].job)
        /\ at[r] = 4 => PastEvents(store, got[r].job, got[r].events)
        /\ at[r] = 0 => \/ got[r] = Unread
                        \/ /\ PastEvents(store, got[r].job, got[r].events)
                           /\ HasIssue(got[r].events) => got[r].credential # None

DetailInv == ServedInv /\ \A r \in Request : DetailReads(r)

LEMMA DetailProgram ==
    /\ Program("Detail") = <<"get", "exists", "events", "credential">>
    /\ Len(Program("Detail")) = 4
    /\ \A i \in 1..4 : i \in {1, 2, 3, 4}
    /\ "Detail" \in Operation \ Writing /\ "Detail" \notin Verifying
BY DEF Program, Unlocked, Operation, Writing, Verifying

\* What was of the past stays so.
LEMMA PastStays ==
    ASSUME ServedInv, [Next]_vars
    PROVE  /\ \A j : PastJob(store, j) => PastJob(store', j)
           /\ \A j, E : PastEvents(store, j, E) => PastEvents(store', j, E)
<1>1. /\ Len(store'.events) >= Len(store.events) /\ (store.job.issued => store'.job.issued)
      /\ Len(store.events) \in Nat
  <2>1. store.events \in Seq(EventType)
    BY DEF ServedInv, VerifyInv, Attested
  <2> QED  BY <2>1, NumberedStep, StepsAreAtomic DEF ServedInv, LockInv, VerifyInv
<1>2. Len(store'.events) \in Nat
  BY ServedStep DEF ServedInv, VerifyInv, Attested
<1>3. ASSUME NEW j, PastJob(store, j) PROVE PastJob(store', j)
  BY <1>1, <1>2, <1>3 DEF PastJob, Job
<1>4. ASSUME NEW j, NEW E, PastEvents(store, j, E) PROVE PastEvents(store', j, E)
  BY <1>1, <1>4 DEF PastEvents, HasIssue
<1> QED  BY <1>3, <1>4

\* The job and the events as they are now are of the same moment.
LEMMA NowIsPast ==
    ASSUME ServedInv
    PROVE  /\ PastJob(store, store.job) /\ (HasIssue(store.events) <=> store.job.issued)
           /\ store.job.issued => store.credential # None
<1>1. store.events \in Seq(EventType) /\ Len(store.events) = store.job.version + 1
      /\ store.job.version \in Nat
  BY DEF ServedInv, VerifyInv, Attested, Numbered
<1>2. PastJob(store, store.job)
  BY <1>1, StoreIsSeen DEF PastJob, ServedInv, LockInv, VerifyInv
<1>3. HasIssue(store.events) => store.job.issued
  BY DEF HasIssue, ServedInv, Numbered
<1>4. ASSUME store.job.issued PROVE HasIssue(store.events)
  <2>1. store.credential \in Seq(EventType)
        /\ store.events = Append(store.credential, "credential.issued")
    BY <1>4 DEF ServedInv, VerifyInv, Attested
  <2>2. Len(store.events) \in DOMAIN store.events
        /\ store.events[Len(store.events)] = "credential.issued"
    BY <2>1
  <2> QED  BY <2>2 DEF HasIssue
<1>5. store.job.issued => store.credential # None
  BY StoreIsSeen DEF ServedInv, LockInv, VerifyInv
<1> QED  BY <1>2, <1>3, <1>4, <1>5

LEMMA DetailInit == Init => DetailInv
<1> SUFFICES ASSUME Init PROVE DetailInv
  OBVIOUS
<1> QED  BY ServedInit DEF DetailInv, DetailReads, Init, Busy

\* Each part a detail reads is as new as the one before it.
LEMMA DetailReadStep ==
    ASSUME DetailInv, NEW r \in Request, ReadStore(r), op[r] = "Detail"
    PROVE  DetailReads(r)'
<1>1. /\ ServedInv /\ Shapes /\ got \in [Request -> Seen] /\ Busy(r) /\ DetailReads(r)
      /\ Len(Program(op[r])) = 4 /\ at[r] \in {1, 2, 3, 4}
  BY DetailProgram DEF DetailInv, ServedInv, LockInv, InvOf, AtItsStep, Working, ReadStore
<1>2. store' = store /\ op' = op /\ form' = form
  BY DEF ReadStore
<1>3. CASE at' = [at EXCEPT ![r] = 0] /\ got' = [got EXCEPT ![r] = Unread]
  <2>1. at'[r] = 0 /\ got'[r] = Unread
    BY <1>1, <1>3 DEF Shapes
  <2>2. Unread' = Unread
    BY DEF Unread
  <2> QED  BY <2>1, <2>2 DEF DetailReads
<1>4. CASE at' = Advanced(r) /\ got' = Read(r)
  <2>1. at'[r] = IF at[r] = 4 THEN 0 ELSE at[r] + 1
    BY <1>1, <1>4 DEF Shapes, Advanced
  <2>2. /\ at[r] = 1 => Step(r) = "get"
        /\ at[r] = 2 => Step(r) = "exists"
        /\ at[r] = 3 => Step(r) = "events"
        /\ at[r] = 4 => Step(r) = "credential"
    BY DetailProgram DEF Step
  <2>3. store \in Seen
    BY <1>1, StoreIsSeen DEF ServedInv, VerifyInv
  <2>4. got'[r] = [job |-> IF Step(r) = "get" THEN store.job ELSE got[r].job,
                   events |-> IF Step(r) = "events" THEN store.events ELSE got[r].events,
                   credential |-> IF Step(r) = "credential" THEN store.credential
                                                            ELSE got[r].credential]
    BY <1>1, <1>4, <2>3, ReadsAreSeen
  <2>5. PastJob(store, store.job) /\ (HasIssue(store.events) <=> store.job.issued)
        /\ (store.job.issued => store.credential # None)
    BY <1>1, NowIsPast
  <2>6. CASE at[r] \in {1, 2}
    <3>1. /\ at'[r] \in {2, 3}
          /\ got'[r].job = IF at[r] = 1 THEN store.job ELSE got[r].job
      BY <2>1, <2>2, <2>4, <2>6
    <3>2. at[r] = 2 => PastJob(store, got[r].job)
      BY <1>1 DEF DetailReads
    <3>3. PastJob(store', got'[r].job)
      BY <1>2, <2>5, <2>6, <3>1, <3>2 DEF PastJob
    <3> QED  BY <3>1, <3>3 DEF DetailReads
  <2>7. CASE at[r] = 3
    <3>1. at'[r] = 4 /\ got'[r].job = got[r].job /\ got'[r].events = store.events
      BY <2>1, <2>2, <2>4, <2>7
    <3>2. PastJob(store, got[r].job)
      BY <1>1, <2>7 DEF DetailReads
    <3>3. PastEvents(store', got'[r].job, got'[r].events)
      BY <1>2, <2>5, <3>1, <3>2 DEF PastJob, PastEvents, HasIssue
    <3> QED  BY <3>1, <3>3 DEF DetailReads
  <2>8. CASE at[r] = 4
    <3>1. /\ at'[r] = 0 /\ got'[r].job = got[r].job /\ got'[r].events = got[r].events
          /\ got'[r].credential = store.credential
      BY <2>1, <2>2, <2>4, <2>8
    <3>2. PastEvents(store, got[r].job, got[r].events)
      BY <1>1, <2>8 DEF DetailReads
    <3>3. PastEvents(store', got'[r].job, got'[r].events)
      BY <1>2, <3>1, <3>2 DEF PastEvents, HasIssue
    <3>4. HasIssue(got'[r].events) => got'[r].credential # None
      BY <2>5, <3>1, <3>2 DEF PastEvents, HasIssue
    <3> QED  BY <3>1, <3>3, <3>4 DEF DetailReads
  <2> QED  BY <1>1, <2>6, <2>7, <2>8
<1> QED  BY <1>3, <1>4 DEF ReadStore

LEMMA DetailStep == DetailInv /\ [Next]_vars => DetailInv'
<1> SUFFICES ASSUME DetailInv, [Next]_vars PROVE DetailInv'
  OBVIOUS
<1> USE DEF DetailInv
<1>1. ServedInv' /\ Shapes /\ got \in [Request -> Seen]
  BY ServedStep DEF ServedInv, LockInv
<1>2. ASSUME NEW s \in Request, form'[s] = form[s], op'[s] = op[s], at'[s] = at[s],
             got'[s] = got[s]
      PROVE  DetailReads(s)'
  <2>1. Busy(s)' = Busy(s)
    BY <1>2 DEF Busy
  <2>2. PastJob(store, got[s].job) => PastJob(store', got'[s].job)
    BY <1>2, PastStays
  <2>3. PastEvents(store, got[s].job, got[s].events)
          => PastEvents(store', got'[s].job, got'[s].events)
    BY <1>2, PastStays
  <2>4. HasIssue(got'[s].events) = HasIssue(got[s].events)
    BY <1>2 DEF HasIssue
  <2> QED  BY <1>2, <2>1, <2>2, <2>3, <2>4 DEF DetailReads, Unread
<1>3. ASSUME NEW s \in Request PROVE DetailReads(s)'
  <2>1. CASE UNCHANGED vars
    BY <1>2, <2>1 DEF vars
  <2>2. ASSUME NEW r \in Request, NEW f \in Form[r], Arrive(r, f) PROVE DetailReads(s)'
    <3>1. CASE s = r
      <4>1. got'[r] = Unread /\ at'[r] = 1
        BY <1>1, <2>2 DEF Arrive, Shapes, ServedInv, VerifyInv, ReadsIssued
      <4>2. Unread' = Unread
        BY DEF Unread
      <4> QED  BY <3>1, <4>1, <4>2 DEF DetailReads
    <3> QED  BY <1>1, <1>2, <2>2, <3>1 DEF Arrive, Shapes
  <2>3. ASSUME NEW r \in Request, LockMutex(r) \/ WriteStore(r) PROVE DetailReads(s)'
    <3>1. op[r] # "Detail"
      <4>1. /\ Step(r) \in {"lock", "save", "create"} /\ op[r] \in Operation
            /\ at[r] \in 1..Len(Program(op[r]))
        BY <2>3 DEF LockMutex, WriteStore, ServedInv, LockInv, InvOf, AtItsStep, Working
      <4> QED  BY <4>1, DetailProgram DEF Step
    <3>2. CASE s = r
      <4>1. op'[s] # "Detail"
        BY <2>3, <3>1, <3>2 DEF LockMutex, WriteStore
      <4> QED  BY <4>1 DEF DetailReads
    <3>3. CASE s # r
      <4>1. at'[s] = at[s]
        BY <1>1, <2>3, <3>3 DEF LockMutex, WriteStore, Shapes, Advanced
      <4> QED  BY <1>2, <2>3, <4>1 DEF LockMutex, WriteStore
    <3> QED  BY <3>2, <3>3
  <2>4. ASSUME NEW r \in Request, LockToRead(r) \/ LockToWrite(r) PROVE DetailReads(s)'
    BY <1>2, <2>4 DEF LockToRead, LockToWrite
  <2>5. ASSUME NEW r \in Request, ReadStore(r) PROVE DetailReads(s)'
    <3>1. CASE s # r
      <4>1. at'[s] = at[s] /\ got'[s] = got[s]
        BY <1>1, <2>5, <3>1 DEF ReadStore, Shapes, Advanced, Read
      <4> QED  BY <1>2, <2>5, <4>1 DEF ReadStore
    <3>2. CASE s = r /\ op[r] # "Detail"
      BY <2>5, <3>2 DEF ReadStore, DetailReads
    <3> QED  BY <2>5, <3>1, <3>2, DetailReadStep
  <2>6. ASSUME NEW r \in Request, Return(r) PROVE DetailReads(s)'
    <3>1. CASE s = r
      BY <1>1, <2>6, <3>1 DEF Return, Shapes, DetailReads, Busy
    <3> QED  BY <1>1, <1>2, <2>6, <3>1 DEF Return, Shapes
  <2> QED  BY <2>1, <2>2, <2>3, <2>4, <2>5, <2>6 DEF Next, Progress
<1> QED  BY <1>1, <1>3

\* However many writes fall between the reads of a detail, it shows events that
\* reach beyond the job it shows, and the credential whose issue they show.
THEOREM DetailsNeverLag == Spec => []DetailNeverLags
<1>1. DetailInv => DetailNeverLags
  <2> SUFFICES ASSUME DetailInv, NEW r \in Request, Answering(r), op[r] = "Detail",
                      got[r].events # None
               PROVE  /\ got[r].job.version < Len(got[r].events)
                      /\ got[r].job.issued => HasIssue(got[r].events)
                      /\ HasIssue(got[r].events) => got[r].credential # None
    BY DEF DetailNeverLags, HasIssue
  <2>1. got[r] # Unread
    BY DEF Unread
  <2> QED  BY <2>1 DEF DetailInv, DetailReads, Answering, PastEvents
<1> QED
  BY <1>1, DetailInit, DetailStep, PTL DEF Spec

=============================================================================
