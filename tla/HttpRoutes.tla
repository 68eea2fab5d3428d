------------------------------ MODULE HttpRoutes ------------------------------
(***************************************************************************)
(* Which operation of the service an HTTP request leads to                 *)
(* (internal/httpapi): the method, the path, what the path adds to it and  *)
(* the parts of the body and of the query the handlers look at, in the     *)
(* order in which they look.                                               *)
(***************************************************************************)
EXTENDS Naturals, Sequences

Method == {"GET", "POST", "PATCH", "DELETE", "PUT"}

\* "jobs" and "verify-batch" are the collection's paths, "job" a job's own, and
\* the others what follows the job's identifier.
JobPath == {"cues", "submit", "preflight", "findings", "approval", "review",
            "credential", "timeline", "verify", "diff"}
Path == {"jobs", "verify-batch", "job", "other"} \cup JobPath

\* What follows that: nothing, an identifier, or one of these words.
Sub == {"", "id", "preflight", "closure-preflight", "finish", "readiness",
        "response", "response/id", "id/response"}

\* What else is looked at: lists that are not empty, a revision, flags.
Part == {"preflight", "operations", "findings", "responses", "credential",
         "credentials", "revision", "range"}

Operation == {"CreateJob", "Snapshot", "Detail", "ReviseMetadata", "PreviewCues", "BatchCues",
              "ReworkCues", "UpsertCue", "DeleteCue", "Preflight", "Submit",
              "ClosurePreflight", "FindingStatistics", "FindFindings", "BatchFindings",
              "BatchRespond", "Respond", "AddFinding", "FinishReview", "Readiness", "Approve",
              "Credential", "TimelinePage", "VerifyCredential", "VerifyCredentialCopy",
              "VerifyCredentialsBatch", "Diff"}

HttpRequest == [method : Method, path : Path, sub : Sub, with : SUBSET Part]

\* The operation of the first rule that holds; none: answered without the service.
FirstOf(rules) ==
    UNION {rules[i][2] : i \in {k \in DOMAIN rules : /\ rules[k][1]
                                                     /\ \A j \in 1..(k - 1) : ~ rules[j][1]}}

Methods ==
    [p \in JobPath |-> CASE p = "cues" -> {"POST", "DELETE"}
                         [] p \in {"timeline", "diff"} -> {"GET"}
                         [] OTHER -> {"GET", "POST"}]

JobsRoute(q) == IF q.method = "POST" THEN {"CreateJob"} ELSE {}

BatchVerifyRoute(q) == IF q.method = "POST" THEN {"VerifyCredentialsBatch"} ELSE {}

JobRoute(q) ==
    FirstOf(<< <<q.method = "GET" /\ "revision" \in q.with, {"Snapshot"}>>,
               <<q.method = "GET",                          {"Detail"}>>,
               <<q.method = "PATCH",                        {"ReviseMetadata"}>> >>)

\* Edits of a job in rework take another way, by the status read before the
\* mutex.  A deletion without a cue is taken for an upsert.
\* A seeded fault: operations are looked for before the preflight flag.
CuesRoute_Bug(q) ==
    FirstOf(<< <<q.method = "POST" /\ "operations" \in q.with, {"BatchCues", "ReworkCues"}>>,
               <<q.method = "POST" /\ ("preflight" \in q.with \/ q.sub = "preflight"),
                                                        {"PreviewCues"}>>,
               <<q.method = "DELETE" /\ q.sub # "",     {"DeleteCue", "ReworkCues"}>>,
               <<TRUE,                                  {"UpsertCue", "ReworkCues"}>> >>)
CuesRoute(q) ==
    FirstOf(<< <<q.method = "POST" /\ ("preflight" \in q.with \/ q.sub = "preflight"),
                                                        {"PreviewCues"}>>,
               <<q.method = "POST" /\ "operations" \in q.with, {"BatchCues", "ReworkCues"}>>,
               <<q.method = "DELETE" /\ q.sub # "",     {"DeleteCue", "ReworkCues"}>>,
               <<TRUE,                                  {"UpsertCue", "ReworkCues"}>> >>)

SubmitRoute(q) ==
    IF q.method = "GET" \/ q.sub = "preflight" THEN {"Preflight"} ELSE {"Submit"}

\* What the body holds goes before what the path says.
FindingsRoute(q) ==
    FirstOf(<< <<q.method = "GET" /\ q.sub \in {"closure-preflight", "preflight"},
                                                           {"ClosurePreflight"}>>,
               <<q.method = "GET" /\ q.sub = "finish",     {"FindingStatistics"}>>,
               <<q.method = "GET",                         {"FindFindings"}>>,
               <<"findings" \in q.with,                    {"BatchFindings"}>>,
               <<"responses" \in q.with,                   {"BatchRespond"}>>,
               <<q.sub \in {"closure-preflight", "preflight"}, {"ClosurePreflight"}>>,
               <<q.sub \in {"id/response", "response/id"}, {"Respond"}>>,
               <<q.sub = "finish",                         {"FinishReview"}>>,
               <<q.sub = "response",                       {}>>,
               <<TRUE,                                     {"AddFinding"}>> >>)

ApprovalRoute(q) ==
    IF q.method = "GET" \/ q.sub = "readiness" THEN {"Readiness"} ELSE {"Approve"}

ReviewRoute(q) ==
    IF q.method = "GET" THEN {"FindingStatistics"} ELSE {"FinishReview"}

CredentialRoute(q) ==
    IF q.method = "GET" THEN {"Detail"} ELSE {"Credential"}

VerifyRoute(q) ==
    FirstOf(<< <<"credentials" \in q.with, {"VerifyCredentialsBatch"}>>,
               <<"credential" \in q.with,  {"VerifyCredentialCopy"}>>,
               <<TRUE,                     {"VerifyCredential"}>> >>)

DiffRoute(q) == IF "range" \in q.with THEN {"Diff"} ELSE {}

Route(q) ==
    CASE q.path = "jobs"         -> JobsRoute(q)
      [] q.path = "verify-batch" -> BatchVerifyRoute(q)
      [] q.path = "job"          -> JobRoute(q)
      [] q.path = "other"        -> {}
      [] q.path \in JobPath /\ q.method \notin Methods[q.path] -> {}
      [] q.path = "cues"       /\ q.method \in Methods[q.path] -> CuesRoute(q)
      [] q.path = "submit"     /\ q.method \in Methods[q.path] -> SubmitRoute(q)
      [] q.path = "preflight"  /\ q.method \in Methods[q.path] -> {"Preflight"}
      [] q.path = "findings"   /\ q.method \in Methods[q.path] -> FindingsRoute(q)
      [] q.path = "approval"   /\ q.method \in Methods[q.path] -> ApprovalRoute(q)
      [] q.path = "review"     /\ q.method \in Methods[q.path] -> ReviewRoute(q)
      [] q.path = "credential" /\ q.method \in Methods[q.path] -> CredentialRoute(q)
      [] q.path = "timeline"   /\ q.method \in Methods[q.path] -> {"TimelinePage"}
      [] q.path = "verify"     /\ q.method \in Methods[q.path] -> VerifyRoute(q)
      [] q.path = "diff"       /\ q.method \in Methods[q.path] -> DiffRoute(q)

=============================================================================
