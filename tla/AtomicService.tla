---------------------------- MODULE AtomicService -----------------------------
(***************************************************************************)
(* What the mutex of the service promises of one job: its writes happen    *)
(* one at a time, each on the state the one before has left, until a       *)
(* credential is issued, which attests every event before its own and is   *)
(* the last.  ReviewJob and CaptionService take this for granted, where an *)
(* operation is one step.                                                  *)
(***************************************************************************)
EXTENDS Naturals, Sequences

CONSTANTS None, MaxVersion

VARIABLE store   \* [job : [version, issued], events, credential]

Created ==
    [job |-> [version |-> 0, issued |-> FALSE], events |-> <<"changed">>, credential |-> None]

Changed(s, job) ==
    [s EXCEPT !.job = [job EXCEPT !.version = @ + 1], !.events = Append(@, "changed")]

Issued(s, job, seen) ==
    [s EXCEPT !.job = [version |-> job.version + 1, issued |-> TRUE],
              !.events = Append(@, "credential.issued"), !.credential = seen]

\* A job that takes no more writes, or as many as the bound allows.
Closed(job) == job.issued \/ job.version >= MaxVersion

Change == ~ Closed(store.job) /\ store' = Changed(store, store.job)
Issue  == ~ Closed(store.job) /\ store' = Issued(store, store.job, store.events)

Init == store = Created
Next == Change \/ Issue
Spec == Init /\ [][Next]_store

=============================================================================
