----------------------------- MODULE AtomicStore -----------------------------
(***************************************************************************)
(* What callers of the store rely on: a save happens as a whole or not at  *)
(* all, and what has happened is never taken back, unless the store has    *)
(* no file and the process ends.                                           *)
(***************************************************************************)
EXTENDS JournalState

CONSTANT Write(_)   \* Write(s): the writes callers may ask for in state s

VARIABLES contents, durable

vars == <<contents, durable>>

Init == contents = EmptyState /\ durable \in BOOLEAN

Save == \E w \in Write(contents) :
           contents' = Applied(contents, w) /\ UNCHANGED durable

Lose == ~ durable /\ contents' = EmptyState /\ UNCHANGED durable

Next == Save \/ Lose

Spec == Init /\ [][Next]_vars

=============================================================================
