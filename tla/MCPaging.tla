------------------------------- MODULE MCPaging -------------------------------
(* Short pages of short lists for TLC. *)
EXTENDS Paging

CONSTANTS ann, bob

F(cue, severity) == [cue |-> cue, severity |-> severity]
MCFound == {F(1, "low"), F(2, "high")}

\* A walk reads what the job shows and changes none of it, so two walks do not
\* meet: behaviours with one of them are enough.
OneWalk == reading = NoWalk \/ listing = NoWalk

=============================================================================
