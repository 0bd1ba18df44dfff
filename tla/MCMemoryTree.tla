----------------------------- MODULE MCMemoryTree -----------------------------
(* Instances of MemoryTree for TLC. *)
EXTENDS MemoryTree

CONSTANTS c1, c2, s1, s2

\* Two short documents of one source.
Notes == {[source |-> s1, chunks |-> {c1}], [source |-> s1, chunks |-> {c2}]}

\* Two documents of s1, one of which reaches s2 as well.
Shared == Notes \cup {[source |-> s2, chunks |-> {c2}]}
=============================================================================
