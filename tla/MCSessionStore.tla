---------------------------- MODULE MCSessionStore ----------------------------
(* An instance of SessionStore for TLC. *)
EXTENDS SessionStore, TLC

CONSTANTS c1, c2

Symmetry == Permutations(Conns)

\* A projects.json of a build that did not write next_id yet.
OldFiles == {[ids |-> {1, 2}, active |-> 2, next |-> 0]}

\* What follows once two clients were there at a time is explored to smaller
\* bounds than what one client that comes and goes may do: one message, one
\* project, no fault.
Met == ~calm /\ faults = 0
Together == \E c, d \in Conns : c # d /\ phase[c] # "closed" /\ phase[d] # "closed"
MeetingsAreShort ==
    /\ Together => faults = 0
    /\ Met => /\ counter + msgs <= 3
              /\ \A c \in Conns : used \cup reg[c].ids \subseteq {DefaultProject}
MeetingsHaveNoFaults == Met => faults' = 0
=============================================================================
