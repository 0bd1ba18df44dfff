---------------------------- MODULE MCChatSession ----------------------------
(* Instances of ChatSession for TLC. *)
EXTENDS ChatSession, TLC

CONSTANTS i1, i2, i3, i4

Symmetry == Permutations(RawIds)

\* A refused tool, a tool that asks, a question that needs no permission, and
\* a question that does.
AskClasses == {[perm |-> "Deny", via |-> "tool"], [perm |-> "Ask", via |-> "tool"],
               [perm |-> "Ask", via |-> "user_prompt"]}

\* Ordinary tools and a question to the page.
PlainClasses == {[perm |-> "Allow", via |-> "tool"],
                 [perm |-> "Allow", via |-> "dom_query"]}
=============================================================================
