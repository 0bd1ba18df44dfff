---------------------------- MODULE ProjectManager ----------------------------
(***************************************************************************)
(* The project registry of one connection as values: the ids of the        *)
(* projects, the active one and the next id to mint.  The state saved to   *)
(* projects.json has the same three fields; next_id may be missing (0) in  *)
(* a file written by an older build.                                       *)
(***************************************************************************)
EXTENDS Naturals, FiniteSets

DefaultProject == 1

Registries ==
    {r \in [ids : SUBSET Nat, active : Nat, next : Nat] : IsFiniteSet(r.ids)}

\* ProjectManager::new, before the Default project is seeded.
NewRegistry == [ids |-> {}, active |-> DefaultProject, next |-> DefaultProject + 1]

EnsureDefault(r) == [r EXCEPT !.ids = @ \cup {DefaultProject}]

\* Mutant: next_id is taken from the file as it is.
LoadRegistryAsIs(s) == s

\* load_from_file: next_id goes past every id loaded, and an unknown active
\* project falls back to the Default one.
LoadRegistry(s) ==
    LET top == CHOOSE n \in s.ids \cup {DefaultProject} :
                   \A p \in s.ids \cup {DefaultProject} : p <= n
    IN  [ids    |-> s.ids,
         active |-> IF s.active \in s.ids THEN s.active ELSE DefaultProject,
         next   |-> IF s.next > top + 1 THEN s.next ELSE top + 1]

CreateProject(r) == [r EXCEPT !.ids = @ \cup {r.next}, !.next = @ + 1]

\* set_active, for a known project.
SetActive(r, p) == IF p \in r.ids THEN [r EXCEPT !.active = p] ELSE r

\* remove refuses the Default project, the last one and an unknown one.
Removable(r, p) == p # DefaultProject /\ Cardinality(r.ids) > 1 /\ p \in r.ids

\* Mutant: the active project stays active although it is gone.
RemoveProjectOnly(r, p) == [r EXCEPT !.ids = @ \ {p}]

RemoveProject(r, p) ==
    [r EXCEPT !.ids = @ \ {p}, !.active = IF @ = p THEN DefaultProject ELSE @]
=============================================================================
