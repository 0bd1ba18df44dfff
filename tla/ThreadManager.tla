---------------------------- MODULE ThreadManager ----------------------------
(***************************************************************************)
(* The chat threads of one connection as values: what the operations of    *)
(* ThreadManager do to the map of threads and to the foreground.  A thread *)
(* is its messages, its project, whether it is marked as the foreground    *)
(* and whether it has a compact summary.  Messages are the numbers of the  *)
(* messages added, oldest first, so a log is a set.                        *)
(***************************************************************************)
EXTENDS Naturals, FiniteSets, Functions

\* foreground_id is an Option; ids start at 1.
NoThread == 0

Thread(p) == [log |-> {}, proj |-> p, fore |-> FALSE, sum |-> FALSE]

Threads == [log : SUBSET Nat, proj : Nat, fore : BOOLEAN, sum : BOOLEAN]

\* ThreadManager::new.
NewManager == [threads |-> << >>, fg |-> NoThread]

IsManager(m) ==
    /\ m = [threads |-> m.threads, fg |-> m.fg]
    /\ m.threads = [t \in DOMAIN m.threads |-> m.threads[t]]
    /\ DOMAIN m.threads \subseteq Nat \ {NoThread}
    /\ \A t \in DOMAIN m.threads : m.threads[t] \in Threads
    /\ m.fg \in Nat

\* The messages a manager knows.
Messages(m) == UNION {m.threads[t].log : t \in DOMAIN m.threads}

\* The map with thread t put in, or replaced.
Put(threads, t, thread) ==
    [u \in DOMAIN threads \cup {t} |-> IF u = t THEN thread ELSE threads[u]]

\* The map with no thread marked but t; only the old foreground is unmarked.
Mark(m, t) ==
    [u \in DOMAIN m.threads |->
        [m.threads[u] EXCEPT !.fore = (u = t) \/ (@ /\ u # m.fg)]]

\* Mutant: the old foreground keeps its mark.
CreateChatKeepsMark(m, t, p) ==
    [threads |-> Put(m.threads, t, [Thread(p) EXCEPT !.fore = TRUE]), fg |-> t]

\* create_chat_in: the new thread takes the foreground. A thread that has the
\* id already is replaced.
CreateChat(m, t, p) ==
    [threads |-> Put(Mark(m, NoThread), t, [Thread(p) EXCEPT !.fore = TRUE]), fg |-> t]

\* switch_foreground, for a known thread.
SwitchForeground(m, t) == [threads |-> Mark(m, t), fg |-> t]

ClearForeground(m) == [threads |-> Mark(m, NoThread), fg |-> NoThread]

\* remove: closing the foreground thread leaves none.
RemoveThread(m, t) ==
    [threads |-> Restrict(m.threads, DOMAIN m.threads \ {t}),
     fg      |-> IF m.fg = t THEN NoThread ELSE m.fg]

\* foreground(): the thread foreground_id names, if it is there.
HasForeground(m) == m.fg \in DOMAIN m.threads

AddMessage(m, n) == [m EXCEPT !.threads[m.fg].log = @ \cup {n}]

\* apply_compaction_keeping: a summary, and the keep most recent messages.
Recent(log, keep) == {n \in log : Cardinality({l \in log : l >= n}) <= keep}

Compact(m, keep) ==
    [m EXCEPT !.threads[m.fg].log = Recent(@, keep), !.threads[m.fg].sum = TRUE]

\* set_project over the threads of a project that is to be deleted.
Reassign(m, from, to) ==
    [m EXCEPT !.threads = [t \in DOMAIN m.threads |->
        IF m.threads[t].proj = from THEN [m.threads[t] EXCEPT !.proj = to]
        ELSE m.threads[t]]]

\* The foreground id and the marks on the threads tell the same story: the
\* thread named is there and is the only one marked.
ForegroundAgrees(m) ==
    /\ m.fg \in DOMAIN m.threads \cup {NoThread}
    /\ \A t \in DOMAIN m.threads : m.threads[t].fore <=> t = m.fg
=============================================================================
