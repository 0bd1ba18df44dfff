-------------------------- MODULE SessionStoreProofs --------------------------
(***************************************************************************)
(* The invariants of SessionStore, for any number of connections and any   *)
(* bounds: first what the operations on a ThreadManager and on a project   *)
(* registry return and preserve, then the store.                           *)
(***************************************************************************)
EXTENDS SessionStore, FiniteSetTheorems, WellFoundedInduction, TLAPS

Good(m) == IsManager(m) /\ ForegroundAgrees(m)

RegistryOK(r) ==
    /\ r \in Registries
    /\ DefaultProject \in r.ids
    /\ r.active \in r.ids
    /\ \A p \in r.ids : p < r.next

-----------------------------------------------------------------------------
(* Managers. *)

\* The messages of a manager are numbers.
LEMMA MessagesAreNumbers ==
    ASSUME NEW m, IsManager(m)
    PROVE  Messages(m) \subseteq Nat
BY DEF IsManager, Messages, Threads

\* A manager is made of well-typed parts.
LEMMA ManagerParts ==
    ASSUME NEW D \in SUBSET (Nat \ {NoThread}), NEW f, NEW g \in Nat,
           f = [t \in D |-> f[t]], \A t \in D : f[t] \in Threads
    PROVE  /\ IsManager([threads |-> f, fg |-> g])
           /\ DOMAIN f = D
<1>1. DOMAIN f = D OBVIOUS
<1> QED BY <1>1 DEF IsManager

\* The messages are those of the threads.
LEMMA InMessages ==
    ASSUME NEW D, NEW f, DOMAIN f = D, NEW g
    PROVE  \A x : x \in Messages([threads |-> f, fg |-> g]) <=>
                    \E t \in D : x \in f[t].log
BY DEF Messages

\* The same, for threads with the logs of others.
LEMMA MessagesOf ==
    ASSUME NEW D, NEW f, DOMAIN f = D, NEW g, NEW h, \A t \in D : f[t].log = h[t].log
    PROVE  \A x : x \in Messages([threads |-> f, fg |-> g]) <=>
                    \E t \in D : x \in h[t].log
BY InMessages

\* Only the thread the foreground goes to is marked; the logs stay.
LEMMA MarkParts ==
    ASSUME NEW m, Good(m), NEW t
    PROVE  LET D == DOMAIN m.threads
               f == Mark(m, t)
           IN  /\ D \in SUBSET (Nat \ {NoThread})
               /\ DOMAIN f = D
               /\ f = [u \in D |-> f[u]]
               /\ \A u \in D : /\ f[u] \in Threads
                               /\ f[u].log = m.threads[u].log
                               /\ f[u].fore <=> u = t
<1> DEFINE D == DOMAIN m.threads
           f == Mark(m, t)
<1>1. DOMAIN f = D /\ f = [u \in D |-> f[u]]
  BY DEF Mark
<1>2. ASSUME NEW u \in D
      PROVE  /\ f[u] \in Threads
             /\ f[u].log = m.threads[u].log
             /\ f[u].fore <=> u = t
  <2>1. m.threads[u] \in Threads /\ (m.threads[u].fore <=> u = m.fg)
    BY DEF Good, IsManager, ForegroundAgrees
  <2>2. f[u] = [m.threads[u] EXCEPT !.fore = (u = t) \/ (@ /\ u # m.fg)]
    BY DEF Mark
  <2> QED BY <2>1, <2>2 DEF Threads
<1>3. D \in SUBSET (Nat \ {NoThread})
  BY DEF Good, IsManager
<1> QED BY <1>1, <1>2, <1>3

\* ThreadManager::new.
LEMMA NewManagerGood ==
    /\ Good(NewManager)
    /\ Messages(NewManager) = {}
<1>1. DOMAIN << >> = {} OBVIOUS
<1>2. << >> = [t \in {} |-> << >>[t]] OBVIOUS
<1>3. IsManager(NewManager)
  BY <1>1, <1>2 DEF IsManager, NewManager, NoThread
<1>4. ForegroundAgrees(NewManager) /\ Messages(NewManager) = {}
  BY <1>1 DEF ForegroundAgrees, NewManager, Messages
<1> QED BY <1>3, <1>4 DEF Good

\* A new thread takes the foreground; no message is lost but those of a thread
\* that has its id already.
LEMMA CreateChatGood ==
    ASSUME NEW m, Good(m), NEW t \in Nat \ {NoThread}, NEW p \in Nat
    PROVE  /\ Good(CreateChat(m, t, p))
           /\ Messages(CreateChat(m, t, p)) \subseteq Messages(m)
           /\ t \notin DOMAIN m.threads =>
                Messages(CreateChat(m, t, p)) = Messages(m)
<1> DEFINE D == DOMAIN m.threads
           f == Mark(m, NoThread)
           th == [Thread(p) EXCEPT !.fore = TRUE]
           g == Put(f, t, th)
<1>1. th \in Threads /\ th.fore /\ th.log = {}
  BY DEF Thread, Threads
<1>2. /\ DOMAIN f = D /\ D \in SUBSET (Nat \ {NoThread})
      /\ \A u \in D : f[u] \in Threads /\ ~f[u].fore /\ f[u].log = m.threads[u].log
  BY MarkParts
<1>3. /\ DOMAIN g = D \cup {t}
      /\ g = [u \in D \cup {t} |-> g[u]]
      /\ g[t] = th
      /\ \A u \in D \ {t} : g[u] = f[u]
  <2> HIDE DEF f, th, D
  <2> QED BY <1>2 DEF Put
<1> HIDE DEF f, th, g
<1>4. IsManager([threads |-> g, fg |-> t])
  <2>1. D \cup {t} \in SUBSET (Nat \ {NoThread}) /\ t \in Nat BY <1>2
  <2>2. \A u \in D \cup {t} : g[u] \in Threads BY <1>1, <1>2, <1>3
  <2> HIDE DEF D
  <2> QED BY <1>3, <2>1, <2>2, ManagerParts
<1>5. ForegroundAgrees([threads |-> g, fg |-> t])
  BY <1>1, <1>2, <1>3 DEF ForegroundAgrees
<1>6. CreateChat(m, t, p) = [threads |-> g, fg |-> t]
  BY DEF CreateChat, f, th, g
<1>7. \A n : n \in Messages(CreateChat(m, t, p)) <=>
             \E u \in D \ {t} : n \in m.threads[u].log
  <2>1. \A n : n \in Messages(CreateChat(m, t, p)) <=>
               \E u \in D \cup {t} : n \in g[u].log
    BY <1>3, <1>6, InMessages
  <2>2. g[t].log = {} BY <1>1, <1>3
  <2>3. \A u \in D \ {t} : g[u].log = m.threads[u].log BY <1>2, <1>3
  <2> HIDE DEF D
  <2> QED BY <2>1, <2>2, <2>3
<1> QED BY <1>4, <1>5, <1>6, <1>7 DEF Good, Messages

\* A known thread takes the foreground; the messages stay.
LEMMA SwitchForegroundGood ==
    ASSUME NEW m, Good(m), NEW t \in DOMAIN m.threads
    PROVE  /\ Good(SwitchForeground(m, t))
           /\ Messages(SwitchForeground(m, t)) = Messages(m)
           /\ DOMAIN SwitchForeground(m, t).threads = DOMAIN m.threads
<1> DEFINE D == DOMAIN m.threads
           f == Mark(m, t)
<1>1. /\ DOMAIN f = D /\ D \in SUBSET (Nat \ {NoThread}) /\ f = [u \in D |-> f[u]]
      /\ \A u \in D : /\ f[u] \in Threads /\ f[u].log = m.threads[u].log
                      /\ f[u].fore <=> u = t
  BY MarkParts
<1>2. SwitchForeground(m, t) = [threads |-> f, fg |-> t] /\ t \in Nat
  BY <1>1 DEF SwitchForeground
<1> HIDE DEF f
<1>3. IsManager([threads |-> f, fg |-> t])
  BY <1>1, <1>2, ManagerParts
<1>4. ForegroundAgrees([threads |-> f, fg |-> t])
  BY <1>1 DEF ForegroundAgrees
<1>5. Messages([threads |-> f, fg |-> t]) = Messages(m)
  <2>1. \A x : x \in Messages([threads |-> f, fg |-> t]) <=>
                 \E u \in D : x \in m.threads[u].log
    <3>1. DOMAIN f = D /\ \A u \in D : f[u].log = m.threads[u].log BY <1>1
    <3> HIDE DEF D
    <3> QED BY <3>1, MessagesOf
  <2> QED BY <2>1 DEF Messages
<1> QED BY <1>1, <1>2, <1>3, <1>4, <1>5 DEF Good

\* No thread has the foreground; the messages stay.
LEMMA ClearForegroundGood ==
    ASSUME NEW m, Good(m)
    PROVE  /\ Good(ClearForeground(m))
           /\ Messages(ClearForeground(m)) = Messages(m)
<1> DEFINE D == DOMAIN m.threads
           f == Mark(m, NoThread)
<1>1. /\ DOMAIN f = D /\ D \in SUBSET (Nat \ {NoThread}) /\ f = [u \in D |-> f[u]]
      /\ \A u \in D : f[u] \in Threads /\ f[u].log = m.threads[u].log /\ ~f[u].fore
  BY MarkParts
<1>2. ClearForeground(m) = [threads |-> f, fg |-> NoThread] /\ NoThread \in Nat
  BY DEF ClearForeground, NoThread
<1> HIDE DEF f
<1>3. IsManager([threads |-> f, fg |-> NoThread])
  BY <1>1, <1>2, ManagerParts
<1>4. ForegroundAgrees([threads |-> f, fg |-> NoThread])
  BY <1>1 DEF ForegroundAgrees
<1>5. Messages([threads |-> f, fg |-> NoThread]) = Messages(m)
  <2>1. \A x : x \in Messages([threads |-> f, fg |-> NoThread]) <=>
                 \E u \in D : x \in m.threads[u].log
    <3>1. DOMAIN f = D /\ \A u \in D : f[u].log = m.threads[u].log BY <1>1
    <3> HIDE DEF D
    <3> QED BY <3>1, MessagesOf
  <2> QED BY <2>1 DEF Messages
<1> QED BY <1>2, <1>3, <1>4, <1>5 DEF Good

\* Closing a thread drops its messages and no others.
LEMMA RemoveThreadGood ==
    ASSUME NEW m, Good(m), NEW t
    PROVE  /\ Good(RemoveThread(m, t))
           /\ Messages(RemoveThread(m, t)) \subseteq Messages(m)
           /\ t \in DOMAIN m.threads =>
                Messages(m) \subseteq Messages(RemoveThread(m, t)) \cup m.threads[t].log
<1> DEFINE D == DOMAIN m.threads
           f == Restrict(m.threads, D \ {t})
           g == IF m.fg = t THEN NoThread ELSE m.fg
<1>1. /\ DOMAIN f = D \ {t} /\ f = [u \in D \ {t} |-> f[u]]
      /\ \A u \in D \ {t} : f[u] = m.threads[u]
  BY DEF Restrict
<1>2. /\ D \subseteq Nat \ {NoThread} /\ \A u \in D : m.threads[u] \in Threads
      /\ g \in Nat
  BY DEF Good, IsManager, NoThread
<1>3. RemoveThread(m, t) = [threads |-> f, fg |-> g]
  BY DEF RemoveThread
<1>4. ForegroundAgrees([threads |-> f, fg |-> g])
  <2>1. /\ m.fg \in D \cup {NoThread}
        /\ \A u \in D : m.threads[u].fore <=> u = m.fg
    BY DEF Good, ForegroundAgrees
  <2>2. g \in (D \ {t}) \cup {NoThread} BY <2>1
  <2>3. ASSUME NEW u \in D \ {t}
        PROVE  f[u].fore <=> u = g
    <3>1. f[u] = m.threads[u] /\ u # NoThread BY <1>1, <1>2
    <3>2. m.threads[u].fore <=> u = m.fg BY <2>1
    <3>3. u = m.fg <=> u = g BY <3>1
    <3> QED BY <3>1, <3>2, <3>3, Zenon
  <2> HIDE DEF f, g
  <2> QED BY <1>1, <2>2, <2>3 DEF ForegroundAgrees
<1> HIDE DEF f, g
<1>5. IsManager([threads |-> f, fg |-> g])
  <2>1. D \ {t} \in SUBSET (Nat \ {NoThread}) BY <1>2
  <2> QED BY <1>1, <1>2, <2>1, ManagerParts
<1>6. \A x : x \in Messages(RemoveThread(m, t)) <=>
                \E u \in D \ {t} : x \in m.threads[u].log
  <2>1. DOMAIN f = D \ {t} /\ \A u \in D \ {t} : f[u].log = m.threads[u].log
    BY <1>1
  <2> HIDE DEF D
  <2> QED BY <2>1, <1>3, MessagesOf
<1> QED BY <1>3, <1>4, <1>5, <1>6 DEF Good, Messages

\* What an operation that only changes the foreground thread does.
LEMMA ForegroundThreadChanged ==
    ASSUME NEW m, Good(m), HasForeground(m), NEW th \in Threads, th.fore
    PROVE  LET n == [m EXCEPT !.threads[m.fg] = th] IN
           /\ Good(n)
           /\ \A x : x \in Messages(n) <=>
                \/ x \in th.log
                \/ \E u \in DOMAIN m.threads \ {m.fg} : x \in m.threads[u].log
<1> DEFINE D == DOMAIN m.threads
           f == [m.threads EXCEPT ![m.fg] = th]
           n == [m EXCEPT !.threads[m.fg] = th]
<1>1. /\ DOMAIN f = D /\ D \subseteq Nat \ {NoThread} /\ f = [u \in D |-> f[u]]
      /\ f[m.fg] = th /\ m.fg \in D /\ m.fg \in Nat
      /\ \A u \in D : u # m.fg => f[u] = m.threads[u]
      /\ \A u \in D : f[u] \in Threads /\ (f[u].fore <=> u = m.fg)
  BY DEF Good, IsManager, HasForeground, ForegroundAgrees
<1>2. n = [threads |-> f, fg |-> m.fg]
  BY DEF Good, IsManager
<1> HIDE DEF f, n
<1>3. IsManager([threads |-> f, fg |-> m.fg])
  BY <1>1, ManagerParts
<1>4. Good(n)
  BY <1>1, <1>2, <1>3 DEF Good, ForegroundAgrees
<1>5. \A x : x \in Messages(n) <=> \E u \in D : x \in f[u].log
  BY <1>1, <1>2, InMessages
<1>6. \A x : x \in Messages(n) <=>
         x \in th.log \/ \E u \in D \ {m.fg} : x \in m.threads[u].log
  <2> HIDE DEF D
  <2> QED BY <1>1, <1>5
<1> QED BY <1>4, <1>6 DEF n

\* add_message to the foreground thread adds one message.
LEMMA AddMessageGood ==
    ASSUME NEW m, Good(m), HasForeground(m), NEW k \in Nat
    PROVE  /\ Good(AddMessage(m, k))
           /\ Messages(AddMessage(m, k)) = Messages(m) \cup {k}
<1> DEFINE old == m.threads[m.fg]
           th == [old EXCEPT !.log = @ \cup {k}]
<1>1. old \in Threads /\ old.fore
  BY DEF Good, IsManager, HasForeground, ForegroundAgrees
<1>2. th \in Threads /\ th.fore /\ th.log = old.log \cup {k}
  <2> HIDE DEF old
  <2> QED BY <1>1 DEF Threads
<1>3. AddMessage(m, k) = [m EXCEPT !.threads[m.fg] = th]
  BY DEF AddMessage, Good, IsManager, HasForeground
<1> HIDE DEF th
<1>4. /\ Good(AddMessage(m, k))
      /\ \A x : x \in Messages(AddMessage(m, k)) <=>
           x \in th.log \/ \E u \in DOMAIN m.threads \ {m.fg} : x \in m.threads[u].log
  BY <1>2, <1>3, ForegroundThreadChanged
<1> QED BY <1>2, <1>4 DEF Messages, HasForeground

\* A compaction of the foreground thread drops messages and adds none.
LEMMA CompactGood ==
    ASSUME NEW m, Good(m), HasForeground(m), NEW keep
    PROVE  /\ Good(Compact(m, keep))
           /\ Messages(Compact(m, keep)) \subseteq Messages(m)
           /\ DOMAIN Compact(m, keep).threads = DOMAIN m.threads
<1> DEFINE old == m.threads[m.fg]
           th == [old EXCEPT !.log = Recent(@, keep), !.sum = TRUE]
<1>1. old \in Threads /\ old.fore
  BY DEF Good, IsManager, HasForeground, ForegroundAgrees
<1>2. th \in Threads /\ th.fore /\ th.log \subseteq old.log
  <2>1. Recent(old.log, keep) \subseteq old.log BY DEF Recent
  <2> HIDE DEF old
  <2> QED BY <1>1, <2>1 DEF Threads
<1>3. Compact(m, keep) = [m EXCEPT !.threads[m.fg] = th]
  <2> DEFINE one == [m.threads EXCEPT ![m.fg].log = Recent(@, keep)]
  <2>1. one[m.fg] = [old EXCEPT !.log = Recent(@, keep)]
    BY DEF HasForeground
  <2>2. [one EXCEPT ![m.fg].sum = TRUE] = [m.threads EXCEPT ![m.fg] = th]
    BY DEF HasForeground
  <2> QED BY <2>2 DEF Compact
<1> HIDE DEF th
<1>4. /\ Good(Compact(m, keep))
      /\ \A x : x \in Messages(Compact(m, keep)) <=>
           x \in th.log \/ \E u \in DOMAIN m.threads \ {m.fg} : x \in m.threads[u].log
  BY <1>2, <1>3, ForegroundThreadChanged
<1>5. DOMAIN Compact(m, keep).threads = DOMAIN m.threads
  BY <1>3 DEF Good, IsManager
<1> QED BY <1>2, <1>4, <1>5 DEF Messages, HasForeground

\* Threads may move to another project with their messages.
LEMMA ReassignGood ==
    ASSUME NEW m, Good(m), NEW from, NEW to \in Nat
    PROVE  /\ Good(Reassign(m, from, to))
           /\ Messages(Reassign(m, from, to)) = Messages(m)
<1> DEFINE D == DOMAIN m.threads
           f == Reassign(m, from, to).threads
<1>1. /\ DOMAIN f = D /\ D \subseteq Nat \ {NoThread} /\ f = [u \in D |-> f[u]]
      /\ \A u \in D : /\ f[u] \in Threads /\ f[u].log = m.threads[u].log
                      /\ f[u].fore <=> m.threads[u].fore
  BY DEF Good, IsManager, Reassign, Threads
<1>2. Reassign(m, from, to) = [threads |-> f, fg |-> m.fg] /\ m.fg \in Nat
  BY DEF Reassign, Good, IsManager
<1> HIDE DEF f
<1>3. IsManager([threads |-> f, fg |-> m.fg])
  BY <1>1, <1>2, ManagerParts
<1>4. ForegroundAgrees([threads |-> f, fg |-> m.fg])
  BY <1>1 DEF Good, ForegroundAgrees
<1>5. Messages([threads |-> f, fg |-> m.fg]) = Messages(m)
  <2>1. \A x : x \in Messages([threads |-> f, fg |-> m.fg]) <=>
                 \E u \in D : x \in m.threads[u].log
    <3>1. DOMAIN f = D /\ \A u \in D : f[u].log = m.threads[u].log BY <1>1
    <3> HIDE DEF D
    <3> QED BY <3>1, MessagesOf
  <2> QED BY <2>1 DEF Messages
<1> QED BY <1>2, <1>3, <1>4, <1>5 DEF Good

-----------------------------------------------------------------------------
(* Registries. *)

\* A finite set of numbers that is not empty has a greatest one.
LEMMA Greatest ==
    ASSUME NEW S \in SUBSET Nat, IsFiniteSet(S), S # {}
    PROVE  \E n \in S : \A p \in S : p <= n
<1> DEFINE Above(n) == {p \in S : p > n}
           T == {Above(n) : n \in S}
           R == StrictSubsetOrdering(S)
<1>1. IsWellFoundedOn(R, FiniteSubsetsOf(S))
  BY FS_StrictSubsetOrderingWellFounded
<1>2. T \subseteq SUBSET S /\ T # {} OBVIOUS
<1>3. T \subseteq FiniteSubsetsOf(S)
  <2> HIDE DEF T
  <2> QED BY <1>2, FS_FiniteSubsetsOfFinite
<1>4. PICK x \in T : \A y \in T : ~ (<<y, x>> \in R)
  <2> HIDE DEF R, T
  <2> QED BY <1>1, <1>2, <1>3, WFMin
<1>5. PICK n \in S : x = Above(n) OBVIOUS
<1>6. ASSUME NEW p \in S, p > n PROVE FALSE
  <2>1. \A q \in S : q > p => q > n BY <1>6
  <2>2. Above(p) \subseteq x BY <1>5, <2>1, Zenon
  <2>3. p \in x BY <1>5, <1>6, Zenon
  <2>4. p \notin Above(p) OBVIOUS
  <2>5. x \subseteq S /\ Above(p) \subseteq S BY <1>5
  <2>6. <<Above(p), x>> \in R
    BY <2>2, <2>3, <2>4, <2>5 DEF StrictSubsetOrdering
  <2>7. Above(p) \in T OBVIOUS
  <2> QED BY <2>6, <2>7, <1>4, Zenon
<1> QED BY <1>6

\* A registry that was loaded mints no id it knows and none below the next_id
\* of the file.
LEMMA LoadRegistryOK ==
    ASSUME NEW s \in Registries
    PROVE  LET r == EnsureDefault(LoadRegistry(s)) IN
           /\ RegistryOK(r)
           /\ s.ids \subseteq r.ids
           /\ s.next <= r.next
<1> DEFINE S == s.ids \cup {DefaultProject}
           top == CHOOSE n \in S : \A p \in S : p <= n
           l == LoadRegistry(s)
           r == EnsureDefault(l)
<1>1. S \in SUBSET Nat /\ S # {} /\ IsFiniteSet(S)
  <2>1. IsFiniteSet(s.ids) /\ s.ids \in SUBSET Nat /\ DefaultProject \in Nat
    BY DEF Registries, DefaultProject
  <2> QED BY <2>1, FS_AddElement
<1>2. top \in S /\ \A p \in S : p <= top
  <2> HIDE DEF S
  <2> QED BY <1>1, Greatest
<1>3. s.next \in Nat /\ s.active \in Nat
  BY DEF Registries
<1>4. l = [ids    |-> s.ids,
           active |-> IF s.active \in s.ids THEN s.active ELSE DefaultProject,
           next   |-> IF s.next > top + 1 THEN s.next ELSE top + 1]
  BY DEF LoadRegistry
<1> HIDE DEF top
<1>5. /\ r = [ids |-> S, active |-> l.active, next |-> l.next]
      /\ r.next \in Nat /\ r.next >= top + 1 /\ r.next >= s.next
      /\ r.active \in S
  BY <1>1, <1>2, <1>3, <1>4 DEF EnsureDefault
<1> HIDE DEF r
<1>6. r \in Registries
  BY <1>1, <1>5 DEF Registries
<1>7. \A p \in S : p < r.next
  BY <1>1, <1>2, <1>5
<1> QED BY <1>3, <1>5, <1>6, <1>7 DEF RegistryOK, r

\* The same for a registry started afresh.
LEMMA NewRegistryOK ==
    /\ NewRegistry \in Registries
    /\ RegistryOK(EnsureDefault(NewRegistry))
<1>1. IsFiniteSet({}) /\ IsFiniteSet({DefaultProject})
  BY FS_EmptySet, FS_Singleton
<1> QED BY <1>1 DEF NewRegistry, EnsureDefault, RegistryOK, Registries, DefaultProject

RegistryParts(r) ==
    /\ r \in [ids : SUBSET Nat, active : Nat, next : Nat]
    /\ IsFiniteSet(r.ids)
    /\ DefaultProject \in r.ids
    /\ r.active \in r.ids
    /\ \A p \in r.ids : p < r.next

\* RegistryOK, taken apart.
LEMMA RegistryHasParts ==
    ASSUME NEW r
    PROVE  RegistryOK(r) <=> RegistryParts(r)
BY DEF RegistryOK, RegistryParts, Registries

\* create: the id is above all others.
LEMMA CreateProjectOK ==
    ASSUME NEW r, RegistryOK(r)
    PROVE  /\ RegistryOK(CreateProject(r))
           /\ r.next \in CreateProject(r).ids
           /\ CreateProject(r).next = r.next + 1
<1>1. RegistryParts(r)
  BY RegistryHasParts
<1>2. IsFiniteSet(r.ids \cup {r.next})
  BY <1>1, FS_AddElement DEF RegistryParts
<1>3. /\ CreateProject(r) \in [ids : SUBSET Nat, active : Nat, next : Nat]
      /\ CreateProject(r).ids = r.ids \cup {r.next}
      /\ CreateProject(r).active = r.active
      /\ CreateProject(r).next = r.next + 1
  <2>1. r \in [ids : SUBSET Nat, active : Nat, next : Nat]
    BY <1>1 DEF RegistryParts
  <2>2. r.ids \cup {r.next} \in SUBSET Nat /\ r.next + 1 \in Nat
    BY <2>1
  <2> QED BY <2>1, <2>2 DEF CreateProject
<1>4. RegistryParts(CreateProject(r))
  BY <1>1, <1>2, <1>3 DEF RegistryParts
<1> QED BY <1>1, <1>3, <1>4, RegistryHasParts

\* set_active.
LEMMA SetActiveOK ==
    ASSUME NEW r, RegistryOK(r), NEW p
    PROVE  /\ RegistryOK(SetActive(r, p))
           /\ SetActive(r, p).next = r.next
BY DEF SetActive, RegistryOK, Registries

\* remove: the active project may go, the Default project may not.
LEMMA RemoveProjectOK ==
    ASSUME NEW r, RegistryOK(r), NEW p, p # DefaultProject
    PROVE  /\ RegistryOK(RemoveProject(r, p))
           /\ RemoveProject(r, p).next = r.next
<1>1. RegistryParts(r)
  BY RegistryHasParts
<1>2. IsFiniteSet(r.ids \ {p})
  BY <1>1, FS_Subset DEF RegistryParts
<1>3. /\ RemoveProject(r, p) \in [ids : SUBSET Nat, active : Nat, next : Nat]
      /\ RemoveProject(r, p).ids = r.ids \ {p}
      /\ RemoveProject(r, p).active \in {r.active, DefaultProject} \ {p}
      /\ RemoveProject(r, p).next = r.next
  BY <1>1 DEF RemoveProject, RegistryParts
<1>4. RegistryParts(RemoveProject(r, p))
  BY <1>1, <1>2, <1>3 DEF RegistryParts
<1> QED BY <1>3, <1>4, RegistryHasParts


-----------------------------------------------------------------------------
(* The inductive invariant. *)

\* threads.json is still to be written.
Pending(work) == \E i \in 1..Len(work) : work[i] = "threads"

Writes(c, file) == writing[c] /\ Head(todo[c]) = file

\* Every manager, on disk or in memory, has one foreground.
OneForegroundInv ==
    /\ ForegroundAgrees(tfile)
    /\ \A c \in Conns : ForegroundAgrees(mgr[c])

\* A connection that does not know its projects yet does not write them.
RegistryInv ==
    \A c \in Conns :
        /\ Known(c) => RegistryOK(reg[c])
        /\ phase[c] = "greet" => todo[c] \in {<< >>, <<"threads">>}

FileInv == Messages(tfile) \subseteq saved

\* What overlapping connections, failing writes and reused ids would break.
Alone ==
    /\ \A c, d \in Conns : phase[c] # "closed" /\ phase[d] # "closed" => c = d
    /\ \A c \in Conns : writing[c] => Head(todo[c]) \notin ok

\* The registry on disk, and the one in memory, are past every id used.
IdsInv ==
    /\ \A c \in Conns : Known(c) => \A p \in used : p < reg[c].next
    /\ (\A c \in Conns : ~Writes(c, "projects")) =>
         IF "projects" \in ok THEN \A p \in used : p \in pfile.ids \/ p < pfile.next
         ELSE used = {}

\* What was saved is on disk, and is in memory while a connection is there;
\* what is not saved yet is about to be.
SavedInv ==
    /\ (\A c \in Conns : ~Writes(c, "threads")) =>
         IF "threads" \in ok THEN saved \subseteq Messages(tfile) \cup gone
         ELSE saved = {}
    /\ \A c \in Conns : phase[c] # "closed" => saved \subseteq Messages(mgr[c]) \cup gone
    /\ \A c \in Conns : ~Pending(todo[c]) => Messages(mgr[c]) \subseteq saved

IInv ==
    /\ TypeOK
    /\ OneForegroundInv
    /\ RegistryInv
    /\ FileInv
    /\ calm => Alone /\ IdsInv /\ SavedInv

-----------------------------------------------------------------------------
(* Work that is left. *)

\* The work of a handler that has threads.json to write.
LEMMA WorkWithThreads ==
    ASSUME NEW s \in Seq(Work)
    PROVE  /\ s \o <<"threads">> \in Seq(Work) /\ Pending(s \o <<"threads">>)
           /\ s \o <<"send", "threads">> \in Seq(Work)
           /\ Pending(s \o <<"send", "threads">>)
           /\ <<"send", "threads">> \o s \in Seq(Work)
           /\ Pending(<<"send", "threads">> \o s)
<1>1. <<"threads">> \in Seq(Work) /\ <<"send", "threads">> \in Seq(Work)
  BY DEF Work
<1>2. Pending(s \o <<"threads">>)
  <2>1. /\ Len(s) + 1 \in 1..Len(s \o <<"threads">>)
        /\ (s \o <<"threads">>)[Len(s) + 1] = "threads"
    BY <1>1
  <2> QED BY <2>1 DEF Pending
<1>3. Pending(s \o <<"send", "threads">>)
  <2>1. /\ Len(s) + 2 \in 1..Len(s \o <<"send", "threads">>)
        /\ (s \o <<"send", "threads">>)[Len(s) + 2] = "threads"
    BY <1>1
  <2> QED BY <2>1 DEF Pending
<1>4. Pending(<<"send", "threads">> \o s)
  <2>1. /\ 2 \in 1..Len(<<"send", "threads">> \o s)
        /\ (<<"send", "threads">> \o s)[2] = "threads"
    BY <1>1
  <2> QED BY <2>1 DEF Pending
<1> QED BY <1>1, <1>2, <1>3, <1>4

\* The short lists of work.
LEMMA ShortWork ==
    /\ << >> \in Seq(Work) /\ <<"projects">> \in Seq(Work)
    /\ <<"threads">> \in Seq(Work) /\ Pending(<<"threads">>)
    /\ <<"send", "threads">> \in Seq(Work) /\ Pending(<<"send", "threads">>)
    /\ <<"projects", "projects", "send", "threads">> \in Seq(Work)
    /\ Pending(<<"projects", "projects", "send", "threads">>)
    /\ ~Pending(<< >>)
<1>1. Pending(<<"projects", "projects", "send", "threads">>)
  <2> DEFINE s == <<"projects", "projects", "send", "threads">>
  <2>1. 4 \in 1..Len(s) /\ s[4] = "threads" OBVIOUS
  <2> QED BY <2>1 DEF Pending
<1>2. Pending(<<"send", "threads">>)
  <2> DEFINE s == <<"send", "threads">>
  <2>1. 2 \in 1..Len(s) /\ s[2] = "threads" OBVIOUS
  <2> QED BY <2>1 DEF Pending
<1>3. Pending(<<"threads">>) /\ ~Pending(<< >>)
  BY DEF Pending
<1>4. /\ << >> \in Seq(Work) /\ <<"projects">> \in Seq(Work)
      /\ <<"threads">> \in Seq(Work) /\ <<"send", "threads">> \in Seq(Work)
      /\ <<"projects", "projects", "send", "threads">> \in Seq(Work)
  BY DEF Work
<1> QED BY <1>1, <1>2, <1>3, <1>4

\* A first step that does not write threads.json leaves that write to be done.
LEMMA PendingTail ==
    ASSUME NEW s \in Seq(Work), s # << >>, Head(s) # "threads", ~Pending(Tail(s))
    PROVE  ~Pending(s)
<1>1. SUFFICES ASSUME NEW i \in 1..Len(s), s[i] = "threads" PROVE FALSE
  BY DEF Pending
<1>2. i # 1
  BY <1>1
<1>3. i - 1 \in 1..Len(Tail(s)) /\ Tail(s)[i - 1] = s[i]
  BY <1>2
<1> QED BY <1>1, <1>3 DEF Pending

-----------------------------------------------------------------------------
(* One lemma for every handler: what it must hand to Become. *)

Phases == {"closed", "greet", "open", "chat", "closing"}

\* What Become changes, and what it leaves alone.
LEMMA BecomeEffect ==
    ASSUME IInv, NEW c \in Conns, NEW m, NEW r, NEW work, Become(c, m, r, work)
    PROVE  /\ mgr' = [d \in Conns |-> mgr'[d]]
           /\ mgr'[c] = m /\ \A d \in Conns \ {c} : mgr'[d] = mgr[d]
           /\ reg' \in [Conns -> Registries \cup {r}]
           /\ reg'[c] = r /\ \A d \in Conns \ {c} : reg'[d] = reg[d]
           /\ todo' \in [Conns -> Seq(Work) \cup {work}]
           /\ todo'[c] = work /\ \A d \in Conns \ {c} : todo'[d] = todo[d]
           /\ tfile' = tfile /\ pfile' = pfile /\ ok' = ok /\ saved' = saved
           /\ used' = used /\ writing' = writing /\ faults' = faults
BY DEF Become, files, IInv, TypeOK, WorkOK

\* A handler that is given well-formed values hands on well-formed values.
LEMMA BecomeStep ==
    ASSUME IInv, NEW c \in Conns, ~writing[c],
           NEW m, NEW r, NEW work, NEW ph \in Phases,
           Become(c, m, r, work),
           phase' = [phase EXCEPT ![c] = ph],
           Good(m), r \in Registries, work \in Seq(Work),
           ph = "closed" => work = << >>,
           counter' \in Nat \ {0}, msgs' \in Nat, gone' \subseteq Nat, calm' \in BOOLEAN
    PROVE  TypeOK' /\ OneForegroundInv' /\ FileInv'
<1>1. /\ mgr' = [d \in Conns |-> mgr'[d]]
      /\ mgr'[c] = m /\ \A d \in Conns \ {c} : mgr'[d] = mgr[d]
      /\ reg' \in [Conns -> Registries]
      /\ todo' \in [Conns -> Seq(Work)]
      /\ todo'[c] = work /\ \A d \in Conns \ {c} : todo'[d] = todo[d]
      /\ tfile' = tfile /\ pfile' = pfile /\ ok' = ok /\ saved' = saved
      /\ used' = used /\ writing' = writing /\ faults' = faults
  BY BecomeEffect
<1>2. phase'[c] = ph /\ \A d \in Conns \ {c} : phase'[d] = phase[d]
  BY DEF IInv, TypeOK
<1>3. TypeOK'
  <2>1. phase' \in [Conns -> {"closed", "greet", "open", "chat", "closing"}]
    BY DEF IInv, TypeOK, Phases
  <2>2. \A d \in Conns : IsManager(mgr'[d])
    BY <1>1 DEF IInv, TypeOK, Good
  <2>3. WorkOK'
    <3>1. writing' \in [Conns -> BOOLEAN]
      BY <1>1 DEF IInv, TypeOK, WorkOK
    <3>2. ASSUME NEW d \in Conns
          PROVE  /\ writing'[d] => todo'[d] # << >> /\ Head(todo'[d]) # "send"
                 /\ phase'[d] = "closed" => todo'[d] = << >>
      BY <1>1, <1>2 DEF IInv, TypeOK, WorkOK
    <3> QED BY <1>1, <3>1, <3>2 DEF WorkOK
  <2>4. /\ IsManager(tfile') /\ pfile' \in Registries
        /\ ok' \subseteq {"threads", "projects"} /\ faults' \in Nat
        /\ saved' \subseteq Nat /\ used' \subseteq Nat
    BY <1>1 DEF IInv, TypeOK
  <2> QED BY <1>1, <2>1, <2>2, <2>3, <2>4 DEF TypeOK
<1>4. OneForegroundInv'
  BY <1>1 DEF IInv, OneForegroundInv, Good
<1>5. FileInv'
  BY <1>1 DEF IInv, FileInv
<1> QED BY <1>3, <1>4, <1>5

\* A handler keeps the invariant if its manager and its registry are well
\* formed, its registry has no id to mint twice, and it either writes
\* threads.json or adds no message.
LEMMA HandlerStep ==
    ASSUME IInv, NEW c \in Conns, phase[c] # "closed", todo[c] = << >>,
           NEW m, NEW r, NEW work, NEW ph \in {"open", "chat", "closing"},
           Become(c, m, r, work),
           phase' = [phase EXCEPT ![c] = ph],
           Good(m), RegistryOK(r), work \in Seq(Work),
           counter' \in Nat \ {0}, msgs' \in Nat,
           gone \subseteq gone', gone' \subseteq Nat, calm' \in BOOLEAN,
           calm' => /\ calm
                    /\ \A p \in used : p < r.next
                    /\ Messages(mgr[c]) \subseteq Messages(m) \cup gone'
                    /\ Pending(work) \/ Messages(m) \subseteq Messages(mgr[c])
    PROVE  IInv'
<1>1. /\ mgr'[c] = m /\ \A d \in Conns \ {c} : mgr'[d] = mgr[d]
      /\ reg'[c] = r /\ \A d \in Conns \ {c} : reg'[d] = reg[d]
      /\ todo'[c] = work /\ \A d \in Conns \ {c} : todo'[d] = todo[d]
      /\ tfile' = tfile /\ pfile' = pfile /\ ok' = ok /\ saved' = saved
      /\ used' = used /\ writing' = writing
  BY BecomeEffect
<1>2. /\ phase'[c] = ph /\ \A d \in Conns \ {c} : phase'[d] = phase[d]
      /\ ~writing[c]
  BY DEF IInv, TypeOK, WorkOK
<1>3. TypeOK' /\ OneForegroundInv' /\ FileInv'
  BY <1>2, BecomeStep DEF RegistryOK, Phases
<1>4. RegistryInv'
  BY <1>1, <1>2 DEF IInv, RegistryInv, Known
<1>5. ASSUME calm' PROVE Alone' /\ IdsInv' /\ SavedInv'
  <2>1. Alone /\ IdsInv /\ SavedInv
    BY <1>5 DEF IInv
  <2>2. Alone'
    BY <1>1, <1>2, <2>1 DEF Alone
  <2>3. \A d \in Conns, f \in {"projects", "threads"} : Writes(d, f)' <=> Writes(d, f)
    BY <1>1, <1>2 DEF Writes
  <2>4. IdsInv'
    <3>1. \A d \in Conns : Known(d)' => \A p \in used' : p < reg'[d].next
      BY <1>1, <1>2, <1>5, <2>1 DEF IdsInv, Known
    <3>2. (\A d \in Conns : ~Writes(d, "projects")') <=> \A d \in Conns : ~Writes(d, "projects")
      BY <2>3
    <3> QED BY <1>1, <2>1, <3>1, <3>2 DEF IdsInv
  <2>5. SavedInv'
    <3>1. (\A d \in Conns : ~Writes(d, "threads")') <=> \A d \in Conns : ~Writes(d, "threads")
      BY <2>3
    <3>2. (\A d \in Conns : ~Writes(d, "threads")') =>
             IF "threads" \in ok' THEN saved' \subseteq Messages(tfile') \cup gone'
             ELSE saved' = {}
      BY <1>1, <2>1, <3>1 DEF SavedInv
    <3>3. ASSUME NEW d \in Conns, phase'[d] # "closed"
          PROVE  saved' \subseteq Messages(mgr'[d]) \cup gone'
      <4>1. phase[d] # "closed"
        BY <1>2, <3>3
      <4>2. saved \subseteq Messages(mgr[d]) \cup gone
        BY <2>1, <4>1 DEF SavedInv
      <4>3. Messages(mgr[d]) \subseteq Messages(mgr'[d]) \cup gone'
        BY <1>1, <1>2, <1>5
      <4> QED BY <1>1, <4>2, <4>3
    <3>4. ASSUME NEW d \in Conns, ~Pending(todo'[d])
          PROVE  Messages(mgr'[d]) \subseteq saved'
      <4>1. CASE d = c
        <5>1. Messages(m) \subseteq Messages(mgr[c])
          BY <1>1, <1>2, <1>5, <3>4, <4>1
        <5>2. Messages(mgr[c]) \subseteq saved
          BY <2>1, ShortWork DEF SavedInv
        <5> QED BY <1>1, <1>2, <4>1, <5>1, <5>2
      <4>2. CASE d # c
        BY <1>1, <1>2, <2>1, <3>4, <4>2 DEF SavedInv
      <4> QED BY <4>1, <4>2
    <3> QED BY <3>2, <3>3, <3>4 DEF SavedInv
  <2> QED BY <2>2, <2>4, <2>5
<1> QED BY <1>3, <1>4, <1>5 DEF IInv

-----------------------------------------------------------------------------
(* The handlers of an open connection. *)

\* What the invariant says of a connection that runs a handler.
LEMMA AtHandler ==
    ASSUME IInv, NEW c \in Conns, phase[c] \in {"open", "chat"}
    PROVE  /\ Good(mgr[c]) /\ RegistryOK(reg[c]) /\ phase[c] # "closed"
           /\ calm => \A p \in used : p < reg[c].next
           /\ phase = [phase EXCEPT ![c] = phase[c]]
           /\ counter \in Nat \ {0} /\ msgs \in Nat /\ calm \in BOOLEAN
           /\ gone \subseteq Nat /\ Messages(mgr[c]) \subseteq Nat
<1>1. Good(mgr[c]) /\ Messages(mgr[c]) \subseteq Nat
  BY MessagesAreNumbers DEF IInv, TypeOK, OneForegroundInv, Good
<1>2. Known(c)
  BY DEF Known
<1>3. RegistryOK(reg[c]) /\ (calm => \A p \in used : p < reg[c].next)
  BY <1>2 DEF IInv, RegistryInv, IdsInv
<1> QED BY <1>1, <1>3 DEF IInv, TypeOK

\* The work of activate_project.
LEMMA ActivateWork ==
    ASSUME NEW c, NEW p
    PROVE  Activate(c, p) \in Seq(Work)
BY ShortWork DEF Activate

\* ThreadCreate keeps the invariant.
LEMMA ThreadCreateStep ==
    ASSUME IInv, NEW c \in Conns, NEW p \in ProjectIds, ThreadCreate(c, p)
    PROVE  IInv'
<1> DEFINE pid == IF p = 0 THEN reg[c].active ELSE p
           m == CreateChat(mgr[c], counter, pid)
           r == SetActive(reg[c], pid)
           s == IF pid = reg[c].active THEN << >> ELSE Activate(c, pid)
           work == s \o <<"send", "threads">>
<1>1. /\ phase[c] = "open" /\ todo[c] = << >>
      /\ p \in reg[c].ids \cup {0}
      /\ Become(c, m, r, work)
      /\ counter' = counter + 1
      /\ calm' = (calm /\ counter \notin DOMAIN mgr[c].threads)
      /\ phase' = phase /\ msgs' = msgs /\ gone' = gone
  BY DEF ThreadCreate, Idle
<1>2. /\ Good(mgr[c]) /\ RegistryOK(reg[c])
      /\ calm => \A q \in used : q < reg[c].next
      /\ phase' = [phase EXCEPT ![c] = "open"]
      /\ counter \in Nat \ {0} /\ msgs \in Nat /\ calm \in BOOLEAN /\ gone \subseteq Nat
  BY <1>1, AtHandler
<1>3. pid \in Nat
  BY <1>1, <1>2 DEF RegistryOK, Registries
<1> HIDE DEF pid
<1>4. /\ Good(m)
      /\ counter \notin DOMAIN mgr[c].threads => Messages(m) = Messages(mgr[c])
  BY <1>2, <1>3, CreateChatGood DEF NoThread
<1>5. RegistryOK(r) /\ r.next = reg[c].next
  BY <1>2, SetActiveOK
<1>6. work \in Seq(Work) /\ Pending(work)
  <2>1. s \in Seq(Work) BY ShortWork, ActivateWork
  <2> QED BY <2>1, WorkWithThreads
<1>7. calm' \in BOOLEAN /\ counter' \in Nat \ {0}
  BY <1>1, <1>2
<1> HIDE DEF m, r, work
<1> QED BY <1>1, <1>2, <1>4, <1>5, <1>6, <1>7, HandlerStep

\* Putting the current thread in the background keeps the invariant.
LEMMA ThreadBackgroundStep ==
    ASSUME IInv, NEW c \in Conns, ThreadBackground(c)
    PROVE  IInv'
<1> DEFINE m == ClearForeground(mgr[c])
           work == <<"send", "threads">>
<1>1. /\ phase[c] = "open" /\ todo[c] = << >>
      /\ Become(c, m, reg[c], work)
      /\ counter' = counter /\ calm' = calm
      /\ phase' = phase /\ msgs' = msgs /\ gone' = gone
  BY DEF ThreadBackground, Idle
<1>2. Good(m) /\ Messages(m) = Messages(mgr[c])
  BY <1>1, AtHandler, ClearForegroundGood
<1>3. work \in Seq(Work) /\ Pending(work)
  BY ShortWork
<1> HIDE DEF m, work
<1> QED BY <1>1, <1>2, <1>3, AtHandler, HandlerStep

\* ThreadSwitch keeps the invariant, whether it compacts the thread it leaves
\* or not, and whether the thread it goes to is known or not.
LEMMA ThreadSwitchStep ==
    ASSUME IInv, NEW c \in Conns, NEW t, NEW compact \in BOOLEAN,
           ThreadSwitch(c, t, compact)
    PROVE  IInv'
<1> DEFINE m == IF compact THEN Compact(mgr[c], KeepRecent) ELSE mgr[c]
           p == m.threads[t].proj
           s == IF p = reg[c].active THEN << >> ELSE Activate(c, p)
           work == <<"send", "threads">> \o s
<1>1. /\ phase[c] = "open" /\ todo[c] = << >>
      /\ compact => HasForeground(mgr[c])
      /\ IF t \in DOMAIN m.threads
           THEN Become(c, SwitchForeground(m, t), SetActive(reg[c], p), work)
           ELSE Become(c, m, reg[c], << >>)
      /\ gone' = gone \cup (Messages(mgr[c]) \ Messages(m))
      /\ counter' = counter /\ calm' = calm /\ phase' = phase /\ msgs' = msgs
  BY DEF ThreadSwitch, Idle, MayCompact
<1>2. Good(m) /\ Messages(m) \subseteq Messages(mgr[c])
  BY <1>1, AtHandler, CompactGood
<1>3. gone \subseteq gone' /\ gone' \subseteq Nat
  BY <1>1, AtHandler
<1>4. Messages(mgr[c]) \subseteq Messages(m) \cup gone'
  BY <1>1
<1> HIDE DEF m
<1>5. CASE t \in DOMAIN m.threads
  <2> DEFINE n == SwitchForeground(m, t)
             r == SetActive(reg[c], p)
  <2>1. Good(n) /\ Messages(n) = Messages(m)
    BY <1>2, <1>5, SwitchForegroundGood
  <2>2. RegistryOK(r) /\ r.next = reg[c].next
    BY <1>1, AtHandler, SetActiveOK
  <2>3. work \in Seq(Work) /\ Pending(work)
    <3>1. s \in Seq(Work) BY ShortWork, ActivateWork
    <3> HIDE DEF s
    <3> QED BY <3>1, WorkWithThreads
  <2>4. Become(c, n, r, work)
    BY <1>1, <1>5
  <2> HIDE DEF n, r, work
  <2> QED BY <1>1, <1>2, <1>3, <1>4, <2>1, <2>2, <2>3, <2>4, AtHandler, HandlerStep
<1>6. CASE t \notin DOMAIN m.threads
  <2>1. Become(c, m, reg[c], << >>)
    BY <1>1, <1>6
  <2> QED BY <1>1, <1>2, <1>3, <1>4, <2>1, ShortWork, AtHandler, HandlerStep
<1> QED BY <1>5, <1>6

\* ThreadClose keeps the invariant.
LEMMA ThreadCloseStep ==
    ASSUME IInv, NEW c \in Conns, NEW t, ThreadClose(c, t)
    PROVE  IInv'
<1> DEFINE work == <<"send", "threads">>
<1>1. /\ phase[c] = "open" /\ todo[c] = << >>
      /\ IF t \in DOMAIN mgr[c].threads
           THEN /\ Become(c, RemoveThread(mgr[c], t), reg[c], work)
                /\ gone' = gone \cup mgr[c].threads[t].log
           ELSE Become(c, mgr[c], reg[c], work) /\ gone' = gone
      /\ counter' = counter /\ calm' = calm /\ phase' = phase /\ msgs' = msgs
  BY DEF ThreadClose, Idle
<1>2. work \in Seq(Work) /\ Pending(work)
  BY ShortWork
<1> HIDE DEF work
<1>3. CASE t \in DOMAIN mgr[c].threads
  <2> DEFINE m == RemoveThread(mgr[c], t)
  <2>1. /\ Good(m)
        /\ Messages(mgr[c]) \subseteq Messages(m) \cup mgr[c].threads[t].log
    BY <1>1, <1>3, AtHandler, RemoveThreadGood
  <2>2. gone \subseteq gone' /\ gone' \subseteq Nat
    <3>1. mgr[c].threads[t].log \subseteq Messages(mgr[c]) BY <1>3 DEF Messages
    <3> QED BY <1>1, <1>3, <3>1, AtHandler
  <2> HIDE DEF m
  <2> QED BY <1>1, <1>2, <1>3, <2>1, <2>2, AtHandler, HandlerStep DEF m
<1>4. CASE t \notin DOMAIN mgr[c].threads
  BY <1>1, <1>2, <1>4, AtHandler, HandlerStep
<1> QED BY <1>3, <1>4

\* ThreadRename keeps the invariant.
LEMMA ThreadRenameStep ==
    ASSUME IInv, NEW c \in Conns, NEW t, ThreadRename(c, t)
    PROVE  IInv'
<1>1. /\ phase[c] = "open" /\ todo[c] = << >>
      /\ Become(c, mgr[c], reg[c], <<"send", "threads">>)
      /\ counter' = counter /\ calm' = calm /\ gone' = gone
      /\ phase' = phase /\ msgs' = msgs
  BY DEF ThreadRename, Idle
<1> QED BY <1>1, ShortWork, AtHandler, HandlerStep

\* The user's message: a chat keeps the invariant.
LEMMA ChatStep ==
    ASSUME IInv, NEW c \in Conns, NEW t, Chat(c, t)
    PROVE  IInv'
<1> DEFINE m == IF t # mgr[c].fg THEN SwitchForeground(mgr[c], t) ELSE mgr[c]
           n == AddMessage(m, msgs + 1)
           s == IF t # mgr[c].fg THEN <<"send">> ELSE << >>
           work == s \o <<"threads">>
<1>1. /\ phase[c] = "open" /\ todo[c] = << >>
      /\ t = mgr[c].fg \/ t \in DOMAIN mgr[c].threads
      /\ IF HasForeground(m)
           THEN msgs' = msgs + 1 /\ Become(c, n, reg[c], work)
           ELSE msgs' = msgs /\ Become(c, m, reg[c], << >>)
      /\ phase' = [phase EXCEPT ![c] = "chat"]
      /\ counter' = counter /\ calm' = calm /\ gone' = gone
  BY DEF Chat, Idle
<1>2. Good(m) /\ Messages(m) = Messages(mgr[c])
  BY <1>1, AtHandler, SwitchForegroundGood
<1>3. msgs' \in Nat
  BY <1>1, AtHandler
<1> HIDE DEF m
<1>4. CASE HasForeground(m)
  <2>1. Good(n) /\ Messages(n) = Messages(m) \cup {msgs + 1}
    BY <1>1, <1>2, <1>4, AtHandler, AddMessageGood
  <2>2. work \in Seq(Work) /\ Pending(work)
    <3>1. <<"send">> \in Seq(Work) /\ << >> \in Seq(Work) BY DEF Work
    <3>2. s \in Seq(Work) BY <3>1
    <3> HIDE DEF s
    <3> QED BY <3>2, WorkWithThreads
  <2>3. Become(c, n, reg[c], work)
    BY <1>1, <1>4
  <2> HIDE DEF n, work
  <2> QED BY <1>1, <1>2, <1>3, <2>1, <2>2, <2>3, AtHandler, HandlerStep
<1>5. CASE ~HasForeground(m)
  <2>1. Become(c, m, reg[c], << >>)
    BY <1>1, <1>5
  <2> QED BY <1>1, <1>2, <1>3, <2>1, ShortWork, AtHandler, HandlerStep
<1> QED BY <1>4, <1>5

\* A round of the model keeps the invariant.
LEMMA ModelMessageStep ==
    ASSUME IInv, NEW c \in Conns, NEW last \in BOOLEAN, ModelMessage(c, last)
    PROVE  IInv'
<1> DEFINE ph == IF last THEN "open" ELSE "chat"
           n == AddMessage(mgr[c], msgs + 1)
<1>1. /\ phase[c] = "chat" /\ todo[c] = << >>
      /\ IF HasForeground(mgr[c])
           THEN msgs' = msgs + 1 /\ Become(c, n, reg[c], <<"threads">>)
           ELSE msgs' = msgs /\ Become(c, mgr[c], reg[c], <<"threads">>)
      /\ phase' = [phase EXCEPT ![c] = ph] /\ ph \in {"open", "chat", "closing"}
      /\ counter' = counter /\ calm' = calm /\ gone' = gone
  BY DEF ModelMessage
<1>2. msgs' \in Nat
  BY <1>1, AtHandler
<1> HIDE DEF ph
<1>3. CASE HasForeground(mgr[c])
  <2>1. Good(n) /\ Messages(n) = Messages(mgr[c]) \cup {msgs + 1}
    BY <1>1, <1>3, AtHandler, AddMessageGood
  <2>2. Become(c, n, reg[c], <<"threads">>)
    BY <1>1, <1>3
  <2> HIDE DEF n
  <2> QED BY <1>1, <1>2, <2>1, <2>2, ShortWork, AtHandler, HandlerStep
<1>4. CASE ~HasForeground(mgr[c])
  <2>1. Become(c, mgr[c], reg[c], <<"threads">>)
    BY <1>1, <1>4
  <2> QED BY <1>1, <1>2, <2>1, ShortWork, AtHandler, HandlerStep
<1> QED BY <1>3, <1>4

\* A compaction during a chat keeps the invariant.
LEMMA ModelCompactsStep ==
    ASSUME IInv, NEW c \in Conns, NEW keep, ModelCompacts(c, keep)
    PROVE  IInv'
<1> DEFINE m == IF HasForeground(mgr[c]) THEN Compact(mgr[c], keep) ELSE mgr[c]
<1>1. /\ phase[c] = "chat" /\ todo[c] = << >>
      /\ Become(c, m, reg[c], <<"threads">>)
      /\ gone' = gone \cup (Messages(mgr[c]) \ Messages(m))
      /\ counter' = counter /\ calm' = calm /\ phase' = phase /\ msgs' = msgs
  BY DEF ModelCompacts
<1>2. Good(m)
  BY <1>1, AtHandler, CompactGood
<1>3. /\ gone \subseteq gone' /\ gone' \subseteq Nat
      /\ Messages(mgr[c]) \subseteq Messages(m) \cup gone'
  BY <1>1, AtHandler
<1> HIDE DEF m
<1> QED BY <1>1, <1>2, <1>3, ShortWork, AtHandler, HandlerStep

\* The end of a chat changes the phase only.
LEMMA ChatEndsStep ==
    ASSUME IInv, NEW c \in Conns, ChatEnds(c)
    PROVE  IInv'
<1>1. /\ phase[c] = "chat" /\ todo[c] = << >>
      /\ phase' = [phase EXCEPT ![c] = "open"]
      /\ UNCHANGED <<counter, files, mgr, reg, todo, writing, msgs, gone, calm, faults>>
  BY DEF ChatEnds
<1>2. Become(c, mgr[c], reg[c], << >>)
  <2>1. mgr' = [mgr EXCEPT ![c] = mgr[c]]
    BY <1>1 DEF IInv, TypeOK
  <2>2. reg' = [reg EXCEPT ![c] = reg[c]] /\ todo' = [todo EXCEPT ![c] = << >>]
    BY <1>1 DEF IInv, TypeOK, WorkOK
  <2> QED BY <1>1, <2>1, <2>2 DEF Become, files
<1> QED BY <1>1, <1>2, ShortWork, AtHandler, HandlerStep

\* ProjectCreate keeps the invariant: next_id only grows.
LEMMA ProjectCreateStep ==
    ASSUME IInv, NEW c \in Conns, ProjectCreate(c)
    PROVE  IInv'
<1> DEFINE r == SetActive(CreateProject(reg[c]), reg[c].next)
<1>1. /\ phase[c] = "open" /\ todo[c] = << >>
      /\ Become(c, mgr[c], r, <<"projects">>)
      /\ counter' = counter /\ calm' = calm /\ gone' = gone
      /\ phase' = phase /\ msgs' = msgs
  BY DEF ProjectCreate, Idle
<1>2. RegistryOK(r) /\ r.next = reg[c].next + 1
  BY <1>1, AtHandler, CreateProjectOK, SetActiveOK
<1>3. calm => \A p \in used : p < r.next
  <2>1. calm => \A p \in used : p < reg[c].next
    BY <1>1, AtHandler
  <2>2. used \subseteq Nat /\ reg[c].next \in Nat
    BY <1>1, AtHandler DEF IInv, TypeOK, RegistryOK, Registries
  <2> HIDE DEF r
  <2> QED BY <1>2, <2>1, <2>2
<1> HIDE DEF r
<1> QED BY <1>1, <1>2, <1>3, ShortWork, AtHandler, HandlerStep

\* ProjectSwitch keeps the invariant.
LEMMA ProjectSwitchStep ==
    ASSUME IInv, NEW c \in Conns, NEW p, ProjectSwitch(c, p)
    PROVE  IInv'
<1> DEFINE r == SetActive(reg[c], p)
<1>1. /\ phase[c] = "open" /\ todo[c] = << >>
      /\ Become(c, mgr[c], r, Activate(c, p))
      /\ counter' = counter /\ calm' = calm /\ gone' = gone
      /\ phase' = phase /\ msgs' = msgs
  BY DEF ProjectSwitch, Idle
<1>2. RegistryOK(r) /\ r.next = reg[c].next
  BY <1>1, AtHandler, SetActiveOK
<1> HIDE DEF r
<1> QED BY <1>1, <1>2, ActivateWork, AtHandler, HandlerStep

\* ProjectRename keeps the invariant.
LEMMA ProjectRenameStep ==
    ASSUME IInv, NEW c \in Conns, NEW p, ProjectRename(c, p)
    PROVE  IInv'
<1>1. /\ phase[c] = "open" /\ todo[c] = << >>
      /\ Become(c, mgr[c], reg[c], <<"projects">>)
      /\ counter' = counter /\ calm' = calm /\ gone' = gone
      /\ phase' = phase /\ msgs' = msgs
  BY DEF ProjectRename, Idle
<1> QED BY <1>1, ShortWork, AtHandler, HandlerStep

\* ProjectDelete keeps the invariant, whether the project may be removed or not.
LEMMA ProjectDeleteStep ==
    ASSUME IInv, NEW c \in Conns, NEW p, ProjectDelete(c, p)
    PROVE  IInv'
<1> DEFINE m == Reassign(mgr[c], p, DefaultProject)
           long == <<"projects", "projects", "send", "threads">>
<1>1. /\ phase[c] = "open" /\ todo[c] = << >>
      /\ IF Removable(reg[c], p)
           THEN Become(c, m, RemoveProject(reg[c], p), long)
           ELSE Become(c, m, reg[c], <<"send", "threads">>)
      /\ counter' = counter /\ calm' = calm /\ gone' = gone
      /\ phase' = phase /\ msgs' = msgs
  BY DEF ProjectDelete, Idle
<1>2. Good(m) /\ Messages(m) = Messages(mgr[c])
  BY <1>1, AtHandler, ReassignGood DEF DefaultProject
<1>3. long \in Seq(Work) /\ Pending(long)
  BY ShortWork
<1> HIDE DEF m, long
<1>4. CASE Removable(reg[c], p)
  <2> DEFINE r == RemoveProject(reg[c], p)
  <2>1. RegistryOK(r) /\ r.next = reg[c].next
    BY <1>1, <1>4, AtHandler, RemoveProjectOK DEF Removable
  <2>2. Become(c, m, r, long)
    BY <1>1, <1>4
  <2> HIDE DEF r
  <2> QED BY <1>1, <1>2, <1>3, <2>1, <2>2, AtHandler, HandlerStep
<1>5. CASE ~Removable(reg[c], p)
  <2>1. Become(c, m, reg[c], <<"send", "threads">>)
    BY <1>1, <1>5
  <2> QED BY <1>1, <1>2, <2>1, ShortWork, AtHandler, HandlerStep
<1> QED BY <1>4, <1>5

-----------------------------------------------------------------------------
(* Connections come and go. *)

\* LoadProjects makes the registry known: it mints no id that was used.
LEMMA LoadProjectsStep ==
    ASSUME IInv, NEW c \in Conns, LoadProjects(c)
    PROVE  IInv'
<1> DEFINE r == EnsureDefault(IF "projects" \in ok THEN LoadRegistry(pfile)
                              ELSE NewRegistry)
<1>1. /\ phase[c] = "greet" /\ todo[c] = << >>
      /\ phase' = [phase EXCEPT ![c] = "open"]
      /\ Become(c, mgr[c], r, <<"projects">>)
      /\ counter' = counter /\ calm' = calm /\ gone' = gone /\ msgs' = msgs
  BY DEF LoadProjects
<1>2. /\ RegistryOK(r)
      /\ "projects" \in ok => pfile.ids \subseteq r.ids /\ pfile.next <= r.next
  BY LoadRegistryOK, NewRegistryOK DEF IInv, TypeOK
<1> HIDE DEF r
<1>3. ASSUME calm PROVE \A p \in used : p < r.next
  <2>1. \A d \in Conns : ~Writes(d, "projects")
    BY <1>1, <1>3 DEF IInv, Alone, TypeOK, WorkOK, Writes
  <2>2. IF "projects" \in ok THEN \A p \in used : p \in pfile.ids \/ p < pfile.next
        ELSE used = {}
    BY <1>3, <2>1 DEF IInv, IdsInv
  <2>3. used \subseteq Nat /\ pfile.next \in Nat /\ r.next \in Nat
    BY <1>2 DEF IInv, TypeOK, RegistryOK, Registries
  <2> QED BY <1>2, <2>2, <2>3 DEF RegistryOK
<1>4. /\ Good(mgr[c]) /\ counter \in Nat \ {0} /\ msgs \in Nat /\ gone \subseteq Nat
      /\ calm \in BOOLEAN
  BY DEF IInv, TypeOK, OneForegroundInv, Good
<1>5. calm => Messages(mgr[c]) \subseteq saved
  BY <1>1, ShortWork DEF IInv, SavedInv
<1> QED BY <1>1, <1>2, <1>3, <1>4, ShortWork, HandlerStep

\* Disconnect keeps the invariant.
LEMMA DisconnectStep ==
    ASSUME IInv, NEW c \in Conns, Disconnect(c)
    PROVE  IInv'
<1>1. /\ phase[c] = "open" /\ todo[c] = << >>
      /\ phase' = [phase EXCEPT ![c] = "closing"]
      /\ Become(c, mgr[c], reg[c], <<"threads">>)
      /\ counter' = counter /\ calm' = calm /\ gone' = gone /\ msgs' = msgs
  BY DEF Disconnect, Idle
<1> QED BY <1>1, ShortWork, AtHandler, HandlerStep

\* A new connection has what threads.json holds, or one new thread.
LEMMA AcceptStep ==
    ASSUME IInv, NEW c \in Conns, Accept(c)
    PROVE  IInv'
<1> DEFINE new == CreateChat(NewManager, counter, DefaultProject)
<1>1. /\ phase[c] = "closed" /\ phase' = [phase EXCEPT ![c] = "greet"]
      /\ calm' = (calm /\ \A d \in Conns \ {c} : phase[d] = "closed")
      /\ msgs' = msgs /\ gone' = gone
      /\ \/ /\ "threads" \in ok /\ counter' = counter
            /\ Become(c, tfile, reg[c], << >>)
         \/ /\ "threads" \notin ok /\ counter' = counter + 1
            /\ Become(c, new, reg[c], <<"threads">>)
  BY DEF Accept
<1>2. PICK m, work :
        /\ Become(c, m, reg[c], work) /\ Good(m) /\ work \in Seq(Work)
        /\ work \in {<< >>, <<"threads">>}
        /\ \/ "threads" \in ok /\ m = tfile
           \/ "threads" \notin ok /\ Messages(m) = {}
  <2>1. Good(tfile)
    BY DEF IInv, TypeOK, OneForegroundInv, Good
  <2>2. Good(new) /\ Messages(new) = {}
    BY NewManagerGood, CreateChatGood DEF IInv, TypeOK, NoThread, DefaultProject
  <2> HIDE DEF new
  <2> QED BY <1>1, <2>1, <2>2, ShortWork
<1>3. /\ ~writing[c] /\ reg[c] \in Registries
      /\ counter' \in Nat \ {0} /\ msgs' \in Nat /\ gone' \subseteq Nat /\ calm' \in BOOLEAN
  BY <1>1 DEF IInv, TypeOK, WorkOK
<1>4. /\ mgr'[c] = m /\ \A d \in Conns \ {c} : mgr'[d] = mgr[d]
      /\ reg'[c] = reg[c] /\ \A d \in Conns \ {c} : reg'[d] = reg[d]
      /\ todo'[c] = work /\ \A d \in Conns \ {c} : todo'[d] = todo[d]
      /\ tfile' = tfile /\ pfile' = pfile /\ ok' = ok /\ saved' = saved
      /\ used' = used /\ writing' = writing
  BY <1>2, BecomeEffect
<1>5. phase'[c] = "greet" /\ \A d \in Conns \ {c} : phase'[d] = phase[d]
  BY <1>1 DEF IInv, TypeOK
<1>6. TypeOK' /\ OneForegroundInv' /\ FileInv'
  BY <1>1, <1>2, <1>3, BecomeStep DEF Phases
<1>7. RegistryInv'
  BY <1>2, <1>4, <1>5 DEF IInv, RegistryInv, Known
<1>8. ASSUME calm' PROVE Alone' /\ IdsInv' /\ SavedInv'
  <2>1. /\ Alone /\ IdsInv /\ SavedInv
        /\ \A d \in Conns : phase[d] = "closed" /\ ~writing[d] /\ todo[d] = << >>
    BY <1>1, <1>8 DEF IInv, TypeOK, WorkOK
  <2>2. Alone'
    BY <1>4, <1>5, <2>1 DEF Alone
  <2>3. \A d \in Conns, f \in {"projects", "threads"} : ~Writes(d, f) /\ ~Writes(d, f)'
    BY <1>4, <2>1 DEF Writes
  <2>4. IdsInv'
    BY <1>4, <1>5, <2>1, <2>3 DEF IdsInv, Known
  <2>5. /\ IF "threads" \in ok THEN saved \subseteq Messages(tfile) \cup gone
           ELSE saved = {}
        /\ Messages(tfile) \subseteq saved
    BY <2>1, <2>3 DEF SavedInv, IInv, FileInv
  <2>6. saved \subseteq Messages(m) \cup gone /\ Messages(m) \subseteq saved
    BY <1>2, <2>5
  <2>7. SavedInv'
    <3>1. \A d \in Conns : Messages(mgr'[d]) \subseteq saved'
      BY <1>4, <2>1, <2>6, ShortWork DEF SavedInv
    <3>2. \A d \in Conns : phase'[d] # "closed" => d = c
      BY <1>5, <2>1
    <3> QED BY <1>1, <1>4, <2>5, <2>6, <3>1, <3>2 DEF SavedInv
  <2> QED BY <2>2, <2>4, <2>7
<1> QED BY <1>6, <1>7, <1>8 DEF IInv

\* A connection that ends, with or without its work done, keeps the invariant:
\* what is on disk is what was saved.
LEMMA EndStep ==
    ASSUME IInv, NEW c \in Conns, ~writing[c], End(c)
    PROVE  IInv'
<1>1. /\ phase' = [phase EXCEPT ![c] = "closed"]
      /\ Become(c, NewManager, NewRegistry, << >>)
      /\ counter' = counter /\ msgs' = msgs /\ gone' = gone /\ calm' = calm
  BY DEF End
<1>2. /\ counter' \in Nat \ {0} /\ msgs' \in Nat /\ gone' \subseteq Nat /\ calm' \in BOOLEAN
  BY <1>1 DEF IInv, TypeOK
<1>3. /\ mgr'[c] = NewManager /\ \A d \in Conns \ {c} : mgr'[d] = mgr[d]
      /\ reg'[c] = NewRegistry /\ \A d \in Conns \ {c} : reg'[d] = reg[d]
      /\ todo'[c] = << >> /\ \A d \in Conns \ {c} : todo'[d] = todo[d]
      /\ tfile' = tfile /\ pfile' = pfile /\ ok' = ok /\ saved' = saved
      /\ used' = used /\ writing' = writing
  BY <1>1, BecomeEffect
<1>4. phase'[c] = "closed" /\ \A d \in Conns \ {c} : phase'[d] = phase[d]
  BY <1>1 DEF IInv, TypeOK
<1>5. TypeOK' /\ OneForegroundInv' /\ FileInv'
  BY <1>1, <1>2, NewManagerGood, NewRegistryOK, ShortWork, BecomeStep DEF Phases
<1>6. RegistryInv'
  BY <1>3, <1>4 DEF IInv, RegistryInv, Known
<1>7. ASSUME calm' PROVE Alone' /\ IdsInv' /\ SavedInv'
  <2>1. Alone /\ IdsInv /\ SavedInv
    BY <1>1, <1>7 DEF IInv
  <2>2. Alone'
    BY <1>3, <1>4, <2>1 DEF Alone
  <2>3. \A d \in Conns, f \in {"projects", "threads"} : Writes(d, f)' <=> Writes(d, f)
    BY <1>3 DEF Writes
  <2>4. IdsInv'
    BY <1>3, <1>4, <2>1, <2>3 DEF IdsInv, Known
  <2>5. SavedInv'
    BY <1>1, <1>3, <1>4, <2>1, <2>3, NewManagerGood DEF SavedInv
  <2> QED BY <2>2, <2>4, <2>5
<1> QED BY <1>5, <1>6, <1>7 DEF IInv

\* The two ways a connection ends.
LEMMA CloseStep ==
    ASSUME IInv, NEW c \in Conns, Close(c) \/ SendFails(c)
    PROVE  IInv'
<1>1. End(c)
  BY DEF Close, SendFails
<1>2. ~writing[c]
  BY DEF Close, SendFails, Open, IInv, TypeOK, WorkOK
<1> QED BY <1>1, <1>2, EndStep

-----------------------------------------------------------------------------
(* Sends, writes and crashes. *)

\* A send leaves a little less work.
LEMMA SendStep ==
    ASSUME IInv, NEW c \in Conns, Send(c)
    PROVE  IInv'
<1>1. /\ todo[c] # << >> /\ Head(todo[c]) = "send"
      /\ todo' = [todo EXCEPT ![c] = Tail(@)]
      /\ UNCHANGED <<counter, files, phase, mgr, reg, writing, msgs, gone, calm, faults>>
  BY DEF Send
<1>2. /\ todo[c] \in Seq(Work) /\ ~writing[c] /\ phase[c] # "closed"
      /\ todo'[c] = Tail(todo[c]) /\ Tail(todo[c]) \in Seq(Work)
      /\ todo' \in [Conns -> Seq(Work)]
      /\ \A d \in Conns \ {c} : todo'[d] = todo[d]
  BY <1>1 DEF IInv, TypeOK, WorkOK
<1>3. TypeOK'
  <2>1. WorkOK'
    BY <1>1, <1>2 DEF IInv, TypeOK, WorkOK
  <2> QED BY <1>1, <2>1 DEF IInv, TypeOK, files
<1>4. OneForegroundInv' /\ RegistryInv' /\ FileInv'
  <2>1. OneForegroundInv' /\ FileInv'
    BY <1>1 DEF IInv, OneForegroundInv, FileInv, files
  <2>2. phase[c] # "greet"
    BY <1>1 DEF IInv, RegistryInv
  <2>3. RegistryInv'
    BY <1>1, <1>2, <2>2 DEF IInv, RegistryInv, Known
  <2> QED BY <2>1, <2>3
<1>5. \A d \in Conns, f \in {"projects", "threads"} : Writes(d, f)' <=> Writes(d, f)
  BY <1>1, <1>2 DEF Writes
<1>6. ASSUME calm' PROVE Alone' /\ IdsInv' /\ SavedInv'
  <2>1. Alone /\ IdsInv /\ SavedInv
    BY <1>1, <1>6 DEF IInv
  <2>2. Alone'
    BY <1>1, <1>2, <2>1 DEF Alone, files
  <2>3. IdsInv'
    BY <1>1, <1>5, <2>1 DEF IdsInv, Known, files
  <2>4. ~Pending(todo'[c]) => ~Pending(todo[c])
    BY <1>1, <1>2, PendingTail
  <2>5. SavedInv'
    BY <1>1, <1>2, <1>5, <2>1, <2>4 DEF SavedInv, files
  <2> QED BY <2>2, <2>3, <2>5
<1> QED BY <1>3, <1>4, <1>6 DEF IInv

\* A truncated file cannot be loaded until it is filled.
LEMMA TruncateStep ==
    ASSUME IInv, NEW c \in Conns, Truncate(c)
    PROVE  IInv'
<1>1. /\ todo[c] # << >> /\ Head(todo[c]) # "send" /\ ~writing[c]
      /\ writing' = [writing EXCEPT ![c] = TRUE]
      /\ ok' = ok \ {Head(todo[c])}
      /\ IF Head(todo[c]) = "threads"
           THEN tfile' = NewManager /\ pfile' = pfile
           ELSE pfile' = NewRegistry /\ tfile' = tfile
      /\ UNCHANGED <<counter, phase, mgr, reg, todo, msgs, saved, gone, used, calm,
                     faults>>
  BY DEF Truncate
<1>2. /\ todo[c] \in Seq(Work) /\ Head(todo[c]) \in {"threads", "projects"}
      /\ writing'[c] /\ \A d \in Conns \ {c} : writing'[d] = writing[d]
      /\ writing' \in [Conns -> BOOLEAN]
      /\ phase[c] # "closed"
  BY <1>1 DEF IInv, TypeOK, WorkOK, Work
<1>3. TypeOK'
  <2>1. WorkOK'
    BY <1>1, <1>2 DEF IInv, TypeOK, WorkOK
  <2>2. IsManager(tfile') /\ pfile' \in Registries
    BY <1>1, NewManagerGood, NewRegistryOK DEF IInv, TypeOK, Good
  <2> QED BY <1>1, <2>1, <2>2 DEF IInv, TypeOK
<1>4. OneForegroundInv' /\ RegistryInv' /\ FileInv'
  BY <1>1, NewManagerGood
     DEF IInv, OneForegroundInv, RegistryInv, FileInv, Known, Good
<1>5. ASSUME calm' PROVE Alone' /\ IdsInv' /\ SavedInv'
  <2>1. Alone /\ IdsInv /\ SavedInv
    BY <1>1, <1>5 DEF IInv
  <2>2. \A d \in Conns \ {c} : ~writing[d] /\ ~writing'[d]
    BY <1>1, <1>2, <2>1 DEF Alone, IInv, TypeOK, WorkOK
  <2>3. Alone'
    BY <1>1, <1>2, <2>1, <2>2 DEF Alone
  <2>4. /\ Head(todo[c]) = "projects" => Writes(c, "projects")'
        /\ Head(todo[c]) = "threads" => Writes(c, "threads")'
    BY <1>1, <1>2 DEF Writes
  <2>5. \A d \in Conns, f \in {"projects", "threads"} : ~Writes(d, f)
    BY <1>1, <2>2 DEF Writes
  <2>6. IdsInv'
    <3>1. \A d \in Conns : Known(d)' => \A p \in used' : p < reg'[d].next
      BY <1>1, <2>1 DEF IdsInv, Known
    <3>2. ASSUME \A d \in Conns : ~Writes(d, "projects")'
          PROVE  IF "projects" \in ok' THEN \A p \in used' : p \in pfile'.ids \/ p < pfile'.next
                 ELSE used' = {}
      <4>1. Head(todo[c]) = "threads"
        BY <1>2, <2>4, <3>2
      <4>2. IF "projects" \in ok THEN \A p \in used : p \in pfile.ids \/ p < pfile.next
            ELSE used = {}
        BY <2>1, <2>5 DEF IdsInv
      <4> QED BY <1>1, <4>1, <4>2
    <3> QED BY <3>1, <3>2 DEF IdsInv
  <2>7. SavedInv'
    <3>1. ASSUME \A d \in Conns : ~Writes(d, "threads")'
          PROVE  IF "threads" \in ok' THEN saved' \subseteq Messages(tfile') \cup gone'
                 ELSE saved' = {}
      <4>1. Head(todo[c]) = "projects"
        BY <1>2, <2>4, <3>1
      <4>2. IF "threads" \in ok THEN saved \subseteq Messages(tfile) \cup gone
            ELSE saved = {}
        BY <2>1, <2>5 DEF SavedInv
      <4> QED BY <1>1, <4>1, <4>2
    <3> QED BY <1>1, <2>1, <3>1 DEF SavedInv
  <2> QED BY <2>3, <2>6, <2>7
<1> QED BY <1>3, <1>4, <1>5 DEF IInv

\* What a write leaves behind, filled or not.
LEMMA WrittenEffect ==
    ASSUME IInv, NEW c \in Conns, Written(c)
    PROVE  /\ writing[c] /\ phase[c] # "closed"
           /\ todo[c] \in Seq(Work) /\ todo[c] # << >>
           /\ Head(todo[c]) \in {"threads", "projects"}
           /\ todo'[c] = Tail(todo[c]) /\ todo' \in [Conns -> Seq(Work)]
           /\ \A d \in Conns \ {c} : todo'[d] = todo[d]
           /\ writing' \in [Conns -> BOOLEAN] /\ ~writing'[c]
           /\ \A d \in Conns \ {c} : writing'[d] = writing[d]
           /\ WorkOK'
           /\ UNCHANGED <<counter, phase, mgr, reg, msgs, gone>>
<1>1. /\ writing[c]
      /\ writing' = [writing EXCEPT ![c] = FALSE]
      /\ todo' = [todo EXCEPT ![c] = Tail(@)]
      /\ UNCHANGED <<counter, phase, mgr, reg, msgs, gone>>
  BY DEF Written
<1>2. /\ phase[c] # "closed"
      /\ todo[c] \in Seq(Work) /\ todo[c] # << >>
      /\ Head(todo[c]) \in {"threads", "projects"}
  BY <1>1 DEF IInv, TypeOK, WorkOK, Work
<1>3. /\ todo'[c] = Tail(todo[c]) /\ todo' \in [Conns -> Seq(Work)]
      /\ \A d \in Conns \ {c} : todo'[d] = todo[d]
      /\ writing' \in [Conns -> BOOLEAN] /\ ~writing'[c]
      /\ \A d \in Conns \ {c} : writing'[d] = writing[d]
  BY <1>1, <1>2 DEF IInv, TypeOK, WorkOK
<1>4. WorkOK'
  BY <1>1, <1>2, <1>3 DEF IInv, TypeOK, WorkOK
<1> QED BY <1>1, <1>2, <1>3, <1>4

\* A filled file has what its writer knows.
LEMMA FillStep ==
    ASSUME IInv, NEW c \in Conns, Fill(c)
    PROVE  IInv'
<1> DEFINE head == Head(todo[c])
<1>1. /\ writing[c] /\ phase[c] # "closed"
      /\ todo[c] \in Seq(Work) /\ todo[c] # << >> /\ head \in {"threads", "projects"}
      /\ todo'[c] = Tail(todo[c]) /\ \A d \in Conns \ {c} : todo'[d] = todo[d]
      /\ ~writing'[c] /\ \A d \in Conns \ {c} : writing'[d] = writing[d]
      /\ WorkOK' /\ UNCHANGED <<counter, phase, mgr, reg, msgs, gone>>
  BY WrittenEffect DEF Fill
<1>2. /\ IF head = "threads"
           THEN /\ tfile' = mgr[c] /\ saved' = saved \cup Messages(mgr[c])
                /\ pfile' = pfile /\ used' = used
           ELSE /\ pfile' = reg[c] /\ used' = used \cup reg[c].ids
                /\ tfile' = tfile /\ saved' = saved
      /\ ok' = ok \cup {head} /\ calm' = calm /\ faults' = faults
  BY DEF Fill, FillThreads, FillProjects
<1>3. /\ Good(mgr[c]) /\ Messages(mgr[c]) \subseteq Nat
      /\ reg[c] \in Registries /\ reg[c].ids \subseteq Nat
  <2>1. Good(mgr[c]) /\ reg[c] \in Registries
    BY DEF IInv, TypeOK, OneForegroundInv, Good
  <2> QED BY <2>1, MessagesAreNumbers DEF Good, Registries
<1>4. TypeOK'
  <2>1. ok' \subseteq {"threads", "projects"} /\ calm' \in BOOLEAN /\ faults' \in Nat
    BY <1>1, <1>2 DEF IInv, TypeOK
  <2>2. IsManager(tfile') /\ pfile' \in Registries
    BY <1>2, <1>3 DEF IInv, TypeOK, Good
  <2>3. saved' \subseteq Nat /\ used' \subseteq Nat
    BY <1>2, <1>3 DEF IInv, TypeOK
  <2> QED BY <1>1, <2>1, <2>2, <2>3 DEF IInv, TypeOK
<1>5. OneForegroundInv' /\ RegistryInv' /\ FileInv'
  <2>1. OneForegroundInv'
    BY <1>1, <1>2, <1>3 DEF IInv, OneForegroundInv, Good
  <2>2. RegistryInv'
    <3>1. ASSUME phase[c] = "greet" PROVE todo'[c] = << >>
      <4>1. todo[c] = <<"threads">>
        BY <1>1, <3>1 DEF IInv, RegistryInv
      <4> QED BY <1>1, <4>1
    <3> QED BY <1>1, <3>1 DEF IInv, RegistryInv, Known
  <2>3. FileInv'
    BY <1>2 DEF IInv, FileInv
  <2> QED BY <2>1, <2>2, <2>3
<1>6. ASSUME calm' PROVE Alone' /\ IdsInv' /\ SavedInv'
  <2>1. Alone /\ IdsInv /\ SavedInv
    BY <1>2, <1>6 DEF IInv
  <2>2. \A d \in Conns \ {c} : ~writing[d] /\ phase[d] = "closed"
    BY <1>1, <2>1 DEF Alone, IInv, TypeOK, WorkOK
  <2>3. Alone'
    BY <1>1, <2>1, <2>2 DEF Alone
  <2>4. \A d \in Conns, f \in {"projects", "threads"} :
          Writes(d, f) => d = c /\ f = head
    BY <2>2 DEF Writes
  <2>5. IdsInv'
    <3>1. CASE head = "threads"
      <4>1. \A d \in Conns : ~Writes(d, "projects")
        BY <2>4, <3>1
      <4> QED BY <1>1, <1>2, <2>1, <3>1, <4>1 DEF IdsInv, Known
    <3>2. CASE head = "projects"
      <4>1. Known(c)
        BY <1>1, <3>2 DEF Known, IInv, RegistryInv
      <4>2. /\ \A p \in used : p < reg[c].next
            /\ \A p \in reg[c].ids : p < reg[c].next
        BY <2>1, <4>1 DEF IdsInv, IInv, RegistryInv, RegistryOK
      <4>3. \A p \in used' : p < reg[c].next
        BY <1>2, <3>2, <4>2
      <4>4. \A d \in Conns : Known(d)' => d = c
        BY <1>1, <2>2 DEF Known
      <4> QED BY <1>1, <1>2, <3>2, <4>3, <4>4 DEF IdsInv
    <3> QED BY <1>1, <3>1, <3>2
  <2>6. SavedInv'
    <3>1. CASE head = "threads"
      <4>1. /\ saved \subseteq Messages(mgr[c]) \cup gone
            /\ saved' = saved \cup Messages(mgr[c])
            /\ tfile' = mgr[c] /\ "threads" \in ok'
        BY <1>1, <1>2, <2>1, <3>1 DEF SavedInv
      <4>2. saved' \subseteq Messages(tfile') \cup gone'
        BY <1>1, <4>1
      <4>3. ASSUME NEW d \in Conns, phase'[d] # "closed"
            PROVE  saved' \subseteq Messages(mgr'[d]) \cup gone'
        <5>1. d = c BY <1>1, <2>2, <4>3
        <5> QED BY <1>1, <4>1, <5>1
      <4>4. ASSUME NEW d \in Conns, ~Pending(todo'[d])
            PROVE  Messages(mgr'[d]) \subseteq saved'
        <5>1. CASE d = c BY <1>1, <4>1, <5>1
        <5>2. CASE d # c BY <1>1, <2>1, <4>1, <4>4, <5>2 DEF SavedInv
        <5> QED BY <5>1, <5>2
      <4> QED BY <4>1, <4>2, <4>3, <4>4 DEF SavedInv
    <3>2. CASE head = "projects"
      <4>1. \A d \in Conns : ~Writes(d, "threads")
        BY <2>4, <3>2
      <4>2. ~Pending(todo'[c]) => ~Pending(todo[c])
        BY <1>1, <3>2, PendingTail
      <4>3. /\ saved' = saved /\ tfile' = tfile /\ gone' = gone /\ mgr' = mgr
            /\ phase' = phase /\ ("threads" \in ok' <=> "threads" \in ok)
        BY <1>1, <1>2, <3>2
      <4> QED BY <1>1, <2>1, <4>1, <4>2, <4>3 DEF SavedInv
    <3> QED BY <1>1, <3>1, <3>2
  <2> QED BY <2>3, <2>5, <2>6
<1> QED BY <1>4, <1>5, <1>6 DEF IInv

\* A write over another one, or a write that fails, is not calm: nothing is said
\* of the files from there on but that they can be loaded or not.
LEMMA BadWriteStep ==
    ASSUME IInv, NEW c \in Conns, FillOver(c) \/ WriteFails(c)
    PROVE  IInv'
<1>1. /\ writing[c] /\ phase[c] # "closed"
      /\ todo[c] \in Seq(Work) /\ todo[c] # << >>
      /\ todo'[c] = Tail(todo[c]) /\ \A d \in Conns \ {c} : todo'[d] = todo[d]
      /\ WorkOK' /\ UNCHANGED <<counter, phase, mgr, reg, msgs, gone>>
  BY WrittenEffect DEF FillOver, WriteFails
<1>2. /\ ok' \subseteq ok /\ faults' \in Nat /\ calm' \in BOOLEAN
      /\ UNCHANGED <<tfile, pfile, saved, used>>
  <2>1. faults \in Nat /\ calm \in BOOLEAN
    BY DEF IInv, TypeOK
  <2>2. CASE FillOver(c)
    BY <2>1, <2>2 DEF FillOver
  <2>3. CASE WriteFails(c)
    <3>1. calm' = FALSE /\ calm' \in BOOLEAN
      BY <2>3, Zenon DEF WriteFails
    <3>2. faults' = faults + 1
      BY <2>3, Zenon DEF WriteFails
    <3>3. ok' = ok \ {Head(todo[c])} /\ UNCHANGED <<tfile, pfile, saved, used>>
      BY <2>3, Zenon DEF WriteFails
    <3>4. faults' \in Nat
      BY <2>1, <3>2
    <3>5. ok' \subseteq ok
      BY <3>3
    <3> QED BY <3>1, <3>3, <3>4, <3>5, Zenon
  <2> QED BY <2>2, <2>3
<1>3. ~calm'
  BY <1>1 DEF FillOver, WriteFails, IInv, Alone
<1>4. TypeOK'
  BY <1>1, <1>2 DEF IInv, TypeOK
<1>5. OneForegroundInv' /\ RegistryInv' /\ FileInv'
  <2>1. OneForegroundInv' /\ FileInv'
    BY <1>1, <1>2 DEF IInv, OneForegroundInv, FileInv
  <2>2. ASSUME phase[c] = "greet" PROVE todo'[c] = << >>
    <3>1. todo[c] = <<"threads">>
      BY <1>1, <2>2 DEF IInv, RegistryInv
    <3> QED BY <1>1, <3>1
  <2>3. RegistryInv'
    BY <1>1, <2>2 DEF IInv, RegistryInv, Known
  <2> QED BY <2>1, <2>3
<1> QED BY <1>3, <1>4, <1>5 DEF IInv

\* A crash keeps what is on disk; it is calm only if nothing was half written.
LEMMA CrashStep ==
    ASSUME IInv, Crash
    PROVE  IInv'
<1>1. /\ counter' = 1 /\ faults' = faults + 1
      /\ phase' = [c \in Conns |-> "closed"]
      /\ mgr' = [c \in Conns |-> NewManager]
      /\ reg' = [c \in Conns |-> NewRegistry]
      /\ todo' = [c \in Conns |-> << >>]
      /\ writing' = [c \in Conns |-> FALSE]
      /\ calm' = (calm /\ \A c \in Conns : ~writing[c])
      /\ UNCHANGED <<tfile, pfile, ok, saved, used, msgs, gone>>
  BY DEF Crash, files
<1>2. TypeOK'
  <2>1. WorkOK'
    BY <1>1, ShortWork DEF WorkOK
  <2> QED BY <1>1, <2>1, NewManagerGood, NewRegistryOK DEF IInv, TypeOK, Good
<1>3. OneForegroundInv' /\ RegistryInv' /\ FileInv'
  BY <1>1, NewManagerGood
     DEF IInv, OneForegroundInv, RegistryInv, FileInv, Known, Good
<1>4. ASSUME calm' PROVE Alone' /\ IdsInv' /\ SavedInv'
  <2>1. Alone /\ IdsInv /\ SavedInv /\ \A c \in Conns : ~writing[c]
    BY <1>1, <1>4 DEF IInv
  <2>2. \A c \in Conns, f \in {"projects", "threads"} : ~Writes(c, f)
    BY <2>1 DEF Writes
  <2>3. Alone'
    BY <1>1 DEF Alone
  <2>4. IdsInv'
    BY <1>1, <2>1, <2>2 DEF IdsInv, Known
  <2>5. SavedInv'
    BY <1>1, <2>1, <2>2, NewManagerGood DEF SavedInv
  <2> QED BY <2>3, <2>4, <2>5
<1> QED BY <1>2, <1>3, <1>4 DEF IInv

-----------------------------------------------------------------------------
(* The theorems. *)

\* The first start of the process satisfies the invariant.
LEMMA InitInv == Init => IInv
<1>1. SUFFICES ASSUME Init PROVE IInv
  OBVIOUS
<1>2. pfile \in Registries
  BY <1>1, ConstantsAssumption, NewRegistryOK DEF Init
<1>3. TypeOK
  <2>1. WorkOK
    BY <1>1, ShortWork DEF Init, WorkOK
  <2>2. used \subseteq Nat
    BY <1>1, <1>2 DEF Init, Registries
  <2>3. /\ mgr = [c \in Conns |-> mgr[c]] /\ \A c \in Conns : IsManager(mgr[c])
        /\ IsManager(tfile) /\ reg \in [Conns -> Registries]
    BY <1>1, NewManagerGood, NewRegistryOK DEF Init, Good
  <2> QED BY <1>1, <1>2, <2>1, <2>2, <2>3 DEF Init, TypeOK
<1>4. OneForegroundInv /\ RegistryInv /\ FileInv
  BY <1>1, NewManagerGood DEF Init, OneForegroundInv, RegistryInv, FileInv, Known, Good
<1>5. Alone
  BY <1>1 DEF Init, Alone
<1>6. IdsInv
  <2>1. IF "projects" \in ok THEN \A p \in used : p \in pfile.ids ELSE used = {}
    BY <1>1 DEF Init, NewRegistry
  <2> QED BY <1>1, <2>1 DEF Init, IdsInv, Known
<1>7. SavedInv
  BY <1>1, NewManagerGood DEF Init, SavedInv
<1> QED BY <1>3, <1>4, <1>5, <1>6, <1>7 DEF IInv

\* Every step keeps the invariant.
LEMMA NextInv == IInv /\ [Next]_vars => IInv'
<1>1. ASSUME IInv, UNCHANGED vars PROVE IInv'
  BY <1>1 DEF IInv, TypeOK, WorkOK, OneForegroundInv, RegistryInv, FileInv, Alone, IdsInv,
              SavedInv, Writes, Known, vars
<1>2. ASSUME IInv, NEW c \in Conns, ConnNext(c) PROVE IInv'
  BY <1>2, AcceptStep, LoadProjectsStep, DisconnectStep, CloseStep, SendStep,
     TruncateStep, FillStep, BadWriteStep DEF ConnNext
<1>3. ASSUME IInv, NEW c \in Conns, ThreadNext(c) PROVE IInv'
  BY <1>3, ThreadCreateStep, ThreadBackgroundStep, ThreadSwitchStep, ThreadCloseStep,
     ThreadRenameStep, ChatStep, ModelMessageStep, ModelCompactsStep, ChatEndsStep
     DEF ThreadNext
<1>4. ASSUME IInv, NEW c \in Conns, ProjectNext(c) PROVE IInv'
  BY <1>4, ProjectCreateStep, ProjectSwitchStep, ProjectRenameStep, ProjectDeleteStep
     DEF ProjectNext
<1> QED BY <1>1, <1>2, <1>3, <1>4, CrashStep DEF Next

\* The invariant holds in every reachable state.
THEOREM StoreInvariant == Spec => []IInv
<1>1. Init => IInv BY InitInv
<1>2. IInv /\ [Next]_vars => IInv' BY NextInv
<1> QED BY <1>1, <1>2, PTL DEF Spec

\* Every variable stays in its set.
THEOREM StoreTypes == Spec => []TypeOK
<1>1. IInv => TypeOK BY DEF IInv
<1> QED BY <1>1, StoreInvariant, PTL

\* The foreground id and the marks on the threads agree, on disk and in memory,
\* whatever the connections do to each other's files.
THEOREM ForegroundIsOne == Spec => []OneForeground
<1>1. IInv => OneForeground
  BY DEF IInv, OneForegroundInv, OneForeground
<1> QED BY <1>1, StoreInvariant, PTL

\* The active project of a connection, and the Default project, are there.
THEOREM ActiveIsThere == Spec => []ActiveProjectExists
<1>1. IInv => ActiveProjectExists
  BY DEF IInv, RegistryInv, RegistryOK, ActiveProjectExists
<1> QED BY <1>1, StoreInvariant, PTL

\* No project id that was ever written is minted again.
THEOREM IdsAreFresh == Spec => []ProjectIdsFresh
<1>1. IInv => ProjectIdsFresh
  BY DEF IInv, IdsInv, ProjectIdsFresh
<1> QED BY <1>1, StoreInvariant, PTL

\* What was written to threads.json is found there.
THEOREM SavedIsKept == Spec => []SavedStays
<1>1. IInv => SavedStays
  BY DEF IInv, SavedInv, SavedStays, Writes
<1> QED BY <1>1, StoreInvariant, PTL

\* What a manager holds has been written when its handler is done with it.
THEOREM SavedFirst == Spec => []MessagesSavedBeforeNextStep
<1>1. ASSUME IInv, calm, NEW c \in Conns, Open(c)
      PROVE  Messages(mgr[c]) \subseteq saved
  <2>1. todo[c] = << >> BY <1>1 DEF Open
  <2> QED BY <1>1, <2>1, ShortWork DEF IInv, SavedInv
<1>2. IInv => MessagesSavedBeforeNextStep
  BY <1>1 DEF MessagesSavedBeforeNextStep
<1> QED BY <1>2, StoreInvariant, PTL
=============================================================================
