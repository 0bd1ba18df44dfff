-------------------------- MODULE SharedConfigProofs -------------------------
(***************************************************************************)
(* Proofs about the shared configuration, for any connections, models,     *)
(* names and bounds.  A connection has the guards, and the configuration   *)
(* to write, that go with where it is (Placed, Writes); while no two       *)
(* administrations overlap, the one under way knows how far it has got     *)
(* (HalfWay), and a copy that has missed no write has the model and the    *)
(* name of the configuration (CopyInv): together they make AgreeWhenCalm   *)
(* inductive.                                                              *)
(***************************************************************************)
EXTENDS SharedConfig, TLAPS

Steps == {"away", "connecting", "idle", "chat", "reading", "loaded", "reload", "context",
          "switching", "switch", "name"}

\* Where a connection is while it waits for a guard for this use, or holds it.
Places(use) == {s \in Steps : \/ use = "copy" /\ s = "connecting"
                              \/ use = "chat" /\ s \in {"chat", "reading"}
                              \/ use = "dispatch" /\ s = "reading"
                              \/ use = "admin" /\ s \in {"reload", "switch", "name"}}

\* A line that goes with where the connections are.
Placed(l, p) ==
  /\ l \in Seq(Asks)
  /\ \A i \in DOMAIN l : p[l[i].by] \in Places(l[i].use)
  /\ \A i, j \in DOMAIN l : l[i].by = l[j].by /\ l[i].use = l[j].use => i = j

\* What the administration of c is to write.
Writes(c) ==
  \/ pc[c] \in {"loaded", "reload", "context"} /\ \E x \in Configs : arg[c] = <<x>>
  \/ pc[c] \in {"switching", "switch"} /\ \E x \in Models : arg[c] = <<x>>
  \/ pc[c] = "name" /\ \E x \in Names : arg[c] = <<x>>
  \/ ~Administrating(c) /\ arg[c] = <<>>

TypeInv ==
  /\ config \in Configs /\ ctx \in Models \cup {NoModel}
  /\ file \in {<<>>} \cup {<<x>> : x \in Configs}
  /\ pc \in [Connections -> Steps]
  /\ DOMAIN arg = Connections /\ arg = [c \in Connections |-> arg[c]]
  /\ \A c \in Connections : Writes(c)
  /\ reads \in [Connections -> 0 .. MaxReads]
  /\ calm \in BOOLEAN /\ content \in {"config", "copy", "outdated", "other"}
  /\ requests \in 0 .. MaxRequests /\ faults \in 0 .. MaxFaults

\* The copies, and what is known of those that have missed no write.
CopyInv ==
  /\ DOMAIN copy = Connections /\ copy = [c \in Connections |-> copy[c]]
  /\ \A c \in Connections : \/ pc[c] \in {"away", "connecting"} /\ copy[c] = <<>>
                            \/ /\ pc[c] \notin {"away", "connecting"}
                               /\ \E x \in Configs : copy[c] = <<x>>
  /\ fresh \subseteq Connections
  /\ \A c \in fresh : copy[c] # <<>> /\ Same(copy[c][1], config)

\* The file has what its content says of x; context and configuration agree.
Stored(x) == /\ content = "config" => file = <<x>>
             /\ content = "copy" => Saves(x)
Agree == ctx = config.model /\ Stored(config)

\* How far the administration of c has got, when it is the only one.
HalfWay(c) ==
  /\ pc[c] \in {"loaded", "reload"} => Stored(arg[c][1])
  /\ pc[c] = "context" => config = arg[c][1] /\ Stored(config)
  /\ pc[c] \in {"switching", "switch"} => ctx = arg[c][1]
  /\ pc[c] = "name" => Agree

CalmInv ==
  calm => /\ \A c, d \in Connections : Administrating(c) /\ Administrating(d) => c = d
          /\ Alone => Agree
          /\ \A c \in Connections : HalfWay(c)

-----------------------------------------------------------------------------
(* The line. *)

\* A connection that moves and asks for nothing.
LEMMA MovedPlaced ==
  ASSUME NEW l, NEW p \in [Connections -> Steps], Placed(l, p),
         NEW c \in Connections, NEW to \in Steps,
         \A i \in DOMAIN l : l[i].by = c => to \in Places(l[i].use)
  PROVE  Placed(l, [p EXCEPT ![c] = to])
<1>1. \A i \in DOMAIN l : l[i] \in Asks
  BY DEF Placed
<1> QED
  BY <1>1 DEF Placed, Asks

\* A connection that asks for a guard for a use it has none for.
LEMMA AskedPlaced ==
  ASSUME NEW l, NEW p \in [Connections -> Steps], Placed(l, p),
         NEW c \in Connections, NEW to \in Steps, NEW r \in Asks, r.by = c,
         to \in Places(r.use),
         \A i \in DOMAIN l : l[i].by = c => to \in Places(l[i].use) /\ l[i].use # r.use
  PROVE  Placed(Append(l, r), [p EXCEPT ![c] = to])
<1> DEFINE m == Append(l, r)
<1>1. l \in Seq(Asks) /\ m \in Seq(Asks) /\ Len(m) = Len(l) + 1
  BY DEF Placed
<1>2. DOMAIN m = 1 .. Len(l) + 1 /\ DOMAIN l = 1 .. Len(l) /\ Len(l) \in Nat
  BY <1>1
<1>3. /\ m[Len(l) + 1] = r
      /\ \A i \in DOMAIN l : m[i] = l[i] /\ l[i] \in Asks
  BY <1>1
<1>4. \A i \in DOMAIN m : i = Len(l) + 1 \/ i \in DOMAIN l
  BY <1>2
<1>5. \A i \in DOMAIN l : l[i].by \in Connections
  BY <1>3 DEF Asks
<1> HIDE DEF m
<1>6. \A i \in DOMAIN m : [p EXCEPT ![c] = to][m[i].by] \in Places(m[i].use)
  BY <1>3, <1>4, <1>5 DEF Placed
<1>7. \A i, j \in DOMAIN m : m[i].by = m[j].by /\ m[i].use = m[j].use => i = j
  BY <1>3, <1>4 DEF Placed
<1> QED
  BY <1>1, <1>6, <1>7 DEF Placed, m

\* A connection that gives a guard back.
LEMMA FreedPlaced ==
  ASSUME NEW l, NEW p \in [Connections -> Steps], Placed(l, p),
         NEW c \in Connections, NEW to \in Steps, NEW k \in DOMAIN l, l[k].by = c,
         \A i \in DOMAIN l \ {k} : l[i].by = c => to \in Places(l[i].use)
  PROVE  Placed(Without(l, k), [p EXCEPT ![c] = to])
<1> DEFINE m == Without(l, k)
           from(i) == IF i < k THEN i ELSE i + 1
<1>1. l \in Seq(Asks) /\ DOMAIN l = 1 .. Len(l) /\ Len(l) \in Nat /\ k \in 1 .. Len(l)
  BY DEF Placed
<1>2. \A i \in 1 .. Len(l) - 1 : from(i) \in DOMAIN l \ {k} /\ m[i] = l[from(i)]
  BY <1>1 DEF Without
<1>3. m = [i \in 1 .. Len(l) - 1 |-> l[from(i)]] /\ Len(l) - 1 \in Nat
  BY <1>1 DEF Without
<1>4. \A i \in DOMAIN l : l[i] \in Asks /\ l[i].by \in Connections
  <2>1. \A i \in DOMAIN l : l[i] \in Asks
    BY <1>1
  <2> QED
    BY <2>1 DEF Asks
<1>5. DOMAIN m = 1 .. Len(l) - 1
  BY <1>3
<1>6. \A i, j \in 1 .. Len(l) - 1 : from(i) = from(j) => i = j
  BY <1>1
<1>7. m \in Seq(Asks)
  BY <1>2, <1>3, <1>4
<1> HIDE DEF m, from
<1>8. \A i \in DOMAIN m : [p EXCEPT ![c] = to][m[i].by] \in Places(m[i].use)
  BY <1>2, <1>4, <1>5 DEF Placed
<1>9. \A i, j \in DOMAIN m : m[i].by = m[j].by /\ m[i].use = m[j].use => i = j
  BY <1>2, <1>5, <1>6 DEF Placed
<1> QED
  BY <1>7, <1>8, <1>9 DEF Placed, m

\* What a connection asks for or holds goes with where it is.
LEMMA OwnAsks ==
  ASSUME TypeInv, Placed(line, pc), NEW c \in Connections
  PROVE  /\ \A i \in DOMAIN line : line[i].by = c => pc[c] \in Places(line[i].use)
         /\ \A use : \A i, j \in At(c, use) : i = j
BY DEF Placed, At

\* What is granted is there, and is what is given back.
LEMMA Given ==
  ASSUME TypeInv, Placed(line, pc), NEW c \in Connections, NEW use, Granted(c, use)
  PROVE  \E k \in DOMAIN line :
           /\ line[k].by = c /\ line[k].use = use
           /\ Released(c, use) = Without(line, k)
           /\ \A i \in DOMAIN line \ {k} : line[i].by = c => line[i].use # use
<1>1. PICK k \in At(c, use) : TRUE
  BY DEF Granted
<1>2. At(c, use) = {k}
  BY OwnAsks
<1>3. (CHOOSE i \in At(c, use) : TRUE) = k
  BY <1>2
<1> QED
  BY <1>2, <1>3 DEF At, Released

\* A step of the lock: a connection that moves, asks or gives back.
Moves(c, to) == pc' = [pc EXCEPT ![c] = to] /\ line' = line
AsksFor(c, mode, use, to) == pc' = [pc EXCEPT ![c] = to] /\ line' = Request(c, mode, use)
Frees(c, use, to) == /\ pc' = [pc EXCEPT ![c] = to] /\ Granted(c, use)
                     /\ line' = Released(c, use)

\* Nothing else is held where c is, but what it keeps where it goes.
LEMMA MovesKeepPlaced ==
  ASSUME TypeInv, Placed(line, pc), NEW c \in Connections, NEW to \in Steps, Moves(c, to),
         \A use : pc[c] \in Places(use) => to \in Places(use)
  PROVE  Placed(line, pc)'
<1>1. \A i \in DOMAIN line : line[i].by = c => to \in Places(line[i].use)
  BY OwnAsks
<1>2. pc \in [Connections -> Steps]
  BY DEF TypeInv
<1>3. Placed(line, [pc EXCEPT ![c] = to])
  BY <1>1, <1>2, MovedPlaced
<1> QED
  BY <1>3 DEF Moves

\* Where c goes it has the guard it asks for, and it had none for that use.
LEMMA AsksKeepPlaced ==
  ASSUME TypeInv, Placed(line, pc), NEW c \in Connections, NEW to \in Steps,
         NEW mode \in {"read", "write"}, NEW use \in Uses,
         AsksFor(c, mode, use, to),
         to \in Places(use), pc[c] \notin Places(use),
         \A other : pc[c] \in Places(other) => to \in Places(other)
  PROVE  Placed(line, pc)'
<1> DEFINE r == [by |-> c, mode |-> mode, use |-> use]
<1>1. \A i \in DOMAIN line : line[i].by = c =>
                               to \in Places(line[i].use) /\ line[i].use # use
  BY OwnAsks
<1>2. pc \in [Connections -> Steps]
  BY DEF TypeInv
<1>3. r \in Asks /\ r.by = c /\ r.use = use
  BY DEF Asks
<1> HIDE DEF r
<1>4. Placed(Append(line, r), [pc EXCEPT ![c] = to])
  BY <1>1, <1>2, <1>3, AskedPlaced
<1> QED
  BY <1>4 DEF AsksFor, Request, r

\* What c keeps goes with where it goes.
LEMMA FreesKeepPlaced ==
  ASSUME TypeInv, Placed(line, pc), NEW c \in Connections, NEW to \in Steps,
         NEW use, Frees(c, use, to),
         \A other : other # use /\ pc[c] \in Places(other) => to \in Places(other)
  PROVE  Placed(line, pc)'
<1>1. PICK k \in DOMAIN line :
             /\ line[k].by = c /\ line[k].use = use
             /\ Released(c, use) = Without(line, k)
             /\ \A i \in DOMAIN line \ {k} : line[i].by = c => line[i].use # use
  BY Given DEF Frees
<1>2. \A i \in DOMAIN line \ {k} : line[i].by = c => to \in Places(line[i].use)
  BY <1>1, OwnAsks
<1>3. pc \in [Connections -> Steps]
  BY DEF TypeInv
<1>4. Placed(Without(line, k), [pc EXCEPT ![c] = to])
  BY <1>1, <1>2, <1>3, FreedPlaced
<1> QED
  BY <1>1, <1>4 DEF Frees

-----------------------------------------------------------------------------
(* The invariant. *)

IInv == TypeInv /\ Placed(line, pc) /\ CopyInv /\ CalmInv

\* Nobody is there, and what runs is what was loaded.
LEMMA InitInv == Init => IInv
<1> SUFFICES ASSUME Init PROVE IInv
  OBVIOUS
<1>1. TypeInv
  BY ModelsAssumption, BoundsAssumption, ContentsAssumption
  DEF Init, TypeInv, Writes, Administrating, Steps, Configs
<1>2. Placed(line, pc)
  BY DEF Init, Placed
<1>3. CopyInv
  BY DEF Init, CopyInv
<1>4. CalmInv
  BY DEF Init, CalmInv, Administrating, Alone, Agree, Stored, HalfWay
<1> QED
  BY <1>1, <1>2, <1>3, <1>4 DEF IInv

\* Types of what a step of c leaves alone or changes by pc and arg only.
LEMMA WritesKept ==
  ASSUME TypeInv, NEW c \in Connections, NEW to \in Steps, NEW a,
         pc' = [pc EXCEPT ![c] = to], arg' = [arg EXCEPT ![c] = a],
         \/ to \in {"loaded", "reload", "context"} /\ \E x \in Configs : a = <<x>>
         \/ to \in {"switching", "switch"} /\ \E x \in Models : a = <<x>>
         \/ to = "name" /\ \E x \in Names : a = <<x>>
         \/ to \in Steps \ {"switching", "loaded", "switch", "name", "reload", "context"}
            /\ a = <<>>
  PROVE  /\ pc' \in [Connections -> Steps]
         /\ DOMAIN arg' = Connections /\ arg' = [d \in Connections |-> arg'[d]]
         /\ \A d \in Connections : Writes(d)'
<1>1. pc' \in [Connections -> Steps]
  BY DEF TypeInv
<1>2. DOMAIN arg' = Connections /\ arg' = [d \in Connections |-> arg'[d]]
  BY DEF TypeInv
<1>3. pc'[c] = to /\ arg'[c] = a
  BY DEF TypeInv
<1>4. \A d \in Connections : d # c => pc'[d] = pc[d] /\ arg'[d] = arg[d]
  BY DEF TypeInv
<1>5. \A d \in Connections : Writes(d)
  BY DEF TypeInv
<1>6. Writes(c)'
  BY <1>3 DEF Writes, Administrating
<1>7. \A d \in Connections : d # c => Writes(d)'
  BY <1>4, <1>5 DEF Writes, Administrating
<1> QED
  BY <1>1, <1>2, <1>6, <1>7

\* A step of the connections and chats: no configuration is touched.
Chats(c) == Connect(c) \/ Connected(c) \/ Leave(c) \/ Chat(c) \/ ReadAgain(c)
            \/ DoneReading(c) \/ EndChat(c)

\* Where c goes it has the same guards to itself, but for this use.
SameBut(c, use, to) == \A other \in Uses \ {use} : pc[c] \in Places(other) <=> to \in Places(other)

\* What a step does to the line.
LineStep ==
  \/ UNCHANGED <<line, pc>>
  \/ \E c \in Connections, to \in Steps : Moves(c, to) /\ SameBut(c, "none", to)
  \/ \E c \in Connections, use \in Uses, mode \in {"read", "write"}, to \in Steps :
       /\ AsksFor(c, mode, use, to) /\ SameBut(c, use, to)
       /\ mode = "write" <=> use = "admin"
       /\ pc[c] \notin Places(use) /\ to \in Places(use)
  \/ \E c \in Connections, use \in Uses, to \in Steps :
       /\ Frees(c, use, to) /\ SameBut(c, use, to)
       /\ pc[c] \in Places(use) /\ to \notin Places(use)

\* Every action does one of these to the line, or starts the process anew.
LEMMA StepOfLine ==
  ASSUME [Next]_vars
  PROVE  LineStep \/ Restart
<1>1. ASSUME NEW c \in Connections, Connect(c) PROVE LineStep
  <2>1. AsksFor(c, "read", "copy", "connecting") /\ pc[c] = "away"
    BY <1>1 DEF Connect, Move, AsksFor
  <2> QED
    BY <2>1 DEF LineStep, SameBut, Places, Steps, Uses
<1>2. ASSUME NEW c \in Connections, Connected(c) PROVE LineStep
  <2>1. Frees(c, "copy", "idle") /\ pc[c] = "connecting"
    BY <1>2 DEF Connected, Move, Frees
  <2> QED
    BY <2>1 DEF LineStep, SameBut, Places, Steps, Uses
<1>3. ASSUME NEW c \in Connections, Leave(c) PROVE LineStep
  <2>1. Moves(c, "away") /\ pc[c] = "idle"
    BY <1>3 DEF Leave, Move, Moves
  <2> QED
    BY <2>1 DEF LineStep, SameBut, Places, Steps, Uses
<1>4. ASSUME NEW c \in Connections, Chat(c) PROVE LineStep
  <2>1. AsksFor(c, "read", "chat", "chat") /\ pc[c] = "idle"
    BY <1>4 DEF Chat, Move, AsksFor
  <2> QED
    BY <2>1 DEF LineStep, SameBut, Places, Steps, Uses
<1>5. ASSUME NEW c \in Connections, ReadAgain(c) PROVE LineStep
  <2>1. AsksFor(c, "read", "dispatch", "reading") /\ pc[c] = "chat"
    BY <1>5 DEF ReadAgain, Move, AsksFor
  <2> QED
    BY <2>1 DEF LineStep, SameBut, Places, Steps, Uses
<1>6. ASSUME NEW c \in Connections, DoneReading(c) PROVE LineStep
  <2>1. Frees(c, "dispatch", "chat") /\ pc[c] = "reading"
    BY <1>6 DEF DoneReading, Move, Frees
  <2> QED
    BY <2>1 DEF LineStep, SameBut, Places, Steps, Uses
<1>7. ASSUME NEW c \in Connections, EndChat(c) PROVE LineStep
  <2>1. PICK to \in {"idle", "away"} : Frees(c, "chat", to) /\ pc[c] = "chat"
    BY <1>7 DEF EndChat, Move, Frees
  <2> QED
    BY <2>1 DEF LineStep, SameBut, Places, Steps, Uses
<1>8. ASSUME NEW c \in Connections, Reload(c) PROVE LineStep
  <2>1. Moves(c, "loaded") /\ pc[c] = "idle"
    BY <1>8 DEF Reload, Move, Moves
  <2> QED
    BY <2>1 DEF LineStep, SameBut, Places, Steps, Uses
<1>9. ASSUME NEW c \in Connections, AskReload(c) PROVE LineStep
  <2>1. AsksFor(c, "write", "admin", "reload") /\ pc[c] = "loaded"
    BY <1>9 DEF AskReload, Move, AsksFor
  <2> QED
    BY <2>1 DEF LineStep, SameBut, Places, Steps, Uses
<1>10. ASSUME NEW c \in Connections, WriteReload(c) PROVE LineStep
  <2>1. Frees(c, "admin", "context") /\ pc[c] = "reload"
    BY <1>10 DEF WriteReload, Move, Frees
  <2> QED
    BY <2>1 DEF LineStep, SameBut, Places, Steps, Uses
<1>11. ASSUME NEW c \in Connections, WriteContext(c) PROVE LineStep
  <2>1. Moves(c, "idle") /\ pc[c] = "context"
    BY <1>11 DEF WriteContext, Move, Moves
  <2> QED
    BY <2>1 DEF LineStep, SameBut, Places, Steps, Uses
<1>12. ASSUME NEW c \in Connections, NEW m \in Models, Switch(c, m) PROVE LineStep
  <2>1. Moves(c, "switching") /\ pc[c] = "idle"
    BY <1>12 DEF Switch, Move, Moves
  <2> QED
    BY <2>1 DEF LineStep, SameBut, Places, Steps, Uses
<1>13. ASSUME NEW c \in Connections, AskSwitch(c) PROVE LineStep
  <2>1. AsksFor(c, "write", "admin", "switch") /\ pc[c] = "switching"
    BY <1>13 DEF AskSwitch, Move, AsksFor
  <2> QED
    BY <2>1 DEF LineStep, SameBut, Places, Steps, Uses
<1>14. ASSUME NEW c \in Connections, WriteSwitch(c) PROVE LineStep
  <2>1. Frees(c, "admin", "idle") /\ pc[c] = "switch"
    BY <1>14 DEF WriteSwitch, Move, Frees
  <2> QED
    BY <2>1 DEF LineStep, SameBut, Places, Steps, Uses
<1>15. ASSUME NEW c \in Connections, NEW n \in Names, AskName(c, n) PROVE LineStep
  <2>1. AsksFor(c, "write", "admin", "name") /\ pc[c] = "idle"
    BY <1>15 DEF AskName, Move, AsksFor
  <2> QED
    BY <2>1 DEF LineStep, SameBut, Places, Steps, Uses
<1>16. ASSUME NEW c \in Connections, WriteName(c) PROVE LineStep
  <2>1. Frees(c, "admin", "idle") /\ pc[c] = "name"
    BY <1>16 DEF WriteName, Move, Frees
  <2> QED
    BY <2>1 DEF LineStep, SameBut, Places, Steps, Uses
<1>17. ASSUME NEW new, Edit(new) PROVE LineStep
  BY <1>17 DEF Edit, LineStep
<1>18. ASSUME NEW c \in Connections, NEW s \in Settings, SetDirectory(c, s) \/ SaveCopy(c, s)
       PROVE  LineStep
  BY <1>18 DEF SetDirectory, SaveCopy, LineStep
<1>19. CASE UNCHANGED vars
  BY <1>19 DEF vars, LineStep
<1> QED
  BY <1>1, <1>2, <1>3, <1>4, <1>5, <1>6, <1>7, <1>8, <1>9, <1>10, <1>11, <1>12, <1>13,
     <1>14, <1>15, <1>16, <1>17, <1>18, <1>19 DEF Next, Goes

\* The line goes with where the connections are, in every action.
LEMMA StepKeepsPlaced ==
  ASSUME IInv, [Next]_vars
  PROVE  Placed(line, pc)'
<1> USE DEF IInv
<1>1. \A x, use : x \in Places(use) => use \in Uses
  BY DEF Places, Uses
<1>2. CASE Restart
  BY <1>2 DEF Restart, Placed
<1>3. CASE UNCHANGED <<line, pc>>
  BY <1>3
<1>4. ASSUME NEW c \in Connections, NEW to \in Steps, Moves(c, to), SameBut(c, "none", to)
      PROVE  Placed(line, pc)'
  <2>1. \A use : pc[c] \in Places(use) => to \in Places(use)
    BY <1>1, <1>4 DEF SameBut, Uses
  <2> QED
    BY <1>4, <2>1, MovesKeepPlaced
<1>5. ASSUME NEW c \in Connections, NEW use \in Uses, NEW mode \in {"read", "write"},
             NEW to \in Steps, AsksFor(c, mode, use, to), SameBut(c, use, to),
             pc[c] \notin Places(use), to \in Places(use)
      PROVE  Placed(line, pc)'
  <2>1. \A other : pc[c] \in Places(other) => to \in Places(other)
    BY <1>1, <1>5 DEF SameBut
  <2> QED
    BY <1>5, <2>1, AsksKeepPlaced DEF Uses
<1>6. ASSUME NEW c \in Connections, NEW use \in Uses, NEW to \in Steps,
             Frees(c, use, to), SameBut(c, use, to)
      PROVE  Placed(line, pc)'
  <2>1. \A other : other # use /\ pc[c] \in Places(other) => to \in Places(other)
    BY <1>1, <1>6 DEF SameBut
  <2> QED
    BY <1>6, <2>1, FreesKeepPlaced
<1> QED
  BY <1>2, <1>3, <1>4, <1>5, <1>6, StepOfLine DEF LineStep

-----------------------------------------------------------------------------
(* The copies. *)

\* A configuration with another setting of a connection's own, model or name.
LEMMA Changed ==
  ASSUME NEW x \in Configs
  PROVE  /\ \A s \in Settings : /\ [x EXCEPT !.own = s] \in Configs
                                /\ Same([x EXCEPT !.own = s], x)
         /\ \A m \in Models : [x EXCEPT !.model = m] \in Configs
         /\ \A n \in Names : /\ [x EXCEPT !.name = n] \in Configs
                             /\ [x EXCEPT !.name = n].name = n
                             /\ [x EXCEPT !.name = n].model = x.model
BY DEF Configs, Same

\* A step that leaves the copies alone; those that miss a write are not fresh.
LEMMA CopiesKept ==
  ASSUME CopyInv, pc \in [Connections -> Steps], NEW c \in Connections, NEW to,
         pc' = [pc EXCEPT ![c] = to],
         pc[c] \in {"away", "connecting"} <=> to \in {"away", "connecting"},
         copy' = copy,
         fresh' = {} \/ (fresh' = fresh /\ config' = config)
  PROVE  CopyInv'
<1>1. \A d \in Connections :
        pc'[d] \in {"away", "connecting"} <=> pc[d] \in {"away", "connecting"}
  OBVIOUS
<1>2. \A d \in Connections : \/ pc'[d] \in {"away", "connecting"} /\ copy[d] = <<>>
                            \/ /\ pc'[d] \notin {"away", "connecting"}
                               /\ \E x \in Configs : copy[d] = <<x>>
  BY <1>1 DEF CopyInv
<1>3. \A d \in fresh' : copy[d] # <<>> /\ Same(copy[d][1], config')
  BY DEF CopyInv, Same
<1>4. /\ DOMAIN copy = Connections /\ copy = [d \in Connections |-> copy[d]]
      /\ fresh' \subseteq Connections
  BY DEF CopyInv
<1> QED
  BY <1>2, <1>3, <1>4 DEF CopyInv

\* A connection that leaves, and its copy with it.
LEMMA CopyForgotten ==
  ASSUME CopyInv, pc \in [Connections -> Steps], NEW c \in Connections,
         pc' = [pc EXCEPT ![c] = "away"], Forget(c), config' = config
  PROVE  CopyInv'
<1>1. copy' = [copy EXCEPT ![c] = <<>>] /\ fresh' = fresh \ {c}
  BY DEF Forget
<1>2. /\ pc'[c] = "away" /\ copy'[c] = <<>>
      /\ \A d \in Connections : d # c => pc'[d] = pc[d] /\ copy'[d] = copy[d]
  BY <1>1 DEF CopyInv
<1>3. DOMAIN copy' = Connections /\ copy' = [d \in Connections |-> copy'[d]]
  BY <1>1 DEF CopyInv
<1> QED
  BY <1>1, <1>2, <1>3 DEF CopyInv

\* A copy that is made or changed: it is fresh only as the configuration is.
LEMMA CopySet ==
  ASSUME CopyInv, pc \in [Connections -> Steps], NEW c \in Connections, NEW x \in Configs,
         pc' = [pc EXCEPT ![c] = "idle"],
         copy' = [copy EXCEPT ![c] = <<x>>],
         \/ fresh' \subseteq {c}
         \/ fresh' \subseteq fresh \cup {c} /\ config' = config,
         c \in fresh' => Same(x, config')
  PROVE  CopyInv'
<1>1. /\ pc'[c] = "idle" /\ copy'[c] = <<x>>
      /\ \A d \in Connections : d # c => pc'[d] = pc[d] /\ copy'[d] = copy[d]
  BY DEF CopyInv
<1>2. DOMAIN copy' = Connections /\ copy' = [d \in Connections |-> copy'[d]]
  BY DEF CopyInv
<1>3. fresh' \subseteq Connections
  BY DEF CopyInv
<1>4. ASSUME NEW d \in fresh' PROVE copy'[d] # <<>> /\ Same(copy'[d][1], config')
  <2>1. CASE d = c
    BY <1>1, <1>4, <2>1
  <2>2. CASE d # c
    <3>1. d \in fresh /\ config' = config /\ copy'[d] = copy[d]
      BY <1>1, <1>3, <1>4, <2>2
    <3>2. copy[d] # <<>> /\ Same(copy[d][1], config)
      BY <3>1 DEF CopyInv
    <3> QED
      BY <3>1, <3>2 DEF Same
  <2> QED
    BY <2>1, <2>2
<1> QED
  BY <1>1, <1>2, <1>3, <1>4 DEF CopyInv

\* The copies, in every action.
LEMMA StepKeepsCopies ==
  ASSUME IInv, [Next]_vars
  PROVE  CopyInv'
<1>1. /\ CopyInv /\ pc \in [Connections -> Steps] /\ config \in Configs
      /\ \A c \in Connections : Writes(c)
  BY DEF IInv, TypeInv
<1>2. ASSUME NEW c \in Connections, Connected(c) PROVE CopyInv'
  <2>1. PICK s \in Settings : copy' = [copy EXCEPT ![c] = <<[config EXCEPT !.own = s]>>]
    BY <1>2 DEF Connected
  <2> DEFINE x == [config EXCEPT !.own = s]
  <2>2. x \in Configs /\ Same(x, config)
    BY <1>1, Changed
  <2>3. pc' = [pc EXCEPT ![c] = "idle"] /\ fresh' = fresh \cup {c} /\ config' = config
    BY <1>2 DEF Connected, Move
  <2>4. copy' = [copy EXCEPT ![c] = <<x>>]
    BY <2>1
  <2> HIDE DEF x
  <2> QED
    BY <1>1, <2>2, <2>3, <2>4, CopySet
<1>3. ASSUME NEW c \in Connections, Leave(c) PROVE CopyInv'
  BY <1>1, <1>3, CopyForgotten DEF Leave, Move
<1>4. ASSUME NEW c \in Connections, EndChat(c) PROVE CopyInv'
  <2>1. CASE Move(c, "chat", "away") /\ Forget(c)
    BY <1>1, <1>4, <2>1, CopyForgotten DEF EndChat, Move
  <2>2. CASE Move(c, "chat", "idle") /\ UNCHANGED copies
    BY <1>1, <1>4, <2>2, CopiesKept DEF EndChat, Move, copies
  <2> QED
    BY <1>4, <2>1, <2>2 DEF EndChat
<1>5. ASSUME NEW c \in Connections, Connect(c) PROVE CopyInv'
  BY <1>1, <1>5, CopiesKept DEF Connect, Move, copies
<1>6. ASSUME NEW c \in Connections, Chat(c) \/ ReadAgain(c) \/ DoneReading(c) PROVE CopyInv'
  BY <1>1, <1>6, CopiesKept DEF Chat, ReadAgain, DoneReading, Move, copies
<1>7. ASSUME NEW c \in Connections, Reload(c) \/ AskReload(c) \/ WriteContext(c) \/ AskSwitch(c)
      PROVE  CopyInv'
  BY <1>1, <1>7, CopiesKept DEF Reload, AskReload, WriteContext, AskSwitch, Move, copies
<1>8. ASSUME NEW c \in Connections, NEW m \in Models, Switch(c, m) PROVE CopyInv'
  BY <1>1, <1>8, CopiesKept DEF Switch, Move, copies
<1>9. ASSUME NEW c \in Connections, NEW n \in Names, AskName(c, n) PROVE CopyInv'
  BY <1>1, <1>9, CopiesKept DEF AskName, Move, copies
<1>10. ASSUME NEW c \in Connections, WriteReload(c) \/ WriteSwitch(c) PROVE CopyInv'
  BY <1>1, <1>10, CopiesKept DEF WriteReload, WriteSwitch, Move
<1>11. ASSUME NEW c \in Connections, WriteName(c) PROVE CopyInv'
  <2>1. /\ pc' = [pc EXCEPT ![c] = "idle"] /\ pc[c] = "name" /\ fresh' = fresh \cap {c}
        /\ copy' = [copy EXCEPT ![c] = <<[copy[c][1] EXCEPT !.name = arg[c][1]]>>]
        /\ config' = [config EXCEPT !.name = arg[c][1]]
    BY <1>1, <1>11 DEF WriteName, Move, Saved, CopyInv
  <2>2. PICK n \in Names : arg[c] = <<n>>
    BY <1>1, <2>1 DEF Writes, Administrating
  <2>3. PICK y \in Configs : copy[c] = <<y>>
    BY <1>1, <2>1 DEF CopyInv
  <2> DEFINE x == [y EXCEPT !.name = n]
  <2>4. x \in Configs /\ copy' = [copy EXCEPT ![c] = <<x>>]
    BY <2>1, <2>2, <2>3, Changed
  <2>5. c \in fresh' => Same(x, config')
    <3>0. copy[c][1] = y
      BY <2>3
    <3>1. c \in fresh' => Same(y, config)
      BY <1>1, <2>1, <3>0 DEF CopyInv, Same
    <3>2. x.name = n /\ x.model = y.model /\ config'.name = n /\ config'.model = config.model
      BY <1>1, <2>1, <2>2, Changed
    <3> QED
      BY <3>1, <3>2 DEF Same
  <2>6. fresh' \subseteq {c}
    BY <2>1
  <2> HIDE DEF x
  <2> QED
    BY <1>1, <2>1, <2>4, <2>5, <2>6, CopySet
<1>12. ASSUME NEW c \in Connections, NEW s \in Settings, SetDirectory(c, s) \/ SaveCopy(c, s)
       PROVE  CopyInv'
  <2>1. /\ pc' = pc /\ pc[c] = "idle" /\ fresh' = fresh /\ config' = config
        /\ copy' = [copy EXCEPT ![c] = <<[copy[c][1] EXCEPT !.own = s]>>]
    BY <1>1, <1>12 DEF SetDirectory, SaveCopy, CopyInv
  <2>2. PICK y \in Configs : copy[c] = <<y>>
    BY <1>1, <2>1 DEF CopyInv
  <2> DEFINE x == [y EXCEPT !.own = s]
  <2>3. x \in Configs /\ Same(x, y) /\ copy' = [copy EXCEPT ![c] = <<x>>]
    BY <2>1, <2>2, Changed
  <2>4. c \in fresh' => Same(x, config')
    <3>1. copy[c][1] = y
      BY <2>2
    <3>2. c \in fresh => Same(y, config)
      BY <1>1, <3>1 DEF CopyInv, Same
    <3> QED
      BY <2>1, <2>3, <3>2 DEF Same
  <2>5. pc' = [pc EXCEPT ![c] = "idle"]
    BY <1>1, <2>1
  <2> HIDE DEF x
  <2> QED
    BY <1>1, <2>1, <2>3, <2>4, <2>5, CopySet
<1>13. CASE Restart
  BY <1>13 DEF Restart, CopyInv
<1>14. ASSUME NEW new, Edit(new) PROVE CopyInv'
  BY <1>1, <1>14 DEF Edit, copies, CopyInv
<1>15. CASE UNCHANGED vars
  BY <1>1, <1>15 DEF vars, copies, CopyInv
<1> QED
  BY <1>2, <1>3, <1>4, <1>5, <1>6, <1>7, <1>8, <1>9, <1>10, <1>11, <1>12, <1>13, <1>14, <1>15
  DEF Next, Goes

-----------------------------------------------------------------------------
(* The types. *)

\* A step of c that leaves the configuration, the context and the file alone.
Quiet == UNCHANGED <<config, ctx, file, calm, content>>

\* The types of the counters.
Counted == /\ reads \in [Connections -> 0 .. MaxReads]
           /\ requests \in 0 .. MaxRequests /\ faults \in 0 .. MaxFaults

\* The types, in every action.
LEMMA StepKeepsTypes ==
  ASSUME IInv, [Next]_vars
  PROVE  TypeInv'
<1>1. TypeInv
  BY DEF IInv
<1>2. ASSUME NEW c \in Connections, Chats(c) PROVE TypeInv'
  <2>1. PICK to \in {"away", "connecting", "idle", "chat", "reading"} :
             pc' = [pc EXCEPT ![c] = to]
    BY <1>2 DEF Chats, Connect, Connected, Leave, Chat, ReadAgain, DoneReading, EndChat, Move
  <2>2. pc[c] \in {"away", "connecting", "idle", "chat", "reading"} /\ Quiet /\ arg' = arg
    BY <1>2 DEF Chats, Connect, Connected, Leave, Chat, ReadAgain, DoneReading, EndChat, Move, Quiet
  <2>3. arg[c] = <<>>
    BY <1>1, <2>2 DEF TypeInv, Writes, Administrating
  <2>4. arg' = [arg EXCEPT ![c] = <<>>]
    BY <1>1, <2>2, <2>3 DEF TypeInv
  <2>5. /\ pc' \in [Connections -> Steps]
        /\ DOMAIN arg' = Connections /\ arg' = [d \in Connections |-> arg'[d]]
        /\ \A d \in Connections : Writes(d)'
    BY <1>1, <2>1, <2>4, WritesKept DEF Steps
  <2>6. Counted'
    BY <1>1, <1>2, BoundsAssumption DEF TypeInv, Counted, Count, bounds,
       Chats, Connect, Connected, Leave, Chat, ReadAgain, DoneReading, EndChat
  <2> QED
    BY <1>1, <2>2, <2>5, <2>6 DEF TypeInv, Quiet, Counted
<1> DEFINE Made(c) == /\ pc' \in [Connections -> Steps]
                     /\ DOMAIN arg' = Connections /\ arg' = [d \in Connections |-> arg'[d]]
                     /\ \A d \in Connections : Writes(d)'
<1>3. ASSUME NEW c \in Connections, Reload(c) PROVE TypeInv'
  <2>1. Made(c)
    BY <1>1, <1>3, WritesKept DEF TypeInv, Steps, Reload, Move
  <2>2. Counted' /\ calm' \in BOOLEAN /\ UNCHANGED <<config, ctx, file>> /\ content' = "config"
    BY <1>1, <1>3, BoundsAssumption DEF TypeInv, Counted, Count, Reload, Alone
  <2> QED
    BY <1>1, <2>1, <2>2 DEF TypeInv, Counted
<1>4. ASSUME NEW c \in Connections, AskReload(c) PROVE TypeInv'
  <2>1. /\ pc' = [pc EXCEPT ![c] = "reload"] /\ pc[c] = "loaded"
        /\ arg' = arg /\ Quiet /\ UNCHANGED <<reads, requests, faults>>
    BY <1>4 DEF AskReload, Move, Quiet, bounds
  <2>2. /\ arg' = [arg EXCEPT ![c] = arg[c]]
        /\ \E x \in Configs : arg[c] = <<x>>
    BY <1>1, <2>1 DEF TypeInv, Writes, Administrating
  <2>3. Made(c)
    BY <1>1, <2>1, <2>2, WritesKept DEF Steps
  <2> QED
    BY <1>1, <2>1, <2>3 DEF TypeInv, Quiet
<1>5. ASSUME NEW c \in Connections, WriteReload(c) PROVE TypeInv'
  <2>1. /\ pc' = [pc EXCEPT ![c] = "context"] /\ pc[c] = "reload"
        /\ arg' = arg /\ UNCHANGED <<ctx, file, calm, content, reads, requests, faults>>
        /\ config' = arg[c][1]
    BY <1>5 DEF WriteReload, Move, bounds
  <2>2. /\ arg' = [arg EXCEPT ![c] = arg[c]]
        /\ \E x \in Configs : arg[c] = <<x>>
    BY <1>1, <2>1 DEF TypeInv, Writes, Administrating
  <2>3. Made(c)
    BY <1>1, <2>1, <2>2, WritesKept DEF Steps
  <2>4. config' \in Configs
    BY <2>1, <2>2
  <2> QED
    BY <1>1, <2>1, <2>3, <2>4 DEF TypeInv
<1>6. ASSUME NEW c \in Connections, WriteContext(c) PROVE TypeInv'
  <2>1. /\ pc' = [pc EXCEPT ![c] = "idle"] /\ pc[c] = "context"
        /\ arg' = [arg EXCEPT ![c] = <<>>]
        /\ UNCHANGED <<config, file, calm, content, reads, requests, faults>>
        /\ ctx' = arg[c][1].model
    BY <1>6 DEF WriteContext, Move, bounds
  <2>2. \E x \in Configs : arg[c] = <<x>>
    BY <1>1, <2>1 DEF TypeInv, Writes, Administrating
  <2>3. Made(c)
    BY <1>1, <2>1, WritesKept DEF Steps
  <2>4. ctx' \in Models \cup {NoModel}
    BY <2>1, <2>2 DEF Configs
  <2> QED
    BY <1>1, <2>1, <2>3, <2>4 DEF TypeInv
<1>7. ASSUME NEW c \in Connections, NEW m \in Models, Switch(c, m) PROVE TypeInv'
  <2>1. Made(c)
    BY <1>1, <1>7, WritesKept DEF TypeInv, Steps, Switch, Move
  <2>2. Counted' /\ calm' \in BOOLEAN /\ UNCHANGED <<config, file, content>> /\ ctx' = m
    BY <1>1, <1>7, BoundsAssumption DEF TypeInv, Counted, Count, Switch, Alone
  <2> QED
    BY <1>1, <2>1, <2>2 DEF TypeInv, Counted
<1>8. ASSUME NEW c \in Connections, AskSwitch(c) PROVE TypeInv'
  <2>1. /\ pc' = [pc EXCEPT ![c] = "switch"] /\ pc[c] = "switching"
        /\ arg' = arg /\ Quiet /\ UNCHANGED <<reads, requests, faults>>
    BY <1>8 DEF AskSwitch, Move, Quiet, bounds
  <2>2. /\ arg' = [arg EXCEPT ![c] = arg[c]]
        /\ \E x \in Models : arg[c] = <<x>>
    BY <1>1, <2>1 DEF TypeInv, Writes, Administrating
  <2>3. Made(c)
    BY <1>1, <2>1, <2>2, WritesKept DEF Steps
  <2> QED
    BY <1>1, <2>1, <2>3 DEF TypeInv, Quiet
<1>9. ASSUME NEW new \in Configs, NEW whose \in {"config", "copy", "outdated"},
             Written(new, whose)
      PROVE  /\ file' \in {<<>>} \cup {<<x>> : x \in Configs}
             /\ content' \in {"config", "copy", "outdated", "other"}
             /\ faults' \in 0 .. MaxFaults
  <2>1. CASE file' = <<new>> /\ content' = whose /\ UNCHANGED faults
    BY <1>1, <2>1 DEF TypeInv
  <2>2. CASE /\ faults < MaxFaults /\ faults' = faults + 1
             /\ file' \in {file} \cup Leftovers /\ content' = "other"
    <3>1. faults' \in 0 .. MaxFaults
      BY <1>1, <2>2, BoundsAssumption DEF TypeInv
    <3>2. file' \in {<<>>} \cup {<<x>> : x \in Configs}
      BY <1>1, <2>2, ContentsAssumption DEF TypeInv, Leftovers
    <3> QED
      BY <2>2, <3>1, <3>2
  <2> QED
    BY <1>9, <2>1, <2>2 DEF Written
<1>10. ASSUME NEW c \in Connections, WriteSwitch(c) PROVE TypeInv'
  <2> DEFINE new == [config EXCEPT !.model = arg[c][1]]
  <2>1. /\ pc' = [pc EXCEPT ![c] = "idle"] /\ pc[c] = "switch"
        /\ arg' = [arg EXCEPT ![c] = <<>>]
        /\ UNCHANGED <<ctx, reads, calm, requests>> /\ config' = new /\ Written(new, "config")
    BY <1>10 DEF WriteSwitch, Move, Saved
  <2>2. \E x \in Models : arg[c] = <<x>>
    BY <1>1, <2>1 DEF TypeInv, Writes, Administrating
  <2>3. Made(c)
    BY <1>1, <2>1, WritesKept DEF Steps
  <2>4. new \in Configs
    BY <1>1, <2>2, Changed DEF TypeInv
  <2> HIDE DEF new
  <2>5. /\ file' \in {<<>>} \cup {<<x>> : x \in Configs}
        /\ content' \in {"config", "copy", "outdated", "other"} /\ faults' \in 0 .. MaxFaults
    BY <1>9, <2>1, <2>4
  <2> QED
    BY <1>1, <2>1, <2>3, <2>4, <2>5 DEF TypeInv
<1>11. ASSUME NEW c \in Connections, NEW n \in Names, AskName(c, n) PROVE TypeInv'
  <2>1. Made(c)
    BY <1>1, <1>11, WritesKept DEF TypeInv, Steps, AskName, Move
  <2>2. Counted' /\ calm' \in BOOLEAN /\ UNCHANGED <<config, ctx, file, content>>
    BY <1>1, <1>11, BoundsAssumption DEF TypeInv, Counted, Count, AskName, Alone
  <2> QED
    BY <1>1, <2>1, <2>2 DEF TypeInv, Counted
<1>12. ASSUME NEW c \in Connections, WriteName(c) PROVE TypeInv'
  <2> DEFINE new == [config EXCEPT !.name = arg[c][1]]
  <2>1. /\ pc' = [pc EXCEPT ![c] = "idle"] /\ pc[c] = "name"
        /\ arg' = [arg EXCEPT ![c] = <<>>]
        /\ UNCHANGED <<ctx, reads, calm, requests>> /\ config' = new /\ Written(new, "config")
    BY <1>12 DEF WriteName, Move, Saved
  <2>2. \E x \in Names : arg[c] = <<x>>
    BY <1>1, <2>1 DEF TypeInv, Writes, Administrating
  <2>3. Made(c)
    BY <1>1, <2>1, WritesKept DEF Steps
  <2>4. new \in Configs
    BY <1>1, <2>2, Changed DEF TypeInv
  <2> HIDE DEF new
  <2>5. /\ file' \in {<<>>} \cup {<<x>> : x \in Configs}
        /\ content' \in {"config", "copy", "outdated", "other"} /\ faults' \in 0 .. MaxFaults
    BY <1>9, <2>1, <2>4
  <2> QED
    BY <1>1, <2>1, <2>3, <2>4, <2>5 DEF TypeInv
<1>13. ASSUME NEW new \in Leftovers, Edit(new) PROVE TypeInv'
  <2>1. file' \in {<<>>} \cup {<<x>> : x \in Configs}
    BY <1>13, ContentsAssumption DEF Edit, Leftovers
  <2>2. faults' \in 0 .. MaxFaults
    BY <1>1, <1>13, BoundsAssumption DEF TypeInv, Edit
  <2>3. UNCHANGED <<config, ctx, pc, arg, reads, calm, requests>> /\ content' = "other"
    BY <1>13 DEF Edit
  <2>4. \A c \in Connections : Writes(c)'
    BY <1>1, <2>3 DEF TypeInv, Writes, Administrating
  <2> QED
    BY <1>1, <2>1, <2>2, <2>3, <2>4 DEF TypeInv
<1>14. CASE Restart
  <2>1. PICK x \in Configs : file = <<x>>
    BY <1>1, <1>14 DEF Restart, TypeInv
  <2>2. config' = x /\ ctx' = x.model /\ file' = file
    BY <1>14, <2>1 DEF Restart
  <2>3. x.model \in Models \cup {NoModel}
    BY DEF Configs
  <2>4. \A c \in Connections : Writes(c)'
    BY <1>14 DEF Restart, Writes, Administrating
  <2>5. Counted' /\ calm' /\ content' = "config"
    BY <1>1, <1>14, BoundsAssumption DEF TypeInv, Restart, Counted
  <2>6. /\ pc' \in [Connections -> Steps]
        /\ DOMAIN arg' = Connections /\ arg' = [d \in Connections |-> arg'[d]]
    BY <1>14 DEF Restart, Steps
  <2> QED
    BY <1>1, <2>2, <2>3, <2>4, <2>5, <2>6 DEF TypeInv, Counted
<1>15. CASE UNCHANGED vars
  BY <1>1, <1>15 DEF vars, bounds, TypeInv, Writes, Administrating
<1>16. ASSUME NEW c \in Connections, NEW s \in Settings, SaveCopy(c, s) PROVE TypeInv'
  <2>1. /\ UNCHANGED <<config, ctx, pc, arg, reads>> /\ calm' = (calm /\ Alone)
        /\ requests < MaxRequests /\ requests' = requests + 1
        /\ Written(copy'[c][1], IF c \in fresh THEN "copy" ELSE "outdated")
        /\ pc[c] = "idle" /\ copy' = [copy EXCEPT ![c] = <<[copy[c][1] EXCEPT !.own = s]>>]
    BY <1>16 DEF SaveCopy
  <2>2. PICK y \in Configs : copy[c] = <<y>> /\ DOMAIN copy = Connections
    BY <2>1 DEF IInv, CopyInv
  <2>3. copy'[c][1] \in Configs
    BY <2>1, <2>2, Changed
  <2>4. /\ file' \in {<<>>} \cup {<<x>> : x \in Configs}
        /\ content' \in {"config", "copy", "outdated", "other"} /\ faults' \in 0 .. MaxFaults
    BY <1>9, <2>1, <2>3
  <2>5. requests' \in 0 .. MaxRequests /\ calm' \in BOOLEAN
    BY <1>1, <2>1, BoundsAssumption DEF TypeInv, Alone
  <2>6. \A d \in Connections : Writes(d)'
    BY <1>1, <2>1 DEF TypeInv, Writes, Administrating
  <2> QED
    BY <1>1, <2>1, <2>4, <2>5, <2>6 DEF TypeInv
<1>17. ASSUME NEW c \in Connections, NEW s \in Settings, SetDirectory(c, s) PROVE TypeInv'
  <2>1. UNCHANGED <<config, ctx, file, pc, arg, reads, calm, content>> /\ Counted'
    BY <1>1, <1>17, BoundsAssumption DEF TypeInv, SetDirectory, Count, Counted
  <2>2. \A d \in Connections : Writes(d)'
    BY <1>1, <2>1 DEF TypeInv, Writes, Administrating
  <2> QED
    BY <1>1, <2>1, <2>2 DEF TypeInv, Counted
<1> QED
  BY <1>2, <1>3, <1>4, <1>5, <1>6, <1>7, <1>8, <1>10, <1>11, <1>12, <1>13, <1>14, <1>15,
     <1>16, <1>17
  DEF Next, Goes, Chats

\* When c moves, the others stay.
LEMMA OthersGoOn ==
  ASSUME TypeInv, NEW c \in Connections, NEW to, NEW a,
         pc' = [pc EXCEPT ![c] = to], arg' = [arg EXCEPT ![c] = a]
  PROVE  /\ pc'[c] = to /\ arg'[c] = a
         /\ \A d \in Connections : d # c => pc'[d] = pc[d] /\ arg'[d] = arg[d]
BY DEF TypeInv

\* The only administration under way is that of c.
LEMMA OneUnderWay ==
  ASSUME TypeInv, CalmInv, NEW c \in Connections, NEW to, NEW a,
         pc' = [pc EXCEPT ![c] = to], arg' = [arg EXCEPT ![c] = a],
         \/ calm' /\ Alone
         \/ calm' = calm /\ Administrating(c),
         calm', HalfWay(c)',
         ~Administrating(c)' => Agree'
  PROVE  CalmInv'
<1>1. \A d \in Connections : d # c => ~Administrating(d)
  BY DEF CalmInv, Alone
<1>2. \A d \in Connections : d # c => ~Administrating(d)'
  BY <1>1, OthersGoOn DEF Administrating
<1>3. \A d \in Connections : d # c => HalfWay(d)'
  BY <1>2 DEF HalfWay, Administrating
<1>4. Alone' => Agree'
  BY DEF Alone
<1> QED
  BY <1>2, <1>3, <1>4 DEF CalmInv

\* Agreement, in every action.
LEMMA StepKeepsCalm ==
  ASSUME IInv, [Next]_vars
  PROVE  CalmInv'
<1>1. TypeInv /\ CalmInv
  BY DEF IInv
<1> SUFFICES ASSUME calm' PROVE CalmInv'
  BY DEF CalmInv
<1>2. ASSUME NEW c \in Connections, Chats(c) PROVE CalmInv'
  <2>1. PICK to \in {"away", "connecting", "idle", "chat", "reading"} :
             pc' = [pc EXCEPT ![c] = to]
    BY <1>2 DEF Chats, Connect, Connected, Leave, Chat, ReadAgain, DoneReading, EndChat, Move
  <2>2. pc[c] \in {"away", "connecting", "idle", "chat", "reading"} /\ Quiet /\ arg' = arg
    BY <1>2 DEF Chats, Connect, Connected, Leave, Chat, ReadAgain, DoneReading, EndChat, Move, Quiet
  <2>3. \A d \in Connections : Administrating(d)' <=> Administrating(d)
    BY <1>1, <2>1, <2>2 DEF TypeInv, Administrating
  <2>4. \A d \in Connections : pc'[d] \in {"loaded", "reload", "context", "switching", "switch", "name"}
                                => pc'[d] = pc[d]
    BY <1>1, <2>1, <2>2 DEF TypeInv
  <2>5. \A d \in Connections : HalfWay(d) => HalfWay(d)'
    BY <2>2, <2>4 DEF HalfWay, Quiet, Stored, Saves, Agree
  <2>6. Agree => Agree'
    BY <2>2 DEF Quiet, Stored, Saves, Agree
  <2>7. Alone' => Alone
    BY <2>3 DEF Alone
  <2>8. calm
    BY <2>2 DEF Quiet
  <2> QED
    BY <1>1, <2>3, <2>5, <2>6, <2>7, <2>8 DEF CalmInv
<1>3. ASSUME NEW c \in Connections, Reload(c) PROVE CalmInv'
  <2>1. /\ pc' = [pc EXCEPT ![c] = "loaded"] /\ arg' = [arg EXCEPT ![c] = file]
        /\ Alone /\ file' = file /\ file # <<>>
    BY <1>3 DEF Reload, Move
  <2>2. PICK x \in Configs : file = <<x>>
    BY <1>1, <2>1 DEF TypeInv
  <2>3. pc'[c] = "loaded" /\ arg'[c] = file
    BY <1>1, <2>1 DEF TypeInv
  <2>4. content' = "config" /\ arg'[c][1] = x /\ file' = <<x>>
    BY <1>3, <2>1, <2>2, <2>3 DEF Reload
  <2>5. HalfWay(c)' /\ Administrating(c)'
    BY <2>3, <2>4 DEF HalfWay, Stored, Administrating
  <2> QED
    BY <1>1, <2>1, <2>5, OneUnderWay
<1>4. ASSUME NEW c \in Connections, AskReload(c) PROVE CalmInv'
  <2>1. /\ pc' = [pc EXCEPT ![c] = "reload"] /\ pc[c] = "loaded"
        /\ arg' = arg /\ Quiet
    BY <1>4 DEF AskReload, Move, Quiet
  <2>2. arg' = [arg EXCEPT ![c] = arg[c]]
    BY <1>1, <2>1 DEF TypeInv
  <2>3. pc'[c] = "reload" /\ HalfWay(c)
    BY <1>1, <2>1 DEF TypeInv, CalmInv, Quiet
  <2>4. HalfWay(c)' /\ Administrating(c)' /\ Administrating(c) /\ calm' = calm
    BY <2>1, <2>3 DEF HalfWay, Stored, Saves, Administrating, Quiet
  <2> QED
    BY <1>1, <2>1, <2>2, <2>4, OneUnderWay
<1>5. ASSUME NEW c \in Connections, WriteReload(c) PROVE CalmInv'
  <2>1. /\ pc' = [pc EXCEPT ![c] = "context"] /\ pc[c] = "reload"
        /\ arg' = arg /\ UNCHANGED <<ctx, file, calm, content>>
        /\ config' = arg[c][1]
    BY <1>5 DEF WriteReload, Move
  <2>2. arg' = [arg EXCEPT ![c] = arg[c]]
    BY <1>1, <2>1 DEF TypeInv
  <2>3. pc'[c] = "context" /\ HalfWay(c)
    BY <1>1, <2>1 DEF TypeInv, CalmInv
  <2>4. HalfWay(c)' /\ Administrating(c)' /\ Administrating(c)
    BY <2>1, <2>3 DEF HalfWay, Stored, Saves, Administrating
  <2> QED
    BY <1>1, <2>1, <2>2, <2>4, OneUnderWay
<1>6. ASSUME NEW c \in Connections, WriteContext(c) PROVE CalmInv'
  <2>1. /\ pc' = [pc EXCEPT ![c] = "idle"] /\ pc[c] = "context"
        /\ arg' = [arg EXCEPT ![c] = <<>>]
        /\ UNCHANGED <<config, file, calm, content>>
        /\ ctx' = arg[c][1].model
    BY <1>6 DEF WriteContext, Move
  <2>2. pc'[c] = "idle" /\ HalfWay(c)
    BY <1>1, <2>1 DEF TypeInv, CalmInv
  <2>3. HalfWay(c)' /\ Administrating(c) /\ Agree'
    BY <2>1, <2>2 DEF HalfWay, Stored, Saves, Administrating, Agree
  <2> QED
    BY <1>1, <2>1, <2>3, OneUnderWay
<1>7. ASSUME NEW c \in Connections, NEW m \in Models, Switch(c, m) PROVE CalmInv'
  <2>1. /\ pc' = [pc EXCEPT ![c] = "switching"] /\ arg' = [arg EXCEPT ![c] = <<m>>]
        /\ Alone /\ ctx' = m
    BY <1>7 DEF Switch, Move
  <2>2. pc'[c] = "switching" /\ arg'[c] = <<m>>
    BY <1>1, <2>1 DEF TypeInv
  <2>3. HalfWay(c)' /\ Administrating(c)'
    BY <2>1, <2>2 DEF HalfWay, Administrating
  <2> QED
    BY <1>1, <2>1, <2>3, OneUnderWay
<1>8. ASSUME NEW c \in Connections, AskSwitch(c) PROVE CalmInv'
  <2>1. /\ pc' = [pc EXCEPT ![c] = "switch"] /\ pc[c] = "switching"
        /\ arg' = arg /\ Quiet
    BY <1>8 DEF AskSwitch, Move, Quiet
  <2>2. arg' = [arg EXCEPT ![c] = arg[c]]
    BY <1>1, <2>1 DEF TypeInv
  <2>3. pc'[c] = "switch" /\ HalfWay(c)
    BY <1>1, <2>1 DEF TypeInv, CalmInv, Quiet
  <2>4. HalfWay(c)' /\ Administrating(c)' /\ Administrating(c) /\ calm' = calm
    BY <2>1, <2>3 DEF HalfWay, Administrating, Quiet
  <2> QED
    BY <1>1, <2>1, <2>2, <2>4, OneUnderWay
<1>9. ASSUME NEW c \in Connections, WriteSwitch(c) PROVE CalmInv'
  <2> DEFINE new == [config EXCEPT !.model = arg[c][1]]
  <2>1. /\ pc' = [pc EXCEPT ![c] = "idle"] /\ pc[c] = "switch"
        /\ arg' = [arg EXCEPT ![c] = <<>>]
        /\ UNCHANGED <<ctx, calm>> /\ config' = new /\ Written(new, "config")
    BY <1>9 DEF WriteSwitch, Move, Saved
  <2>2. pc'[c] = "idle" /\ HalfWay(c) /\ Administrating(c)
    BY <1>1, <2>1 DEF TypeInv, CalmInv, Administrating
  <2>3. Stored(config)'
    BY <2>1 DEF Written, Stored
  <2>4. config'.model = arg[c][1]
    BY <1>1, <2>1 DEF TypeInv, Configs
  <2>5. HalfWay(c)' /\ Agree'
    BY <2>1, <2>2, <2>3, <2>4 DEF HalfWay, Agree
  <2> QED
    BY <1>1, <2>1, <2>2, <2>5, OneUnderWay
<1>10. ASSUME NEW c \in Connections, NEW n \in Names, AskName(c, n) PROVE CalmInv'
  <2>1. /\ pc' = [pc EXCEPT ![c] = "name"] /\ arg' = [arg EXCEPT ![c] = <<n>>]
        /\ Alone /\ calm /\ UNCHANGED <<config, ctx, file, content>>
    BY <1>10 DEF AskName, Move
  <2>2. pc'[c] = "name" /\ Agree
    BY <1>1, <2>1, OthersGoOn DEF CalmInv
  <2>3. HalfWay(c)' /\ Administrating(c)'
    BY <2>1, <2>2 DEF HalfWay, Administrating, Agree, Stored, Saves
  <2> QED
    BY <1>1, <2>1, <2>3, OneUnderWay
<1>11. ASSUME NEW c \in Connections, WriteName(c) PROVE CalmInv'
  <2> DEFINE new == [config EXCEPT !.name = arg[c][1]]
  <2>1. /\ pc' = [pc EXCEPT ![c] = "idle"] /\ pc[c] = "name"
        /\ arg' = [arg EXCEPT ![c] = <<>>]
        /\ UNCHANGED <<ctx, calm>> /\ config' = new /\ Written(new, "config")
    BY <1>11 DEF WriteName, Move, Saved
  <2>2. pc'[c] = "idle" /\ HalfWay(c) /\ Administrating(c)
    BY <1>1, <2>1 DEF TypeInv, CalmInv, Administrating
  <2>3. Stored(config)'
    BY <2>1 DEF Written, Stored
  <2>4. config'.model = config.model
    BY <1>1, <2>1 DEF TypeInv, Configs
  <2>5. HalfWay(c)' /\ Agree'
    BY <2>1, <2>2, <2>3, <2>4 DEF HalfWay, Agree
  <2> QED
    BY <1>1, <2>1, <2>2, <2>5, OneUnderWay
<1>12. ASSUME NEW new, Edit(new) PROVE CalmInv'
  BY <1>1, <1>12 DEF Edit, CalmInv, Administrating, Alone, Agree, Stored, HalfWay
<1>13. CASE Restart
  <2>1. \A c \in Connections : ~Administrating(c)' /\ HalfWay(c)'
    BY <1>13 DEF Restart, Administrating, HalfWay
  <2>2. PICK x \in Configs : file = <<x>>
    BY <1>1, <1>13 DEF Restart, TypeInv
  <2>3. Agree'
    BY <1>13, <2>2 DEF Restart, Agree, Stored
  <2> QED
    BY <2>1, <2>3 DEF CalmInv
<1>14. CASE UNCHANGED vars
  BY <1>1, <1>14 DEF vars, CalmInv, Administrating, Alone, Agree, Stored, Saves, HalfWay
<1>15. ASSUME NEW c \in Connections, NEW s \in Settings, SaveCopy(c, s) PROVE CalmInv'
  <2>1. /\ UNCHANGED <<config, ctx, pc, arg>> /\ calm /\ Alone
        /\ Written(copy'[c][1], IF c \in fresh THEN "copy" ELSE "outdated")
        /\ pc[c] = "idle" /\ copy' = [copy EXCEPT ![c] = <<[copy[c][1] EXCEPT !.own = s]>>]
    BY <1>15 DEF SaveCopy
  <2>2. PICK y \in Configs : copy[c] = <<y>> /\ DOMAIN copy = Connections
    BY <2>1 DEF IInv, CopyInv
  <2>3. Same(copy'[c][1], y)
    BY <2>1, <2>2, Changed
  <2>4. c \in fresh => Same(copy'[c][1], config)
    BY <2>2, <2>3 DEF IInv, CopyInv, Same
  <2>5. Stored(config)'
    <3>1. content' # "config"
      BY <2>1 DEF Written
    <3> DEFINE z == copy'[c][1]
    <3> HIDE DEF z
    <3>2. ASSUME content' = "copy" PROVE c \in fresh /\ file' = <<z>>
      BY <2>1, <3>2 DEF Written, z
    <3>3. ASSUME content' = "copy" PROVE file' # <<>> /\ file'[1] = z
      BY <3>2, <3>3
    <3>4. ASSUME content' = "copy" PROVE Saves(config)'
      BY <2>1, <2>4, <3>2, <3>3, <3>4 DEF Saves, Same, z
    <3> QED
      BY <3>1, <3>4 DEF Stored
  <2>6. Agree' /\ Alone'
    BY <1>1, <2>1, <2>5 DEF CalmInv, Agree, Alone, Administrating
  <2>7. \A d \in Connections : ~Administrating(d)' /\ HalfWay(d)'
    BY <2>6 DEF Alone, HalfWay, Administrating
  <2> QED
    BY <2>6, <2>7 DEF CalmInv
<1>16. ASSUME NEW c \in Connections, NEW s \in Settings, SetDirectory(c, s) PROVE CalmInv'
  BY <1>1, <1>16 DEF SetDirectory, CalmInv, Administrating, Alone, Agree, Stored, Saves, HalfWay
<1> QED
  BY <1>2, <1>3, <1>4, <1>5, <1>6, <1>7, <1>8, <1>9, <1>10, <1>11, <1>12, <1>13, <1>14,
     <1>15, <1>16
  DEF Next, Goes, Chats

-----------------------------------------------------------------------------
(* Who waits for whom. *)

\* Only administrations write, and who waits for a guard, or holds it, is in
\* the line with it.
Queued(l, p) ==
  /\ \A i \in DOMAIN l : l[i].mode = "write" <=> l[i].use = "admin"
  /\ \A c \in Connections : \A use \in Uses :
       p[c] \in Places(use) => \E i \in DOMAIN l : l[i].by = c /\ l[i].use = use

\* A request at the end of the line leaves those before it where they are.
LEMMA Appended ==
  ASSUME NEW l \in Seq(Asks), NEW r
  PROVE  LET m == Append(l, r) IN
         /\ DOMAIN m = 1 .. Len(l) + 1 /\ DOMAIN l = 1 .. Len(l) /\ Len(l) \in Nat
         /\ m[Len(l) + 1] = r
         /\ \A i \in DOMAIN l : m[i] = l[i] /\ i \in DOMAIN m
         /\ \A i \in DOMAIN m : i \in DOMAIN l \/ i = Len(l) + 1
OBVIOUS

\* What is behind a guard that is given back moves up, in the same order.
Up(i, k) == IF i < k THEN i ELSE i - 1
LEMMA MovedUp ==
  ASSUME NEW l \in Seq(Asks), NEW k \in DOMAIN l
  PROVE  LET m == Without(l, k) IN
         /\ \A i \in DOMAIN l \ {k} : Up(i, k) \in DOMAIN m /\ m[Up(i, k)] = l[i]
         /\ \A i, j \in DOMAIN l \ {k} : i <= j => Up(i, k) <= Up(j, k)
         /\ \A j \in DOMAIN m : \E i \in DOMAIN l \ {k} : m[j] = l[i]
<1> DEFINE m == Without(l, k)
<1>1. DOMAIN l = 1 .. Len(l) /\ Len(l) \in Nat /\ k \in 1 .. Len(l)
  OBVIOUS
<1>2. /\ DOMAIN m = 1 .. Len(l) - 1
      /\ \A j \in DOMAIN m : m[j] = l[IF j < k THEN j ELSE j + 1]
  BY DEF Without
<1> HIDE DEF m
<1>3. ASSUME NEW i \in DOMAIN l \ {k}
      PROVE  /\ Up(i, k) \in DOMAIN m
             /\ (IF Up(i, k) < k THEN Up(i, k) ELSE Up(i, k) + 1) = i
  BY <1>1, <1>2 DEF Up
<1>4. \A i, j \in DOMAIN l \ {k} : i <= j => Up(i, k) <= Up(j, k)
  BY <1>1 DEF Up
<1>5. \A j \in DOMAIN m : (IF j < k THEN j ELSE j + 1) \in DOMAIN l \ {k}
  BY <1>1, <1>2
<1> QED
  BY <1>2, <1>3, <1>4, <1>5 DEF m

\* Everybody who waits is in the line, after every step.
LEMMA StepKeepsQueued ==
  ASSUME IInv, Queued(line, pc), [Next]_vars
  PROVE  Queued(line, pc)'
<1> USE DEF IInv
<1>1. line \in Seq(Asks) /\ pc \in [Connections -> Steps]
  BY DEF Placed, TypeInv
<1>2. CASE Restart
  BY <1>2 DEF Restart, Queued, Places
<1>3. CASE UNCHANGED <<line, pc>>
  BY <1>3 DEF Queued
<1>4. ASSUME NEW c \in Connections, NEW to \in Steps, Moves(c, to), SameBut(c, "none", to)
      PROVE  Queued(line, pc)'
  <2>1. \A d \in Connections, use \in Uses : pc'[d] \in Places(use) => pc[d] \in Places(use)
    BY <1>1, <1>4 DEF Moves, SameBut, Uses
  <2> QED
    BY <1>4, <2>1 DEF Queued, Moves
<1>5. ASSUME NEW c \in Connections, NEW use \in Uses, NEW mode \in {"read", "write"},
             NEW to \in Steps, AsksFor(c, mode, use, to), SameBut(c, use, to),
             mode = "write" <=> use = "admin"
      PROVE  Queued(line, pc)'
  <2> DEFINE r == [by |-> c, mode |-> mode, use |-> use]
  <2>1. line' = Append(line, r) /\ pc' = [pc EXCEPT ![c] = to]
    BY <1>5 DEF AsksFor, Request
  <2>2. r.by = c /\ r.use = use /\ r.mode = mode
    OBVIOUS
  <2> HIDE DEF r
  <2>3. /\ line'[Len(line) + 1] = r /\ Len(line) + 1 \in DOMAIN line'
        /\ \A i \in DOMAIN line : line'[i] = line[i] /\ i \in DOMAIN line'
        /\ \A i \in DOMAIN line' : i \in DOMAIN line \/ i = Len(line) + 1
    BY <1>1, <2>1, Appended
  <2>4. \A i \in DOMAIN line' : line'[i].mode = "write" <=> line'[i].use = "admin"
    BY <1>5, <2>2, <2>3 DEF Queued
  <2>5. ASSUME NEW d \in Connections, NEW other \in Uses, pc'[d] \in Places(other)
        PROVE  \E i \in DOMAIN line' : line'[i].by = d /\ line'[i].use = other
    <3>1. CASE d = c /\ other = use
      BY <2>2, <2>3, <3>1
    <3>2. CASE ~(d = c /\ other = use)
      <4>1. pc[d] \in Places(other)
        BY <1>1, <1>5, <2>1, <2>5, <3>2 DEF SameBut
      <4> QED
        BY <2>3, <4>1 DEF Queued
    <3> QED
      BY <3>1, <3>2
  <2> QED
    BY <2>4, <2>5 DEF Queued
<1>6. ASSUME NEW c \in Connections, NEW use \in Uses, NEW to \in Steps,
             Frees(c, use, to), SameBut(c, use, to), to \notin Places(use)
      PROVE  Queued(line, pc)'
  <2>1. PICK k \in DOMAIN line : /\ line[k].by = c /\ line[k].use = use
                                 /\ line' = Without(line, k)
    BY <1>6, Given DEF Frees
  <2>2. /\ \A i \in DOMAIN line \ {k} : \E j \in DOMAIN line' : line'[j] = line[i]
        /\ \A j \in DOMAIN line' : \E i \in DOMAIN line \ {k} : line'[j] = line[i]
    BY <1>1, <2>1, MovedUp
  <2>3. \A i \in DOMAIN line' : line'[i].mode = "write" <=> line'[i].use = "admin"
    BY <2>2 DEF Queued
  <2>4. ASSUME NEW d \in Connections, NEW other \in Uses, pc'[d] \in Places(other)
        PROVE  \E i \in DOMAIN line' : line'[i].by = d /\ line'[i].use = other
    <3>1. ~(d = c /\ other = use) /\ pc[d] \in Places(other)
      BY <1>1, <1>6, <2>4 DEF Frees, SameBut
    <3>2. PICK i \in DOMAIN line : line[i].by = d /\ line[i].use = other
      BY <3>1 DEF Queued
    <3>3. i # k
      BY <2>1, <3>1, <3>2
    <3> QED
      BY <2>2, <3>2, <3>3
  <2> QED
    BY <2>3, <2>4 DEF Queued
<1> QED
  BY <1>2, <1>3, <1>4, <1>5, <1>6, StepOfLine DEF LineStep

\* The head of the line has its guard. Its connection goes on with it, or it
\* holds the guard of a chat and asks for another one: what holds that up is a
\* write between the two.
LEMMA HeadCanGo ==
  ASSUME IInv, Queued(line, pc)
  PROVE  FrontCanGo
<1> USE DEF IInv
<1> SUFFICES ASSUME ~Crossed, NEW c \in Connections, NEW use \in WaitsFor(c)
             PROVE  \E k \in At(c, use) : \E i \in 1 .. k : CanGo(line[i].by)
  BY DEF FrontCanGo
<1>1. line \in Seq(Asks) /\ pc \in [Connections -> Steps]
  BY DEF Placed, TypeInv
<1>2. DOMAIN line = 1 .. Len(line) /\ Len(line) \in Nat
  BY <1>1
<1>3. \A i \in DOMAIN line : line[i] \in Asks
  BY <1>1
<1>4. use \in Uses /\ pc[c] \in Places(use)
  BY <1>1 DEF WaitsFor, Places
<1>5. PICK k \in DOMAIN line : line[k].by = c /\ line[k].use = use
  BY <1>4 DEF Queued
<1>6. k \in At(c, use) /\ 1 \in 1 .. k /\ 1 \in DOMAIN line
  BY <1>2, <1>5 DEF At
<1> DEFINE d == line[1].by
           u == line[1].use
<1>7. d \in Connections /\ u \in Uses /\ pc[d] \in Places(u) /\ 1 \in At(d, u)
  BY <1>3, <1>6 DEF Placed, Asks, At
<1>8. Holds(1)
  BY <1>3, <1>6 DEF Holds, Asks
<1>9. Busy(d)
  BY <1>7 DEF Busy, Places
<1>10. Granted(d, u)
  BY <1>7, <1>8 DEF Granted
<1> HIDE DEF d, u
<1>11. CASE ~(u = "chat" /\ pc[d] = "reading")
  <2>1. WaitsFor(d) \subseteq {u}
    BY <1>7, <1>11 DEF WaitsFor, Places
  <2> QED
    BY <1>6, <1>9, <1>10, <2>1 DEF CanGo, d
<1>12. CASE u = "chat" /\ pc[d] = "reading"
  <2>1. PICK q \in DOMAIN line : line[q].by = d /\ line[q].use = "dispatch"
    BY <1>7, <1>12 DEF Queued, Places, Uses
  <2>2. q \in At(d, "dispatch")
    BY <2>1 DEF At
  <2>3. \A j \in 1 .. q : line[j].mode = "read"
    <3>1. \A j \in 1 .. q : j \in DOMAIN line
      BY <1>2
    <3>2. \A j \in 1 .. q : line[j].mode # "write"
      BY <1>7, <1>12, <2>2 DEF Crossed
    <3> QED
      BY <1>3, <3>1, <3>2 DEF Asks
  <2>4. Holds(q)
    <3>1. line[q].mode # "write"
      BY <2>1 DEF Queued
    <3> QED
      BY <2>3, <3>1 DEF Holds
  <2>5. WaitsFor(d) \subseteq {"dispatch"} /\ Granted(d, "dispatch")
    BY <1>12, <2>2, <2>4 DEF WaitsFor, Granted
  <2> QED
    BY <1>6, <1>9, <2>5 DEF CanGo, d
<1> QED
  BY <1>11, <1>12

\* The chat, its other request and the writer in between stay in the line.
LEMMA CrossedStays ==
  ASSUME IInv, Queued(line, pc), [Next]_vars, Crossed
  PROVE  Crossed' \/ Restart
<1> USE DEF IInv
<1>1. /\ line \in Seq(Asks) /\ pc \in [Connections -> Steps]
      /\ DOMAIN line = 1 .. Len(line) /\ Len(line) \in Nat
  BY DEF Placed, TypeInv
<1>a. PICK d \in Connections : \E i \in At(d, "chat"), q \in At(d, "dispatch") :
                                \E j \in i .. q : line[j].mode = "write"
  BY DEF Crossed
<1>b. PICK i \in At(d, "chat"), q \in At(d, "dispatch") : \E j \in i .. q : line[j].mode = "write"
  BY <1>a
<1>2. PICK j \in i .. q : line[j].mode = "write"
  BY <1>b
<1>3. /\ i \in DOMAIN line /\ q \in DOMAIN line /\ j \in DOMAIN line
      /\ line[i].by = d /\ line[i].use = "chat" /\ line[q].by = d /\ line[q].use = "dispatch"
      /\ i <= j /\ j <= q
  BY <1>1, <1>2 DEF At
<1>4. line[j].use = "admin" /\ line[i].mode # "write" /\ line[q].mode # "write" /\ i # j
  BY <1>2, <1>3 DEF Queued
<1>5. pc[d] = "reading"
  BY <1>3 DEF Placed, Places
\* The three requests are found again, in the same order.
<1>6. ASSUME NEW a \in DOMAIN line', NEW b \in DOMAIN line', NEW w \in DOMAIN line',
             line'[a] = line[i], line'[b] = line[q], line'[w] = line[j], a <= w, w <= b,
             line' \in Seq(Asks)
      PROVE  Crossed'
  <2>1. a \in At(d, "chat")' /\ b \in At(d, "dispatch")' /\ line'[w].mode = "write"
    BY <1>2, <1>3, <1>6 DEF At
  <2>2. w \in a .. b
    BY <1>6
  <2> QED
    BY <2>1, <2>2 DEF Crossed
<1>7. line' \in Seq(Asks)
  BY StepKeepsPlaced DEF Placed
<1>8. CASE UNCHANGED line
  BY <1>3, <1>6, <1>7, <1>8
<1>9. ASSUME NEW c, NEW mode, NEW use, NEW to, AsksFor(c, mode, use, to)
      PROVE  Crossed'
  <2>1. \A p \in DOMAIN line : line'[p] = line[p] /\ p \in DOMAIN line'
    BY <1>1, <1>9, Appended DEF AsksFor, Request
  <2> QED
    BY <1>3, <1>6, <1>7, <2>1
<1>10. ASSUME NEW c \in Connections, NEW use \in Uses, NEW to \in Steps,
              Frees(c, use, to), SameBut(c, use, to), to \notin Places(use)
       PROVE  Crossed'
  <2>1. PICK k \in DOMAIN line : /\ line[k].by = c /\ line[k].use = use
                                 /\ line' = Without(line, k)
    BY <1>10, Given DEF Frees
  <2>2. PICK g \in At(c, use) : Holds(g)
    BY <1>10 DEF Frees, Granted
  <2>3. g = k
    BY <2>1, <2>2, OwnAsks DEF At
  <2>4. k # j
    <3>1. CASE k = j
      <4>1. j = 1
        BY <1>2, <2>2, <2>3, <3>1 DEF Holds
      <4> QED
        BY <1>1, <1>3, <1>4, <4>1
    <3> QED
      BY <3>1
  <2>5. k # q
    <3>1. CASE k = q
      <4>1. line[j].mode = "read"
        BY <1>1, <1>3, <1>4, <2>2, <2>3, <3>1 DEF Holds
      <4> QED
        BY <1>2, <4>1
    <3> QED
      BY <3>1
  <2>6. k # i
    <3>1. CASE k = i
      <4>1. c = d /\ use = "chat"
        BY <1>3, <2>1, <3>1
      <4>2. to = "reading"
        BY <1>5, <1>10, <4>1 DEF SameBut, Places, Uses, Steps
      <4> QED
        BY <1>10, <4>1, <4>2 DEF Places, Steps
    <3> QED
      BY <3>1
  <2>7. /\ \A p \in DOMAIN line \ {k} : Up(p, k) \in DOMAIN line' /\ line'[Up(p, k)] = line[p]
        /\ \A p, r \in DOMAIN line \ {k} : p <= r => Up(p, k) <= Up(r, k)
    BY <1>1, <2>1, MovedUp
  <2>8. i \in DOMAIN line \ {k} /\ q \in DOMAIN line \ {k} /\ j \in DOMAIN line \ {k}
    BY <1>3, <2>4, <2>5, <2>6
  <2> QED
    BY <1>3, <1>6, <1>7, <2>7, <2>8
<1> QED
  BY <1>8, <1>9, <1>10, StepOfLine DEF LineStep, Moves

-----------------------------------------------------------------------------
(* The theorems. *)

\* The invariant holds for good.
LEMMA Inductive == Spec => []IInv
<1>1. IInv /\ [Next]_vars => IInv'
  BY StepKeepsPlaced, StepKeepsTypes, StepKeepsCopies, StepKeepsCalm DEF IInv
<1> QED
  BY <1>1, InitInv, PTL DEF Spec

\* It has the types of the specification.
LEMMA InvTypes == IInv => TypeOK
<1> SUFFICES ASSUME IInv PROVE TypeOK
  OBVIOUS
<1>1. arg \in [Connections -> {<<>>} \cup {<<x>> : x \in Configs \cup Models \cup Names}]
  <2>1. \A c \in Connections :
          arg[c] \in {<<>>} \cup {<<x>> : x \in Configs \cup Models \cup Names}
    BY DEF IInv, TypeInv, Writes
  <2> QED
    BY <2>1 DEF IInv, TypeInv
<1>2. \A i \in DOMAIN line : At(line[i].by, line[i].use) = {i}
  BY DEF IInv, Placed, At
<1>3. copy \in [Connections -> {<<>>} \cup {<<x>> : x \in Configs}]
  <2>1. \A c \in Connections : copy[c] \in {<<>>} \cup {<<x>> : x \in Configs}
    BY DEF IInv, CopyInv
  <2> QED
    BY <2>1 DEF IInv, CopyInv
<1>4. \A c \in Connections : copy[c] = <<>> <=> pc[c] \in {"away", "connecting"}
  BY DEF IInv, CopyInv
<1>5. fresh \subseteq Connections
  BY DEF IInv, CopyInv
<1> QED
  BY <1>1, <1>2, <1>3, <1>4, <1>5 DEF IInv, TypeInv, Placed, TypeOK, Steps

\* Types, and the discipline of the guards: whatever the connections do, none
\* has two requests for one use in the line of the lock.
THEOREM ConfigTypes == Spec => []TypeOK
BY Inductive, InvTypes, PTL

\* Between administrations that did not overlap, the model context agrees with
\* the configuration, and the file with it as far as the last save goes: in all
\* if the shared configuration was saved, in model and name if a copy was that
\* had missed no write (admin.rs: handle_reload, handle_model_switch and
\* handle_set_agent_name; panel_handler.rs and server.rs: the saves of a copy),
\* for any number of connections.  Of a file that was edited, not saved, or last
\* saved from a copy that had missed a write, it says nothing.
THEOREM ConfigAgrees == Spec => []AgreeWhenCalm
<1>1. IInv => AgreeWhenCalm
  BY DEF IInv, CalmInv, Agree, Stored, AgreeWhenCalm
<1> QED
  BY <1>1, Inductive, PTL

\* No deadlock but the one of a write between two guards of a chat: whoever
\* waits for the lock (chat.rs and dispatch.rs to read, admin.rs to write) is
\* behind a connection that can go on, or can go on itself.
THEOREM FrontGoesOn == Spec => []FrontCanGo
<1>1. Init => Queued(line, pc)
  BY DEF Init, Queued, Places
<1> QED
  BY <1>1, Inductive, StepKeepsQueued, HeadCanGo, PTL DEF Spec

\* And that one is for good: once a write waits between two guards of a chat
\* (chat.rs:216 and the reads of the dispatch below it), it does so until the
\* gateway is started anew.
THEOREM CrossingIsFinal == Spec => CrossedForGood
<1>1. Init => Queued(line, pc)
  BY DEF Init, Queued, Places
<1>2. IInv /\ Queued(line, pc) /\ [Next]_vars => [Crossed => Crossed' \/ Restart]_vars
  BY CrossedStays
<1> QED
  BY <1>1, <1>2, Inductive, StepKeepsQueued, PTL DEF Spec, CrossedForGood

\* Everything a connection has begun has an end (chat.rs, admin.rs): each of its
\* steps leaves less to do, for any number of guards that a dispatch may take.
\* With FrontGoesOn this is what OnlyCrossingsBlock needs beside fairness.
THEOREM EveryUseEnds == Spec => GoingOnEnds
<1> DEFINE Nearer(d) == \/ StepsLeft(d)' < StepsLeft(d)
                        \/ StepsLeft(d)' = StepsLeft(d) /\ ~Goes(d)
<1>1. ASSUME TypeInv, [Next]_vars, ~UNCHANGED vars, NEW d \in Connections, Busy(d)
      PROVE  Nearer(d)
  <2>0. /\ pc \in [Connections -> Steps] /\ reads \in [Connections -> 0 .. MaxReads]
        /\ pc[d] \in Steps /\ reads[d] \in 0 .. MaxReads /\ MaxReads \in Nat
        /\ MaxReads - reads[d] \in Nat
    BY <1>1, BoundsAssumption DEF TypeInv
  <2>1. StepsLeft(d) > 0 /\ pc[d] \notin {"away", "idle"}
    BY <1>1, <2>0 DEF StepsLeft, Busy, Steps
  \* What another connection does.
  <2>2. ASSUME NEW c \in Connections, c # d, NEW to, pc' = [pc EXCEPT ![c] = to],
               UNCHANGED reads \/ \E n : reads' = [reads EXCEPT ![c] = n]
        PROVE  Nearer(d)
    <3>1. pc'[d] = pc[d] /\ reads'[d] = reads[d]
      BY <2>0, <2>2
    <3>2. StepsLeft(d)' = StepsLeft(d)
      BY <3>1 DEF StepsLeft
    <3>3. CASE Goes(d)
      <4>1. pc'[d] # pc[d]
        BY <2>0, <3>3 DEF Goes, Connected, ReadAgain, DoneReading, EndChat, AskReload,
           WriteReload, WriteContext, AskSwitch, WriteSwitch, WriteName, Move
      <4> QED
        BY <3>1, <4>1
    <3> QED
      BY <3>2, <3>3
  \* What this one does.
  <2>3. CASE Goes(d)
    <3>1. \E to : pc' = [pc EXCEPT ![d] = to]
      BY <2>3 DEF Goes, Connected, ReadAgain, DoneReading, EndChat, AskReload, WriteReload,
         WriteContext, AskSwitch, WriteSwitch, WriteName, Move
    <3>2. CASE \/ Connected(d) \/ AskReload(d) \/ WriteReload(d) \/ WriteContext(d)
               \/ AskSwitch(d) \/ WriteSwitch(d) \/ WriteName(d)
      <4>1. \/ pc[d] \in {"connecting", "context", "switch", "name"} /\ pc'[d] = "idle"
            \/ pc[d] = "loaded" /\ pc'[d] = "reload"
            \/ pc[d] = "reload" /\ pc'[d] = "context"
            \/ pc[d] = "switching" /\ pc'[d] = "switch"
        BY <2>0, <3>2 DEF Connected, AskReload, WriteReload, WriteContext, AskSwitch,
           WriteSwitch, WriteName, Move
      <4> QED
        BY <4>1 DEF StepsLeft
    <3>3. CASE ReadAgain(d)
      <4>1. /\ pc[d] = "chat" /\ pc'[d] = "reading"
            /\ reads'[d] = reads[d] + 1
        BY <2>0, <3>3 DEF ReadAgain, Move
      <4>2. StepsLeft(d) = 2 * (MaxReads - reads[d]) + 1
        BY <4>1 DEF StepsLeft
      <4>3. StepsLeft(d)' = 2 * (MaxReads - (reads[d] + 1)) + 2
        BY <4>1 DEF StepsLeft
      <4> QED
        BY <2>0, <4>2, <4>3
    <3>4. CASE DoneReading(d)
      <4>1. /\ pc[d] = "reading" /\ pc'[d] = "chat" /\ reads' = reads
        BY <2>0, <3>4 DEF DoneReading, Move
      <4> QED
        BY <2>0, <4>1 DEF StepsLeft
    <3>5. CASE EndChat(d)
      <4>1. pc'[d] \in {"idle", "away"}
        BY <2>0, <3>5 DEF EndChat, Move
      <4> QED
        BY <2>1, <4>1 DEF StepsLeft
    <3> QED
      BY <2>3, <3>2, <3>3, <3>4, <3>5 DEF Goes
  <2>4. ASSUME NEW c \in Connections, Goes(c), c # d PROVE Nearer(d)
    <3>1. /\ \E to : pc' = [pc EXCEPT ![c] = to]
          /\ UNCHANGED reads \/ \E n : reads' = [reads EXCEPT ![c] = n]
      BY <2>4 DEF Goes, Connected, ReadAgain, DoneReading, EndChat, AskReload, WriteReload,
         WriteContext, AskSwitch, WriteSwitch, WriteName, Move
    <3> QED
      BY <2>2, <2>4, <3>1
  <2>5. ASSUME NEW c \in Connections,
               \/ Connect(c) \/ Leave(c) \/ Chat(c) \/ Reload(c)
               \/ (\E m \in Models : Switch(c, m)) \/ (\E n \in Names : AskName(c, n))
        PROVE  Nearer(d)
    <3>1. /\ pc[c] \in {"away", "idle"} /\ UNCHANGED reads
          /\ \E to : pc' = [pc EXCEPT ![c] = to]
      BY <2>5 DEF Connect, Leave, Chat, Reload, Switch, AskName, Move
    <3>2. c # d
      BY <2>1, <3>1
    <3> QED
      BY <2>2, <2>5, <3>1, <3>2
  <2>6. CASE \/ \E c \in Connections, s \in Settings : SetDirectory(c, s) \/ SaveCopy(c, s)
             \/ \E new \in Leftovers : Edit(new)
    <3>1. UNCHANGED <<pc, reads>>
      BY <2>6 DEF Edit, SetDirectory, SaveCopy
    <3>2. CASE Goes(d)
      BY <2>3, <3>2
    <3> QED
      BY <3>1, <3>2 DEF StepsLeft
  <2>7. CASE Restart
    <3>1. pc'[d] = "away"
      BY <2>7 DEF Restart
    <3> QED
      BY <2>1, <3>1 DEF StepsLeft
  <2> QED
    BY <1>1, <2>3, <2>4, <2>5, <2>6, <2>7 DEF Next
<1>2. TypeInv /\ [Next]_vars
      => [\A c \in Connections : Busy(c) =>
            \/ StepsLeft(c)' < StepsLeft(c)
            \/ StepsLeft(c)' = StepsLeft(c) /\ ~Goes(c)]_vars
  BY <1>1
<1>3. IInv => TypeInv
  BY DEF IInv
<1> QED
  BY <1>2, <1>3, Inductive, PTL DEF Spec, GoingOnEnds
=============================================================================
