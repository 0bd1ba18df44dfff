---------------------------- MODULE SharedConfig ----------------------------
(***************************************************************************)
(* The configuration that all connections of a gateway share, behind a     *)
(* read-write lock (main.rs: SharedConfig), and the model context next to  *)
(* it: chats read both, a reload, a model switch and a change of the       *)
(* agent's name write them (eiva-gateway/src/admin.rs).  A chat keeps its  *)
(* guard over the whole dispatch, which takes further ones.  A connection  *)
(* also has a copy of the configuration, made when it was opened: the      *)
(* settings of the panels are changed in it, and it is saved whole over    *)
(* the file, without a lock (panel_handler.rs, server.rs).                 *)
(*                                                                         *)
(* The file is taken to name the directory it is in, as Config::save       *)
(* writes it, and the gateway to run without command line overrides.  A    *)
(* save is one step, and a death of the process within it a failed save    *)
(* and a restart.  Two saves at the same instant are left out, and so is   *)
(* the registry of models that a reload refreshes.                         *)
(***************************************************************************)
EXTENDS Naturals, Sequences, FiniteSets

CONSTANTS Connections, Models, Names, NoModel,
          Settings,    \* all that connections change in their own copies: the
                       \* directory, engines, MCP servers, tools, messengers
          Contents,    \* configurations the file may hold of the user's making
          MaxRequests, \* bound on requests of all connections
          MaxReads,    \* bound on the guards one dispatch takes
          MaxFaults    \* bound on edits of the file and failed saves

ASSUME ModelsAssumption == NoModel \notin Models
ASSUME BoundsAssumption == {MaxRequests, MaxReads, MaxFaults} \subseteq Nat

Configs == [model : Models \cup {NoModel}, name : Names, own : Settings]

\* A guard of the lock, or a request for one, and what it is for.
Uses == {"copy", "chat", "dispatch", "admin"}
Asks == [by : Connections, mode : {"read", "write"}, use : Uses]

ASSUME ContentsAssumption == Contents \subseteq Configs

VARIABLES
  config,  \* the value under the lock
  ctx,     \* the shared model context
  file,    \* config.toml: <<a configuration>>, or <<>> when it does not parse
  line,    \* requests of the lock and guards held, in the order they were made
  pc,      \* where each connection is
  arg,     \* [Connections -> <<what its administration writes>>, or <<>>]
  reads,   \* [Connections -> guards taken by its dispatch]
  calm,    \* no two administrations overlapped since one ran alone
  copy,    \* [Connections -> <<its copy of the configuration>>, or <<>>]
  fresh,   \* connections whose copy has missed no write of the configuration
  content, \* whose value the file has: that of the configuration, of a copy,
           \* of a copy that had missed a write, or another
  requests, faults

bounds == <<requests, faults>>
copies == <<copy, fresh>>
vars == <<config, ctx, file, line, pc, arg, reads, calm, copies, content, bounds>>

\* tokio's RwLock is fair: requests are granted in the order they are made,
\* readers together, and a writer that waits holds up the readers behind it.
Request(c, mode, use) == Append(line, [by |-> c, mode |-> mode, use |-> use])
Holds(i) == IF line[i].mode = "write" THEN i = 1
            ELSE \A j \in 1 .. i : line[j].mode = "read"
At(c, use) == {i \in DOMAIN line : line[i].by = c /\ line[i].use = use}
Granted(c, use) == \E i \in At(c, use) : Holds(i)
Without(s, i) == [k \in 1 .. Len(s) - 1 |-> s[IF k < i THEN k ELSE k + 1]]
Released(c, use) == Without(line, CHOOSE i \in At(c, use) : TRUE)

Move(c, from, to) == pc[c] = from /\ pc' = [pc EXCEPT ![c] = to]

Administrating(c) == pc[c] \in {"switching", "loaded", "switch", "name", "reload", "context"}
Alone == \A c \in Connections : ~Administrating(c)

Init == /\ config \in Contents
        /\ ctx = config.model
        /\ file = <<config>>
        /\ line = <<>>
        /\ pc = [c \in Connections |-> "away"]
        /\ arg = [c \in Connections |-> <<>>]
        /\ reads = [c \in Connections |-> 0]
        /\ copy = [c \in Connections |-> <<>>] /\ fresh = {}
        /\ calm = TRUE /\ content = "config"
        /\ requests = 0 /\ faults = 0

Count == requests < MaxRequests /\ requests' = requests + 1 /\ UNCHANGED faults
-----------------------------------------------------------------------------
(* Connections and chats.                                                  *)

\* A new connection copies the configuration, and puts the directory of the
\* active project into its copy.
Connect(c) ==
  /\ Move(c, "away", "connecting")
  /\ line' = Request(c, "read", "copy")
  /\ UNCHANGED <<config, ctx, file, arg, reads, calm, copies, content, bounds>>

Connected(c) ==
  /\ Move(c, "connecting", "idle")
  /\ Granted(c, "copy")
  /\ line' = Released(c, "copy")
  /\ \E s \in Settings : copy' = [copy EXCEPT ![c] = <<[config EXCEPT !.own = s]>>]
  /\ fresh' = fresh \cup {c}
  /\ UNCHANGED <<config, ctx, file, arg, reads, calm, content, bounds>>

Forget(c) == copy' = [copy EXCEPT ![c] = <<>>] /\ fresh' = fresh \ {c}

Leave(c) ==
  /\ Move(c, "idle", "away")
  /\ Forget(c)
  /\ UNCHANGED <<config, ctx, file, line, arg, reads, calm, content, bounds>>

Chat(c) ==
  /\ Count
  /\ Move(c, "idle", "chat")
  /\ line' = Request(c, "read", "chat")
  /\ UNCHANGED <<config, ctx, file, arg, reads, calm, copies, content>>

\* A guard for the flush settings, an engine or the tool permissions, taken
\* while that of the chat is held.
ReadAgain(c) ==
  /\ Granted(c, "chat")
  /\ reads[c] < MaxReads
  /\ Move(c, "chat", "reading")
  /\ line' = Request(c, "read", "dispatch")
  /\ reads' = [reads EXCEPT ![c] = @ + 1]
  /\ UNCHANGED <<config, ctx, file, arg, calm, copies, content, bounds>>

\* Mutant: the guard is kept for the next round.
GuardKept(c) ==
  /\ Granted(c, "dispatch")
  /\ Move(c, "reading", "chat")
  /\ UNCHANGED <<config, ctx, file, line, arg, reads, calm, copies, content, bounds>>

DoneReading(c) ==
  /\ Granted(c, "dispatch")
  /\ Move(c, "reading", "chat")
  /\ line' = Released(c, "dispatch")
  /\ UNCHANGED <<config, ctx, file, arg, reads, calm, copies, content, bounds>>

\* The chat ends after any number of guards (with none in the modes of the
\* external agents, or without a model), or with the connection.
EndChat(c) ==
  /\ Granted(c, "chat")
  /\ \/ Move(c, "chat", "idle") /\ UNCHANGED copies
     \/ Move(c, "chat", "away") /\ Forget(c)
  /\ line' = Released(c, "chat")
  /\ reads' = [reads EXCEPT ![c] = 0]
  /\ UNCHANGED <<config, ctx, file, arg, calm, content, bounds>>
-----------------------------------------------------------------------------
(* Administration.                                                         *)

\* handle_reload: the file is read and its model resolved before the lock is
\* asked for.  A file that does not parse is answered by an error.
Reload(c) ==
  /\ Count
  /\ pc[c] = "idle" /\ file # <<>>
  /\ Move(c, "idle", "loaded")
  /\ arg' = [arg EXCEPT ![c] = file]
  /\ calm' = Alone
  /\ content' = "config"
  /\ UNCHANGED <<config, ctx, file, line, reads, copies>>

\* init_copilot_session and the refresh of the registry of models, under locks
\* of their own that are given back, are over.
AskReload(c) ==
  /\ Move(c, "loaded", "reload")
  /\ line' = Request(c, "write", "admin")
  /\ UNCHANGED <<config, ctx, file, arg, reads, calm, copies, content, bounds>>

WriteReload(c) ==
  /\ Granted(c, "admin")
  /\ Move(c, "reload", "context")
  /\ config' = arg[c][1]
  /\ fresh' = {}
  /\ line' = Released(c, "admin")
  /\ UNCHANGED <<ctx, file, arg, reads, calm, copy, content, bounds>>

WriteContext(c) ==
  /\ Move(c, "context", "idle")
  /\ ctx' = arg[c][1].model
  /\ arg' = [arg EXCEPT ![c] = <<>>]
  /\ UNCHANGED <<config, file, line, reads, calm, copies, content, bounds>>

\* handle_model_switch writes the context first.
Switch(c, m) ==
  /\ Count
  /\ Move(c, "idle", "switching")
  /\ arg' = [arg EXCEPT ![c] = <<m>>]
  /\ calm' = Alone
  /\ ctx' = m
  /\ UNCHANGED <<config, file, line, reads, copies, content>>

AskSwitch(c) ==
  /\ Move(c, "switching", "switch")
  /\ line' = Request(c, "write", "admin")
  /\ UNCHANGED <<config, ctx, file, arg, reads, calm, copies, content, bounds>>

\* What may be found in the file when it was edited, or not written to its end.
Leftovers == {<<>>} \cup {<<x>> : x \in Contents}

\* Config::save, whose failure changes nothing but the file.
Written(new, whose) ==
  \/ file' = <<new>> /\ content' = whose /\ UNCHANGED faults
  \/ /\ faults < MaxFaults /\ faults' = faults + 1
     /\ file' \in {file} \cup Leftovers
     /\ content' = "other"

\* The shared configuration, saved under the guard.
Saved(new) == config' = new /\ Written(new, "config") /\ UNCHANGED requests

WriteSwitch(c) ==
  /\ Granted(c, "admin")
  /\ Move(c, "switch", "idle")
  /\ Saved([config EXCEPT !.model = arg[c][1]])
  /\ fresh' = {}
  /\ line' = Released(c, "admin")
  /\ arg' = [arg EXCEPT ![c] = <<>>]
  /\ UNCHANGED <<ctx, reads, calm, copy>>

\* handle_set_agent_name, which also changes the connection's copy.
AskName(c, n) ==
  /\ Count
  /\ Move(c, "idle", "name")
  /\ arg' = [arg EXCEPT ![c] = <<n>>]
  /\ calm' = (calm /\ Alone)
  /\ line' = Request(c, "write", "admin")
  /\ UNCHANGED <<config, ctx, file, reads, copies, content>>

\* Mutant: the configuration is read for the answer under the guard.
NameAndRead(c) ==
  /\ Granted(c, "admin")
  /\ Move(c, "name", "reading")
  /\ Saved([config EXCEPT !.name = arg[c][1]])
  /\ line' = Request(c, "read", "dispatch")
  /\ UNCHANGED <<ctx, arg, reads, calm, copies>>

\* Mutant: the connection's copy keeps the old name.
NameNotCopied(c) ==
  /\ Granted(c, "admin")
  /\ Move(c, "name", "idle")
  /\ Saved([config EXCEPT !.name = arg[c][1]])
  /\ fresh' = fresh \cap {c}
  /\ line' = Released(c, "admin")
  /\ arg' = [arg EXCEPT ![c] = <<>>]
  /\ UNCHANGED <<ctx, reads, calm, copy>>

WriteName(c) ==
  /\ Granted(c, "admin")
  /\ Move(c, "name", "idle")
  /\ Saved([config EXCEPT !.name = arg[c][1]])
  /\ copy' = [copy EXCEPT ![c] = <<[@[1] EXCEPT !.name = arg[c][1]]>>]
  /\ fresh' = fresh \cap {c}
  /\ line' = Released(c, "admin")
  /\ arg' = [arg EXCEPT ![c] = <<>>]
  /\ UNCHANGED <<ctx, reads, calm>>

\* handle_set_working_directory, also for a switch of the project: the copy
\* alone is changed (the sandbox was set for good when the gateway started).
SetDirectory(c, s) ==
  /\ Count
  /\ pc[c] = "idle"
  /\ copy' = [copy EXCEPT ![c] = <<[@[1] EXCEPT !.own = s]>>]
  /\ UNCHANGED <<config, ctx, file, line, pc, arg, reads, calm, fresh, content>>

\* An engine, an MCP server, a tool or a messenger is set in the copy, and the
\* copy is saved.
SaveCopy(c, s) ==
  /\ requests < MaxRequests /\ requests' = requests + 1
  /\ pc[c] = "idle"
  /\ copy' = [copy EXCEPT ![c] = <<[@[1] EXCEPT !.own = s]>>]
  /\ Written(copy'[c][1], IF c \in fresh THEN "copy" ELSE "outdated")
  /\ calm' = (calm /\ Alone)
  /\ UNCHANGED <<config, ctx, line, pc, arg, reads, fresh>>

\* The user edits the file, or leaves it broken.
Edit(new) ==
  /\ faults < MaxFaults /\ faults' = faults + 1
  /\ file' = new /\ file' # file
  /\ content' = "other"
  /\ UNCHANGED <<config, ctx, line, pc, arg, reads, calm, copies, requests>>

\* The process ends and starts again, from a file that parses.
Restart ==
  /\ file # <<>>
  /\ faults < MaxFaults /\ faults' = faults + 1
  /\ config' = file[1] /\ ctx' = file[1].model
  /\ line' = <<>>
  /\ pc' = [c \in Connections |-> "away"]
  /\ arg' = [c \in Connections |-> <<>>]
  /\ reads' = [c \in Connections |-> 0]
  /\ copy' = [c \in Connections |-> <<>>] /\ fresh' = {}
  /\ calm' = TRUE /\ content' = "config"
  /\ UNCHANGED <<file, requests>>

\* What a connection does of its own once a request is there.
Goes(c) == \/ Connected(c) \/ ReadAgain(c) \/ DoneReading(c) \/ EndChat(c)
           \/ AskReload(c) \/ WriteReload(c) \/ WriteContext(c)
           \/ AskSwitch(c) \/ WriteSwitch(c) \/ WriteName(c)

Next == \/ \E c \in Connections : Goes(c) \/ Connect(c) \/ Leave(c) \/ Chat(c) \/ Reload(c)
        \/ \E c \in Connections, m \in Models : Switch(c, m)
        \/ \E c \in Connections, n \in Names : AskName(c, n)
        \/ \E c \in Connections, s \in Settings : SetDirectory(c, s) \/ SaveCopy(c, s)
        \/ \E new \in Leftovers : Edit(new)
        \/ Restart

Spec == Init /\ [][Next]_vars

\* A task that is granted what it waits for goes on; a dispatch waits for its
\* provider with a timeout and its rounds are bounded.
FairSpec == Spec /\ \A c \in Connections : WF_vars(Goes(c))
-----------------------------------------------------------------------------
\* The types; and the lock is used as its guards are: nobody has two requests
\* for one use, and a writer holds it alone.
TypeOK ==
  /\ config \in Configs /\ ctx \in Models \cup {NoModel}
  /\ file \in {<<>>} \cup {<<x>> : x \in Configs}
  /\ line \in Seq(Asks)
  /\ \A i \in DOMAIN line : At(line[i].by, line[i].use) = {i}
  /\ pc \in [Connections -> {"away", "connecting", "idle", "chat", "reading", "loaded",
                             "reload", "context", "switching", "switch", "name"}]
  /\ arg \in [Connections -> {<<>>} \cup {<<x>> : x \in Configs \cup Models \cup Names}]
  /\ reads \in [Connections -> 0 .. MaxReads]
  /\ copy \in [Connections -> {<<>>} \cup {<<x>> : x \in Configs}]
  /\ \A c \in Connections : copy[c] = <<>> <=> pc[c] \in {"away", "connecting"}
  /\ fresh \subseteq Connections
  /\ calm \in BOOLEAN /\ content \in {"config", "copy", "outdated", "other"}
  /\ requests \in 0 .. MaxRequests /\ faults \in 0 .. MaxFaults

\* Equal but for what connections change in their own copies.
Same(x, y) == x.model = y.model /\ x.name = y.name
Saves(x) == file # <<>> /\ Same(file[1], x)

\* Between administrations that did not overlap, chats use the model that the
\* configuration names, and the file has what a restart needs to come back with
\* it: all of the configuration, or its model and its name when a connection has
\* since saved a copy that missed no write.  The file owes nothing after it was
\* edited, a save failed, or an outdated copy was saved (see SwitchPersists).
AgreeWhenCalm ==
  Alone /\ calm => /\ ctx = config.model
                   /\ content = "config" => file = <<config>>
                   /\ content = "copy" => Saves(config)

\* The model that was switched to and the name that was set are still in the
\* file when a connection has changed a setting of its own (admin.rs:157: "Also
\* update the config so it persists across restarts").
SwitchPersists == Alone /\ calm /\ content # "other" => Saves(config)

\* A dispatch asks for a guard behind a writer that waits for its chat's.
Crossed == \E c \in Connections : \E i \in At(c, "chat"), k \in At(c, "dispatch") :
             \E j \in i .. k : line[j].mode = "write"

Busy(c) == pc[c] \notin {"away", "idle"}

\* Every request is dealt with, unless a write came between two guards of one
\* chat: there is no other way to wait for ever on this lock.
OnlyCrossingsBlock == \A c \in Connections : Busy(c) ~> (~Busy(c) \/ Crossed)

\* The guards that c cannot go on without, and whether it has them.
WaitsFor(c) ==
  {use \in Uses :
     \/ use = "copy" /\ pc[c] = "connecting"
     \/ use = "chat" /\ pc[c] = "chat"
     \/ use = "dispatch" /\ pc[c] = "reading"
     \/ use = "admin" /\ pc[c] \in {"reload", "switch", "name"}}
CanGo(c) == Busy(c) /\ \A use \in WaitsFor(c) : Granted(c, use)

\* Without such a write, whoever waits finds, no later in the line than its own
\* request, a connection that has all it needs to go on.
FrontCanGo ==
  Crossed \/ \A c \in Connections : \A use \in WaitsFor(c) :
               \E k \in At(c, use) : \E i \in 1 .. k : CanGo(line[i].by)

\* How many steps the connection has before it until it is done.
StepsLeft(c) ==
  CASE pc[c] \in {"away", "idle"} -> 0
    [] pc[c] \in {"connecting", "context", "switch", "name"} -> 1
    [] pc[c] \in {"reload", "switching"} -> 2
    [] pc[c] = "loaded" -> 3
    [] pc[c] = "chat" -> 2 * (MaxReads - reads[c]) + 1
    [] pc[c] = "reading" -> 2 * (MaxReads - reads[c]) + 2

\* A connection that goes on gets nearer to its end, and no other one takes it
\* further from it.
GoingOnEnds ==
  [][\A c \in Connections : Busy(c) =>
       \/ StepsLeft(c)' < StepsLeft(c)
       \/ StepsLeft(c)' = StepsLeft(c) /\ ~Goes(c)]_vars

\* With such a write, there is no way out but a restart: neither the chat nor
\* the writer is ever granted what it waits for.
CrossedForGood == [][Crossed => Crossed' \/ Restart]_vars

\* A chat that was begun ends (docs/spec/agent-flow.md:198: the answer is
\* streamed and ended by response_done).
ChatAnswered ==
  \A c \in Connections : (pc[c] \in {"chat", "reading"}) ~> (pc[c] \in {"idle", "away"})
=============================================================================
