---------------------------- MODULE SessionStore -----------------------------
(***************************************************************************)
(* The threads and projects of the gateway: every connection loads          *)
(* threads.json and projects.json into managers of its own, its handlers    *)
(* change the managers and write the whole of a file back.                  *)
(*                                                                         *)
(* A handler changes memory and then works through the sends and writes it  *)
(* has left (todo); a write truncates the file and then fills it.  Between  *)
(* two of these any other connection may run, the client may be gone, and   *)
(* the process may die.                                                     *)
(***************************************************************************)
EXTENDS Naturals, Sequences, ThreadManager, ProjectManager

CONSTANTS
    Conns,          \* the connections
    OldRegistries,  \* what an older build may have left in projects.json
    KeepRecent,     \* messages kept by the compaction of a thread switch (3)
    MaxThreadId,    \* bound: thread ids minted by one process
    MaxProjectId,   \* bound: project ids
    MaxMsgs,        \* bound: messages
    MaxFaults       \* bound: crashes of the process, and failing writes

ASSUME ConstantsAssumption ==
    /\ OldRegistries \subseteq Registries
    /\ KeepRecent \in Nat /\ MaxThreadId \in Nat /\ MaxProjectId \in Nat
    /\ MaxMsgs \in Nat /\ MaxFaults \in Nat

VARIABLES
    counter,  \* COUNTER of ThreadId::new, one per process
    tfile,    \* threads.json
    pfile,    \* projects.json
    ok,       \* the files that can be loaded
    phase,    \* per connection: closed, greet (accepted), open, chat, closing
    mgr,      \* per connection: its ThreadManager
    reg,      \* per connection: its ProjectManager
    todo,     \* per connection: sends and writes its handler has left
    writing,  \* per connection: it has truncated the file it writes
    msgs,     \* history: number of messages so far
    saved,    \* history: messages that were in a file once it was written
    gone,     \* history: messages of closed threads, or behind a summary
    used,     \* history: project ids that were in a file once it was written
    calm,     \* history: no two connections overlapped, no write was cut short,
              \* and no thread id was minted twice
    faults    \* history: number of faults

vars == <<counter, tfile, pfile, ok, phase, mgr, reg, todo, writing, msgs, saved, gone,
          used, calm, faults>>

Init ==
    /\ counter = 1
    /\ tfile = NewManager
    /\ \/ ok = {} /\ pfile = NewRegistry
       \/ ok = {"projects"} /\ pfile \in OldRegistries
    /\ phase = [c \in Conns |-> "closed"]
    /\ mgr = [c \in Conns |-> NewManager]
    /\ reg = [c \in Conns |-> NewRegistry]
    /\ todo = [c \in Conns |-> << >>]
    /\ writing = [c \in Conns |-> FALSE]
    /\ msgs = 0 /\ saved = {} /\ gone = {}
    /\ used = pfile.ids
    /\ calm = TRUE /\ faults = 0

files == <<tfile, pfile, ok, saved, used>>
Open(c) == phase[c] \in {"open", "chat"} /\ todo[c] = << >>
Idle(c) == phase[c] = "open" /\ todo[c] = << >>

\* What a handler does to the state of its connection.
Become(c, m, r, work) ==
    /\ mgr' = [mgr EXCEPT ![c] = m]
    /\ reg' = [reg EXCEPT ![c] = r]
    /\ todo' = [todo EXCEPT ![c] = work]
    /\ UNCHANGED <<files, writing, faults>>

\* activate_project: the work left when p becomes the active project.
Activate(c, p) == IF p \in reg[c].ids THEN <<"projects">> ELSE << >>

-----------------------------------------------------------------------------
(* Connections come and go. *)

\* Mutant: a file without a foreground thread is started afresh.
AcceptForeground(c) ==
    /\ phase[c] = "closed"
    /\ phase' = [phase EXCEPT ![c] = "greet"]
    /\ calm' = (calm /\ \A d \in Conns \ {c} : phase[d] = "closed")
    /\ UNCHANGED <<msgs, gone>>
    /\ \/ /\ "threads" \in ok /\ HasForeground(tfile)
          /\ Become(c, tfile, reg[c], << >>)
          /\ UNCHANGED counter
       \/ /\ ~("threads" \in ok /\ HasForeground(tfile)) /\ counter <= MaxThreadId
          /\ Become(c, CreateChat(NewManager, counter, DefaultProject), reg[c],
                    <<"threads">>)
          /\ counter' = counter + 1

\* load_or_default: a file that cannot be loaded, whatever the reason, is
\* replaced by one with a new thread "Main".
Accept(c) ==
    /\ phase[c] = "closed"
    /\ phase' = [phase EXCEPT ![c] = "greet"]
    /\ calm' = (calm /\ \A d \in Conns \ {c} : phase[d] = "closed")
    /\ UNCHANGED <<msgs, gone>>
    /\ \/ /\ "threads" \in ok
          /\ Become(c, tfile, reg[c], << >>)
          /\ UNCHANGED counter
       \/ /\ "threads" \notin ok /\ counter <= MaxThreadId
          /\ Become(c, CreateChat(NewManager, counter, DefaultProject), reg[c],
                    <<"threads">>)
          /\ counter' = counter + 1

\* load_or_new and the migration that seeds the Default project.
LoadProjects(c) ==
    /\ phase[c] = "greet" /\ todo[c] = << >>
    /\ phase' = [phase EXCEPT ![c] = "open"]
    /\ Become(c, mgr[c],
              EnsureDefault(IF "projects" \in ok THEN LoadRegistry(pfile) ELSE NewRegistry),
              <<"projects">>)
    /\ UNCHANGED <<counter, msgs, gone, calm>>

\* The client left, or the gateway stops: threads are saved once more.
Disconnect(c) ==
    /\ Idle(c)
    /\ phase' = [phase EXCEPT ![c] = "closing"]
    /\ Become(c, mgr[c], reg[c], <<"threads">>)
    /\ UNCHANGED <<counter, msgs, gone, calm>>

\* Mutant: the writes that are left are not dropped.
EndKeepsWork(c) ==
    /\ phase' = [phase EXCEPT ![c] = "closed"]
    /\ Become(c, NewManager, NewRegistry, todo[c])
    /\ UNCHANGED <<counter, msgs, gone, calm>>

\* A connection that ends takes its managers with it.
End(c) ==
    /\ phase' = [phase EXCEPT ![c] = "closed"]
    /\ Become(c, NewManager, NewRegistry, << >>)
    /\ UNCHANGED <<counter, msgs, gone, calm>>

Close(c) == phase[c] = "closing" /\ todo[c] = << >> /\ End(c)

\* The process dies and is started again: memory, and the counter, are lost.
\* A file whose write was under way stays as it is.
Crash ==
    /\ faults < MaxFaults
    /\ faults' = faults + 1
    /\ counter' = 1
    /\ phase' = [c \in Conns |-> "closed"]
    /\ mgr' = [c \in Conns |-> NewManager]
    /\ reg' = [c \in Conns |-> NewRegistry]
    /\ todo' = [c \in Conns |-> << >>]
    /\ writing' = [c \in Conns |-> FALSE]
    /\ calm' = (calm /\ \A c \in Conns : ~writing[c])
    /\ UNCHANGED <<files, msgs, gone>>

-----------------------------------------------------------------------------
(* The sends and writes a handler has left. Of the sends only those matter     *)
(* that come before a write; after the last write any send may fail.           *)

\* A send to a client that is gone ends the connection there and then: what
\* was still to be written, the save of a disconnect included, is not.
SendFails(c) ==
    /\ Open(c) \/ (todo[c] # << >> /\ Head(todo[c]) = "send")
    /\ End(c)

Send(c) ==
    /\ todo[c] # << >> /\ Head(todo[c]) = "send"
    /\ todo' = [todo EXCEPT ![c] = Tail(@)]
    /\ UNCHANGED <<counter, files, phase, mgr, reg, writing, msgs, gone, calm, faults>>

\* fs::write opens the file with truncation ...
Truncate(c) ==
    /\ todo[c] # << >> /\ Head(todo[c]) # "send" /\ ~writing[c]
    /\ writing' = [writing EXCEPT ![c] = TRUE]
    /\ ok' = ok \ {Head(todo[c])}
    /\ IF Head(todo[c]) = "threads"
         THEN tfile' = NewManager /\ UNCHANGED pfile
         ELSE pfile' = NewRegistry /\ UNCHANGED tfile
    /\ UNCHANGED <<counter, phase, mgr, reg, todo, msgs, saved, gone, used, calm, faults>>

\* ... and writes the content.
FillThreads(c) ==
    /\ tfile' = mgr[c] /\ saved' = saved \cup Messages(mgr[c])
    /\ UNCHANGED <<pfile, used>>

FillProjects(c) ==
    /\ pfile' = reg[c] /\ used' = used \cup reg[c].ids
    /\ UNCHANGED <<tfile, saved>>

Written(c) ==
    /\ writing[c]
    /\ writing' = [writing EXCEPT ![c] = FALSE]
    /\ todo' = [todo EXCEPT ![c] = Tail(@)]
    /\ UNCHANGED <<counter, phase, mgr, reg, msgs, gone>>

Fill(c) ==
    /\ Written(c)
    /\ IF Head(todo[c]) = "threads" THEN FillThreads(c) ELSE FillProjects(c)
    /\ ok' = ok \cup {Head(todo[c])}
    /\ UNCHANGED <<calm, faults>>

\* Another writer got there in between, and the end of its longer content stays
\* behind this one's.
FillOver(c) ==
    /\ Written(c)
    /\ Head(todo[c]) \in ok
    /\ ok' = ok \ {Head(todo[c])}
    /\ UNCHANGED <<tfile, pfile, saved, used, calm, faults>>

\* The write fails; its error is ignored.
WriteFails(c) ==
    /\ Written(c)
    /\ faults < MaxFaults /\ faults' = faults + 1
    /\ ok' = ok \ {Head(todo[c])}
    /\ calm' = FALSE
    /\ UNCHANGED <<tfile, pfile, saved, used>>

-----------------------------------------------------------------------------
(* Threads. *)

\* A client names project 0 for the active one.
ThreadCreate(c, p) ==
    /\ Idle(c) /\ counter <= MaxThreadId
    /\ p \in reg[c].ids \cup {0}
    /\ LET pid == IF p = 0 THEN reg[c].active ELSE p IN
         Become(c, CreateChat(mgr[c], counter, pid), SetActive(reg[c], pid),
                (IF pid = reg[c].active THEN << >> ELSE Activate(c, pid))
                    \o <<"send", "threads">>)
    /\ counter' = counter + 1
    /\ calm' = (calm /\ counter \notin DOMAIN mgr[c].threads)
    /\ UNCHANGED <<phase, msgs, gone>>

\* thread_id 0 asks to background the current thread.
ThreadBackground(c) ==
    /\ Idle(c)
    /\ Become(c, ClearForeground(mgr[c]), reg[c], <<"send", "threads">>)
    /\ UNCHANGED <<counter, phase, msgs, gone, calm>>

\* Whether the switch to t summarises the thread it leaves; the model that is
\* asked to may fail.
MayCompact(c, t) ==
    /\ HasForeground(mgr[c]) /\ mgr[c].fg # t
    /\ LET f == mgr[c].threads[mgr[c].fg] IN Cardinality(f.log) > KeepRecent /\ ~f.sum

\* The thread left may be compacted, then the foreground goes to t and the
\* active project to that of t. An unknown t is answered with an error, and
\* the compaction stays in memory only.
ThreadSwitch(c, t, compact) ==
    /\ Idle(c)
    /\ compact => MayCompact(c, t)
    /\ LET m == IF compact THEN Compact(mgr[c], KeepRecent) ELSE mgr[c] IN
         /\ IF t \in DOMAIN m.threads
              THEN LET p == m.threads[t].proj IN
                   Become(c, SwitchForeground(m, t), SetActive(reg[c], p),
                          <<"send", "threads">> \o
                          (IF p = reg[c].active THEN << >> ELSE Activate(c, p)))
              ELSE Become(c, m, reg[c], << >>)
         /\ gone' = gone \cup (Messages(mgr[c]) \ Messages(m))
    /\ UNCHANGED <<counter, phase, msgs, calm>>

ThreadClose(c, t) ==
    /\ Idle(c)
    /\ IF t \in DOMAIN mgr[c].threads
         THEN /\ Become(c, RemoveThread(mgr[c], t), reg[c], <<"send", "threads">>)
              /\ gone' = gone \cup mgr[c].threads[t].log
         ELSE Become(c, mgr[c], reg[c], <<"send", "threads">>) /\ UNCHANGED gone
    /\ UNCHANGED <<counter, phase, msgs, calm>>

\* The label is not part of the model; the file is written.
ThreadRename(c, t) ==
    /\ Idle(c) /\ t \in DOMAIN mgr[c].threads
    /\ Become(c, mgr[c], reg[c], <<"send", "threads">>)
    /\ UNCHANGED <<counter, phase, msgs, gone, calm>>

-----------------------------------------------------------------------------
(* A chat: the user's message, then rounds of the model. *)

\* Mutant: the user's message is kept in memory until the thread is saved.
ChatUnsaved(c, t) ==
    /\ Idle(c) /\ msgs < MaxMsgs
    /\ t = mgr[c].fg \/ t \in DOMAIN mgr[c].threads
    /\ LET m == IF t = mgr[c].fg THEN mgr[c] ELSE SwitchForeground(mgr[c], t) IN
         IF HasForeground(m)
           THEN /\ msgs' = msgs + 1
                /\ Become(c, AddMessage(m, msgs + 1), reg[c], << >>)
           ELSE Become(c, m, reg[c], << >>) /\ UNCHANGED msgs
    /\ phase' = [phase EXCEPT ![c] = "chat"]
    /\ UNCHANGED <<counter, gone, calm>>

\* handle_chat_frame: a thread the message seems to be about becomes the
\* foreground (t), and the message is added to the foreground thread. Without
\* a foreground it is added nowhere.
Chat(c, t) ==
    /\ Idle(c) /\ msgs < MaxMsgs
    /\ t = mgr[c].fg \/ t \in DOMAIN mgr[c].threads
    /\ LET switches == t # mgr[c].fg
           m == IF switches THEN SwitchForeground(mgr[c], t) ELSE mgr[c]
       IN IF HasForeground(m)
            THEN /\ msgs' = msgs + 1
                 /\ Become(c, AddMessage(m, msgs + 1), reg[c],
                           (IF switches THEN <<"send">> ELSE << >>) \o <<"threads">>)
            ELSE Become(c, m, reg[c], << >>) /\ UNCHANGED msgs
    /\ phase' = [phase EXCEPT ![c] = "chat"]
    /\ UNCHANGED <<counter, gone, calm>>

\* A round of the dispatch adds the model's message to the foreground thread
\* and writes the file; the last one ends the chat.
ModelMessage(c, last) ==
    /\ phase[c] = "chat" /\ todo[c] = << >> /\ msgs < MaxMsgs
    /\ IF HasForeground(mgr[c])
         THEN /\ msgs' = msgs + 1
              /\ Become(c, AddMessage(mgr[c], msgs + 1), reg[c], <<"threads">>)
         ELSE Become(c, mgr[c], reg[c], <<"threads">>) /\ UNCHANGED msgs
    /\ phase' = [phase EXCEPT ![c] = IF last THEN "open" ELSE "chat"]
    /\ UNCHANGED <<counter, gone, calm>>

\* The context is compacted, and so is the foreground thread.
ModelCompacts(c, keep) ==
    /\ phase[c] = "chat" /\ todo[c] = << >>
    /\ LET m == IF HasForeground(mgr[c]) THEN Compact(mgr[c], keep) ELSE mgr[c] IN
         /\ Become(c, m, reg[c], <<"threads">>)
         /\ gone' = gone \cup (Messages(mgr[c]) \ Messages(m))
    /\ UNCHANGED <<counter, phase, msgs, calm>>

\* The dispatch ends without a message: cancelled, failed, or an empty reply.
ChatEnds(c) ==
    /\ phase[c] = "chat" /\ todo[c] = << >>
    /\ phase' = [phase EXCEPT ![c] = "open"]
    /\ UNCHANGED <<counter, files, mgr, reg, todo, writing, msgs, gone, calm, faults>>

-----------------------------------------------------------------------------
(* Projects. *)

ProjectCreate(c) ==
    /\ Idle(c) /\ reg[c].next <= MaxProjectId
    /\ Become(c, mgr[c], SetActive(CreateProject(reg[c]), reg[c].next),
              <<"projects">>)
    /\ UNCHANGED <<counter, phase, msgs, gone, calm>>

ProjectSwitch(c, p) ==
    /\ Idle(c)
    /\ Become(c, mgr[c], SetActive(reg[c], p), Activate(c, p))
    /\ UNCHANGED <<counter, phase, msgs, gone, calm>>

\* The name is not part of the model.
ProjectRename(c, p) ==
    /\ Idle(c) /\ p \in reg[c].ids
    /\ Become(c, mgr[c], reg[c], <<"projects">>)
    /\ UNCHANGED <<counter, phase, msgs, gone, calm>>

\* The threads of the project go to the Default project, then the project is
\* removed, unless it may not be, and the active project is activated again.
ProjectDelete(c, p) ==
    /\ Idle(c)
    /\ LET m == Reassign(mgr[c], p, DefaultProject) IN
         IF Removable(reg[c], p)
           THEN Become(c, m, RemoveProject(reg[c], p),
                       <<"projects", "projects", "send", "threads">>)
           ELSE Become(c, m, reg[c], <<"send", "threads">>)
    /\ UNCHANGED <<counter, phase, msgs, gone, calm>>

-----------------------------------------------------------------------------

ThreadIds == 0..MaxThreadId
ProjectIds == 0..MaxProjectId

ConnNext(c) ==
    \/ Accept(c) \/ LoadProjects(c) \/ Disconnect(c) \/ Close(c)
    \/ SendFails(c) \/ Send(c) \/ Truncate(c) \/ Fill(c) \/ FillOver(c) \/ WriteFails(c)

ThreadNext(c) ==
    \/ \E p \in ProjectIds : ThreadCreate(c, p)
    \/ ThreadBackground(c)
    \/ \E t \in ThreadIds \ {0}, compact \in BOOLEAN : ThreadSwitch(c, t, compact)
    \/ \E t \in ThreadIds : ThreadClose(c, t) \/ ThreadRename(c, t) \/ Chat(c, t)
    \/ \E last \in BOOLEAN : ModelMessage(c, last)
    \/ \E keep \in 0..MaxMsgs : ModelCompacts(c, keep)
    \/ ChatEnds(c)

ProjectNext(c) ==
    \/ ProjectCreate(c)
    \/ \E p \in ProjectIds : ProjectSwitch(c, p) \/ ProjectRename(c, p) \/ ProjectDelete(c, p)

Next == Crash \/ \E c \in Conns : ConnNext(c) \/ ThreadNext(c) \/ ProjectNext(c)

Spec == Init /\ [][Next]_vars

-----------------------------------------------------------------------------
(* Properties. *)

Work == {"send", "threads", "projects"}

\* What is left to do, and who is writing what.
WorkOK ==
    /\ todo \in [Conns -> Seq(Work)]
    /\ writing \in [Conns -> BOOLEAN]
    /\ \A c \in Conns :
         /\ writing[c] => todo[c] # << >> /\ Head(todo[c]) # "send"
         /\ phase[c] = "closed" => todo[c] = << >>

\* Type invariant: every variable stays in its set, a file is written only by a
\* handler that has it to write, and nothing is left to do for a connection that
\* ended.
TypeOK ==
    /\ counter \in Nat \ {0}
    /\ IsManager(tfile) /\ pfile \in Registries
    /\ ok \subseteq {"threads", "projects"}
    /\ phase \in [Conns -> {"closed", "greet", "open", "chat", "closing"}]
    /\ mgr = [c \in Conns |-> mgr[c]] /\ \A c \in Conns : IsManager(mgr[c])
    /\ reg \in [Conns -> Registries]
    /\ WorkOK
    /\ msgs \in Nat /\ faults \in Nat /\ calm \in BOOLEAN
    /\ saved \subseteq Nat /\ gone \subseteq Nat /\ used \subseteq Nat

Known(c) == phase[c] \notin {"closed", "greet"}

\* In every manager and in threads.json the foreground id names the one thread
\* marked as the foreground, or no thread is marked: over creations (with an id
\* that is already taken, too), switches, closes, restarts and whatever other
\* connections write.
OneForeground ==
    /\ "threads" \in ok => ForegroundAgrees(tfile)
    /\ \A c \in Conns : phase[c] # "closed" => ForegroundAgrees(mgr[c])

\* Whatever is deleted, and whatever file was loaded, the active project of a
\* connection is one of its projects, and so is the Default project.
ActiveProjectExists ==
    \A c \in Conns : Known(c) =>
        reg[c].active \in reg[c].ids /\ DefaultProject \in reg[c].ids

\* "ProjectIds are minted from an instance next_id that is persisted and
\* reconciled on load, so ids never collide after a restart": a project id that
\* was ever written is not minted again, as long as calm holds.
ProjectIdsFresh ==
    calm => \A c \in Conns : Known(c) => \A p \in used : p < reg[c].next

\* A message that was written to threads.json is found there by every later
\* reader, unless its thread was closed or compacted, as long as calm holds.
SavedStays ==
    calm /\ (\A c \in Conns : ~writing[c]) /\ saved # {} =>
        "threads" \in ok /\ saved \subseteq Messages(tfile) \cup gone

\* While calm, whenever a handler of a connection has nothing left to do (a chat
\* goes on to the model, chat.rs:105-128, a round of it is over, dispatch.rs:842-853,
\* or the next frame is taken), every message in its manager has been written to
\* threads.json. Messages of threads are meant, not all text: a reply is streamed
\* before it is written, and a continuation, the turn of a flush and any text
\* without a foreground thread are never added to one.
MessagesSavedBeforeNextStep ==
    calm => \A c \in Conns : Open(c) => Messages(mgr[c]) \subseteq saved
=============================================================================
