----------------------------- MODULE ChatSession -----------------------------
(***************************************************************************)
(* One client connection of the gateway once it is authenticated: the     *)
(* client, the reader task spawned by handle_connection, the bounded       *)
(* channels between the reader and the main loop, and the main loop while  *)
(* it serves Chat frames (the agentic tool loop of dispatch_text_message   *)
(* with the recovery paths of errors.rs).                                  *)
(*                                                                         *)
(* The client and the model are environments: the client shows one dialog  *)
(* per kind of request and may answer it at any later time, the model may  *)
(* reply anything in Replies.  Time is abstracted: a timeout may fire      *)
(* whenever the thing waited for has not arrived.                          *)
(***************************************************************************)
EXTENDS Naturals, Sequences

CONSTANTS
    RawIds,        \* ids a provider may put on a tool call
    FreshIds,      \* TRUE: the provider never repeats an id it used in a request
    ToolClasses,   \* [perm, via] of the tools the model may call
    Replies,       \* what the model may answer
    Configured,    \* whether the model queue of a Chat may be non-empty / empty
    ChanCap,       \* capacity of each answer channel (4 in the code)
    FrameCap,      \* capacity of the frame channel (32 in the code)
    MaxRounds,     \* MAX_TOOL_ROUNDS
    MaxContinues,  \* MAX_AUTO_CONTINUES
    MaxFailed,     \* MAX_FAILED_TOOL_ROUNDS
    MaxCalls,      \* bound: tool calls in one model reply
    MaxChats,      \* bound: Chat frames the client sends
    MaxCancels,    \* bound: Cancel frames the client sends
    MaxReqs        \* bound: requests the gateway puts to the client

\* The four kinds of request the gateway puts to the client in mid-dispatch,
\* each with a channel of its own from the reader to the main loop.
Kinds == {"approval", "user_prompt", "dom_query", "credential"}

\* Permission of a tool, and what serves it: an ordinary tool, or one that is
\* itself a question to the client. SkillOnly is refused exactly like Deny.
AllClasses == [perm : {"Allow", "Ask", "Deny"},
               via  : {"tool", "user_prompt", "dom_query"}]

\* What the model may answer beside failing: tool calls, a final text, a text
\* that announces an action, an acknowledgement of a memory flush, or a refusal
\* of the credentials.
AllReplies == {"calls", "text", "intent", "ack", "auth"}

ASSUME ConstantsAssumption ==
    /\ FreshIds \in BOOLEAN
    /\ ToolClasses \subseteq AllClasses
    /\ Replies \subseteq AllReplies
    /\ Configured \subseteq BOOLEAN
    /\ ChanCap \in Nat \ {0}
    /\ FrameCap \in Nat \ {0}
    /\ MaxRounds \in Nat \ {0}
    /\ MaxContinues \in Nat
    /\ MaxFailed \in Nat \ {0}
    /\ MaxCalls \in Nat
    /\ MaxChats \in Nat
    /\ MaxCancels \in Nat
    /\ MaxReqs \in Nat
    /\ RawIds \cap Nat = {}

VARIABLES
    \* client and transport
    wire,     \* frames sent by the client and not yet received by the reader
    up,       \* the client is connected
    dialog,   \* per kind, the request the client shows (0: none)
    sent,     \* number of Chat frames the client sent
    cancels,  \* number of Cancel frames the client sent
    \* gateway tasks
    shut,     \* the gateway's cancellation token is cancelled
    reader,   \* the reader task runs
    frames,   \* frame_rx: Chat frames queued for the main loop
    chan,     \* per kind, the answers queued for the main loop
    flag,     \* tool_cancel
    pc,       \* where the main loop is
    loop,     \* locals of the dispatch in progress
    flushed,  \* memory_flushed of the foreground thread
    \* history
    asked,    \* the requests put to the client, in order
    yes,      \* the requests the user said yes to
    ran,      \* the approval requests whose tool call was then let through
    cur,      \* number of the Chat last taken from frame_rx
    done,     \* response_done frames sent for the chat cur
    cycle,    \* memory flushes since the last compaction
    late      \* 0 until a Cancel is read while a chat is served, then 1 plus
              \* the model replies acted upon since

client == <<wire, up, dialog, sent, cancels>>
vars == <<wire, up, dialog, sent, cancels, shut, reader, frames, chan, flag, pc,
          loop, flushed, asked, yes, ran, cur, done, cycle, late>>

Chat(n) == [t |-> "chat", n |-> n]
Cancel(n) == [t |-> "cancel", n |-> n]
Answer(k, i, ok) == [t |-> "answer", kind |-> k, id |-> i, ok |-> ok]

\* A tool-call id is the provider's; a credential request gets a fresh uuid,
\* here the number of the request.
Ids == RawIds \cup Nat

\* The locals of dispatch_text_message as its loop begins.
FreshLoop == [round |-> 0, left |-> 0, good |-> FALSE, conts |-> 0, fails |-> 0,
              resume |-> FALSE, mf |-> FALSE, user |-> TRUE,
              wait |-> "approval", id |-> 0, via |-> "tool"]

Waiting(k) == pc = "wait" /\ loop.wait = k

\* The main loop is inside handle_chat_frame.
Busy == pc \in {"top", "ready", "model", "call", "wait", "exec", "device"}

\* The reader holds a frame whose channel is full.
Blocked ==
    /\ reader
    /\ wire # << >>
    /\ \/ Head(wire).t = "chat" /\ Len(frames) >= FrameCap
       \/ Head(wire).t = "answer" /\ Len(chan[Head(wire).kind]) >= ChanCap

Init ==
    /\ wire = << >> /\ up = TRUE
    /\ dialog = [k \in Kinds |-> 0]
    /\ sent = 0 /\ cancels = 0
    /\ shut = FALSE /\ reader = TRUE
    /\ frames = << >>
    /\ chan = [k \in Kinds |-> << >>]
    /\ flag = FALSE /\ pc = "idle" /\ loop = FreshLoop
    /\ flushed = FALSE
    /\ asked = << >> /\ yes = {} /\ ran = {}
    /\ cur = 0 /\ done = 0 /\ cycle = 0
    /\ late = 0

-----------------------------------------------------------------------------
(* The client. *)

gateway == <<shut, reader, frames, chan, flag, pc, loop, flushed>>
history == <<asked, yes, ran, cur, done, cycle, late>>

SendChat ==
    /\ up /\ sent < MaxChats
    /\ sent' = sent + 1
    /\ wire' = Append(wire, Chat(sent + 1))
    /\ UNCHANGED <<up, dialog, cancels, gateway, history>>

\* Cancel carries no target: the user means the chat sent last.
SendCancel ==
    /\ up /\ cancels < MaxCancels
    /\ cancels' = cancels + 1
    /\ wire' = Append(wire, Cancel(sent))
    /\ UNCHANGED <<up, dialog, sent, gateway, history>>

\* The user answers the dialog on screen, which closes it. A dialog the gateway
\* stopped waiting for is still on screen.
AnswerDialog(k) ==
    /\ up /\ dialog[k] # 0
    /\ \E ok \in BOOLEAN :
         /\ wire' = Append(wire, Answer(k, asked[dialog[k]].id, ok))
         /\ yes' = IF ok THEN yes \cup {dialog[k]} ELSE yes
    /\ dialog' = [dialog EXCEPT ![k] = 0]
    /\ UNCHANGED <<up, sent, cancels, gateway, asked, ran, cur, done, cycle,
                   late>>

Disconnect ==
    /\ up
    /\ up' = FALSE
    /\ UNCHANGED <<wire, dialog, sent, cancels, gateway, history>>

\* The gateway is told to stop.
Shutdown ==
    /\ ~shut
    /\ shut' = TRUE
    /\ UNCHANGED <<client, reader, frames, chan, flag, pc, loop, flushed, history>>

-----------------------------------------------------------------------------
(* The reader task. *)

Receive ==
    /\ reader /\ pc # "stopped" /\ wire # << >>
    /\ wire' = Tail(wire)
    /\ UNCHANGED <<up, dialog, sent, cancels, shut, reader, pc, loop, flushed,
                   asked, yes, ran, cur, done, cycle>>

\* Mutant: the frame channel has no limit.
ReadChatUnbounded ==
    /\ Receive
    /\ Head(wire).t = "chat"
    /\ frames' = Append(frames, Head(wire).n)
    /\ UNCHANGED <<chan, flag, late>>

ReadChat ==
    /\ Receive
    /\ Head(wire).t = "chat"
    /\ Len(frames) < FrameCap
    /\ frames' = Append(frames, Head(wire).n)
    /\ UNCHANGED <<chan, flag, late>>

ReadCancel ==
    /\ Receive
    /\ Head(wire).t = "cancel"
    /\ flag' = TRUE
    /\ late' = IF Busy /\ late = 0 THEN 1 ELSE late
    /\ UNCHANGED <<frames, chan>>

ReadAnswer ==
    /\ Receive
    /\ Head(wire).t = "answer"
    /\ LET k == Head(wire).kind IN
         /\ Len(chan[k]) < ChanCap
         /\ chan' = [chan EXCEPT ![k] = Append(@, Head(wire))]
    /\ UNCHANGED <<frames, flag, late>>

\* End of stream, or the cancellation token. A reader that waits for room in a
\* channel watches neither.
ReaderExit ==
    /\ reader
    /\ \/ ~up /\ (wire = << >> \/ pc = "stopped")
       \/ shut /\ ~Blocked
    /\ reader' = FALSE
    /\ UNCHANGED <<client, shut, frames, chan, flag, pc, loop, flushed, history>>

-----------------------------------------------------------------------------
(* The main loop. *)

\* A step of the main loop that sends nothing to the client but what its
\* action names, and leaves the reader's side alone.
MainStep == UNCHANGED <<wire, up, sent, cancels, shut, reader, frames, yes, cur>>
NoRequest == UNCHANGED <<asked, dialog>>
NoFlush == UNCHANGED <<flushed, cycle>>

\* "Reset cancel flag for new request", then the Chat is handed to the first
\* model of the queue; the loop over the queue ends with the first dispatch
\* that returns Ok, and every model error does.
TakeChat ==
    /\ pc = "idle" /\ frames # << >>
    /\ TRUE \in Configured
    /\ flag' = FALSE
    /\ cur' = Head(frames) /\ frames' = Tail(frames) /\ done' = 0 /\ late' = 0
    /\ pc' = "top" /\ loop' = FreshLoop
    /\ UNCHANGED <<client, shut, reader, chan, flushed, asked, yes, ran, cycle>>

\* No model is configured: the loop over the queue has nothing to do.
TakeChatNoModel ==
    /\ pc = "idle" /\ frames # << >>
    /\ FALSE \in Configured
    /\ flag' = FALSE
    /\ cur' = Head(frames) /\ frames' = Tail(frames) /\ done' = 0 /\ late' = 0
    /\ UNCHANGED <<client, shut, reader, chan, pc, loop, flushed, asked, yes, ran,
                   cycle>>

\* Mutant: the end of the frame channel does not end the loop.
StopOnShutdownOnly ==
    /\ pc = "idle" /\ shut
    /\ pc' = "stopped" /\ reader' = FALSE
    /\ UNCHANGED <<client, shut, frames, chan, flag, loop, flushed, history>>

\* Leave the main loop, which aborts the reader.
Stop ==
    /\ pc = "idle"
    /\ shut \/ (~reader /\ frames = << >>)
    /\ pc' = "stopped" /\ reader' = FALSE
    /\ UNCHANGED <<client, shut, frames, chan, flag, loop, flushed, history>>

\* Any send of the dispatch to a client that is gone may fail, and the error
\* ends the connection, leaving the reader behind.
WriteFails ==
    /\ ~up /\ Busy
    /\ pc' = "stopped"
    /\ NoRequest /\ NoFlush /\ MainStep
    /\ UNCHANGED <<chan, flag, loop, ran, done, late>>

\* The dispatch returns, having sent response_done.
Respond ==
    /\ pc' = "idle"
    /\ done' = done + 1
    /\ UNCHANGED loop

\* continue: the next round of the loop.
Again(l) ==
    /\ pc' = "top"
    /\ loop' = [l EXCEPT !.round = @ + 1]
    /\ UNCHANGED done

\* The check at the head of a round; a client that asked to stop is answered.
TopStops ==
    /\ pc = "top"
    /\ loop.round >= MaxRounds \/ flag
    /\ Respond
    /\ NoRequest /\ NoFlush /\ MainStep /\ UNCHANGED <<chan, flag, ran, late>>

\* resolve_bearer_token fails: device flow, or an error.
TokenFails ==
    /\ pc = "top" /\ loop.round < MaxRounds /\ ~flag
    /\ "auth" \in Replies
    /\ \/ pc' = "device" /\ UNCHANGED <<loop, done>>
       \/ Respond
    /\ NoRequest /\ NoFlush /\ MainStep /\ UNCHANGED <<chan, flag, ran, late>>

\* Mutant: the flush is limited by the controller of the request alone.
PrepareCallForgetful(flush, compact) ==
    /\ pc = "top" /\ loop.round < MaxRounds /\ ~flag
    /\ flush => loop.user /\ ~loop.mf
    /\ flushed' = (~compact /\ (flushed \/ flush))
    /\ cycle' = IF compact THEN 0 ELSE IF flush THEN cycle + 1 ELSE cycle
    /\ loop' = [loop EXCEPT !.mf = @ \/ flush, !.resume = @ \/ flush]
    /\ pc' = "ready"
    /\ NoRequest /\ MainStep /\ UNCHANGED <<chan, flag, ran, done, late>>

\* A memory flush may be injected before the user's message, and the context
\* may be compacted, before the model is called.
PrepareCall(flush, compact) ==
    /\ pc = "top" /\ loop.round < MaxRounds /\ ~flag
    /\ flush => loop.user /\ ~flushed /\ ~loop.mf
    /\ flushed' = (~compact /\ (flushed \/ flush))
    /\ cycle' = IF compact THEN 0 ELSE IF flush THEN cycle + 1 ELSE cycle
    /\ loop' = [loop EXCEPT !.mf = @ \/ flush, !.resume = @ \/ flush]
    /\ pc' = "ready"
    /\ NoRequest /\ MainStep /\ UNCHANGED <<chan, flag, ran, done, late>>

\* await_model_with_cancel looks at the flag before it polls the request.
CallModel ==
    /\ pc = "ready" /\ ~flag
    /\ pc' = "model"
    /\ NoRequest /\ NoFlush /\ MainStep /\ UNCHANGED <<chan, flag, loop, ran, done, late>>

\* Put a request of kind k with id i to the client and wait for its channel.
\* The client's newer dialog replaces the older one of the same kind.
Request(k, i, l) ==
    /\ asked' = Append(asked, [kind |-> k, id |-> i])
    /\ dialog' = [dialog EXCEPT ![k] = Len(asked) + 1]
    /\ pc' = "wait"
    /\ loop' = [l EXCEPT !.wait = k]

\* await_model_with_cancel sees the flag, before the request or at a tick of
\* 200 ms while it waits for the reply.
ModelCancelled ==
    /\ pc \in {"ready", "model"} /\ flag
    /\ Respond /\ NoRequest /\ NoFlush /\ MainStep
    /\ UNCHANGED <<chan, flag, ran, late>>

\* The model's reply arrives first.
InModel ==
    /\ pc = "model"
    /\ late' = IF late > 0 THEN late + 1 ELSE 0
    /\ MainStep /\ UNCHANGED <<chan, flag, ran>>

\* The model asks for n tool calls.
ModelCalls ==
    /\ InModel /\ "calls" \in Replies
    /\ \E n \in 1..MaxCalls :
         loop' = [loop EXCEPT !.left = n, !.good = FALSE, !.conts = 0]
    /\ pc' = "call"
    /\ NoRequest /\ NoFlush /\ UNCHANGED done

\* The model ends its turn with an answer, an announced intent, or the bare
\* acknowledgement of a memory flush.
ModelStops(r) ==
    /\ InModel /\ r \in Replies \cap {"text", "intent", "ack"}
    /\ IF r = "ack" /\ loop.resume
         THEN Again([loop EXCEPT !.resume = FALSE, !.user = TRUE])
       ELSE IF r = "intent" /\ loop.conts < MaxContinues
         THEN Again([loop EXCEPT !.resume = FALSE, !.user = TRUE, !.conts = @ + 1])
       ELSE Respond
    /\ NoRequest /\ NoFlush

\* Mutant: the error is reported without response_done.
ModelFailsSilently ==
    /\ InModel
    /\ pc' = "idle" /\ UNCHANGED <<loop, done>>
    /\ NoRequest /\ NoFlush

\* Truncated, unexpected finish, provider error, or no answer in 180 s.
ModelFails ==
    /\ InModel
    /\ Respond /\ NoRequest /\ NoFlush

\* The provider refuses the credentials: ask the user for an API key, or run
\* the provider's device flow.
ModelUnauthorized ==
    /\ InModel /\ "auth" \in Replies
    /\ \/ Len(asked) < MaxReqs /\ Request("credential", Len(asked) + 1, loop)
       \/ pc' = "device" /\ UNCHANGED loop /\ NoRequest
    /\ NoFlush /\ UNCHANGED done

\* The device flow ends with a token, or by error, expiry or the user's cancel.
DeviceFlow ==
    /\ pc = "device"
    /\ Again(loop) \/ Respond
    /\ NoRequest /\ NoFlush /\ MainStep /\ UNCHANGED <<chan, flag, ran, late>>

-----------------------------------------------------------------------------
(* The tool calls of a round, one after the other. *)

\* The result of the call at hand is recorded; the next call, if any, is next.
Result(ok) ==
    /\ pc' = "call"
    /\ loop' = [loop EXCEPT !.left = @ - 1, !.good = @ \/ ok]

\* The provider's id for the next call.
NextId(i) == FreshIds => \A n \in 1..Len(asked) : asked[n].id # i

\* The permission check of the next call of the round.
BeginCall(c, i) ==
    /\ pc = "call" /\ loop.left > 0
    /\ c \in ToolClasses /\ i \in RawIds /\ NextId(i)
    /\ LET l == [loop EXCEPT !.id = i, !.via = c.via] IN
       CASE c.perm = "Deny" ->
              Result(FALSE) /\ NoRequest
         [] c.perm = "Ask" ->
              /\ Len(asked) + (IF c.via = "tool" THEN 1 ELSE 2) <= MaxReqs
              /\ Request("approval", i, l)
         [] c.perm = "Allow" /\ c.via # "tool" ->
              Len(asked) < MaxReqs /\ Request(c.via, i, l)
         [] OTHER ->
              pc' = "exec" /\ UNCHANGED loop /\ NoRequest
    /\ NoFlush /\ MainStep /\ UNCHANGED <<chan, flag, ran, done, late>>

\* The tool returns, with success or not. The user's cancel is not looked at.
ToolReturns ==
    /\ pc = "exec"
    /\ \E ok \in BOOLEAN : Result(ok)
    /\ NoRequest /\ NoFlush /\ MainStep /\ UNCHANGED <<chan, flag, ran, done, late>>

\* The first queued answer is the one taken, whatever it answers.
Take(k, a) ==
    /\ Waiting(k) /\ chan[k] # << >>
    /\ a = Head(chan[k])
    /\ chan' = [chan EXCEPT ![k] = Tail(@)]

\* Mutant: any answer will do.
MatchesAny(a) == TRUE

Matches(a) == a.id = loop.id

\* An approval is taken: the call goes ahead if the answer has the call's id
\* and says yes, and is refused otherwise.
TakeApproval ==
    /\ Take("approval", Head(chan["approval"]))
    /\ LET a == Head(chan["approval"]) IN
       IF Matches(a) /\ a.ok
         THEN /\ ran' = ran \cup {Len(asked)}
              /\ IF loop.via = "tool"
                   THEN pc' = "exec" /\ UNCHANGED loop /\ NoRequest
                   ELSE Request(loop.via, loop.id, loop)
         ELSE Result(FALSE) /\ NoRequest /\ UNCHANGED ran
    /\ NoFlush /\ MainStep /\ UNCHANGED <<flag, done, late>>

\* The answer to a question is the tool's result; an answer with another id,
\* or the page's own error, makes the call fail. A dismissed prompt does not.
TakeReply(k) ==
    /\ k \in {"user_prompt", "dom_query"}
    /\ Take(k, Head(chan[k]))
    /\ LET a == Head(chan[k]) IN
         Result(Matches(a) /\ (k = "dom_query" => a.ok))
    /\ NoRequest /\ NoFlush /\ MainStep /\ UNCHANGED <<flag, ran, done, late>>

\* A credential lets the request go on with the next round; a dismissed
\* dialog, or an answer to another request, ends it.
TakeCredential ==
    /\ Take("credential", Head(chan["credential"]))
    /\ LET a == Head(chan["credential"]) IN
       IF a.id = Len(asked) /\ a.ok THEN Again(loop) ELSE Respond
    /\ NoRequest /\ NoFlush /\ MainStep /\ UNCHANGED <<flag, ran, late>>

\* Mutant: the wait has no timeout.
GiveUpClosed(k) ==
    /\ Waiting(k) /\ chan[k] = << >> /\ ~reader
    /\ IF k = "credential" THEN Respond ELSE Result(FALSE) /\ UNCHANGED done
    /\ NoRequest /\ NoFlush /\ MainStep /\ UNCHANGED <<chan, flag, ran, late>>

\* Nothing came in time, or the channel is closed: the call fails, and a
\* request without credentials ends.
GiveUp(k) ==
    /\ Waiting(k) /\ chan[k] = << >>
    /\ IF k = "credential" THEN Respond ELSE Result(FALSE) /\ UNCHANGED done
    /\ NoRequest /\ NoFlush /\ MainStep /\ UNCHANGED <<chan, flag, ran, late>>

\* Mutant: the cancel flag is cleared for every round, not for every request.
EndRoundClears ==
    /\ pc = "call" /\ loop.left = 0
    /\ LET f == IF loop.good THEN 0 ELSE loop.fails + 1 IN
       IF f >= MaxFailed
         THEN Respond
         ELSE Again([loop EXCEPT !.fails = f, !.user = FALSE])
    /\ flag' = FALSE
    /\ NoRequest /\ NoFlush /\ MainStep /\ UNCHANGED <<chan, ran, late>>

\* All calls of the round are done: stop after too many rounds in a row
\* without a success, else go on with the next round.
EndRound ==
    /\ pc = "call" /\ loop.left = 0
    /\ LET f == IF loop.good THEN 0 ELSE loop.fails + 1 IN
       IF f >= MaxFailed
         THEN Respond
         ELSE Again([loop EXCEPT !.fails = f, !.user = FALSE])
    /\ NoRequest /\ NoFlush /\ MainStep /\ UNCHANGED <<chan, flag, ran, late>>

-----------------------------------------------------------------------------

ClientNext ==
    \/ SendChat \/ SendCancel \/ Disconnect \/ Shutdown
    \/ \E k \in Kinds : AnswerDialog(k)

ReaderNext == ReadChat \/ ReadCancel \/ ReadAnswer \/ ReaderExit

ModelNext ==
    \/ ModelCancelled \/ ModelCalls \/ ModelFails \/ ModelUnauthorized
    \/ \E r \in Replies : ModelStops(r)

CallNext ==
    \/ \E c \in ToolClasses, i \in RawIds : BeginCall(c, i)
    \/ ToolReturns \/ TakeApproval \/ TakeCredential \/ EndRound
    \/ \E k \in Kinds : TakeReply(k) \/ GiveUp(k)

MainNext ==
    \/ TakeChat \/ TakeChatNoModel \/ Stop \/ WriteFails
    \/ TopStops \/ TokenFails \/ DeviceFlow
    \/ \E f, c \in BOOLEAN : PrepareCall(f, c)
    \/ CallModel \/ ModelNext \/ CallNext

Next == ClientNext \/ ReaderNext \/ MainNext

Spec == Init /\ [][Next]_vars

\* tokio runs a task that can run, and every wait of the main loop has a
\* timeout; tools are assumed to return. Nothing is assumed of the client, nor
\* of the model beyond its 180 s.
Fairness == WF_vars(ReaderNext) /\ WF_vars(MainNext)

LiveSpec == Spec /\ Fairness

-----------------------------------------------------------------------------
(* Properties. *)

Msgs == [t : {"chat", "cancel"}, n : Nat]
        \cup [t : {"answer"}, kind : Kinds, id : Ids, ok : BOOLEAN]

Loops == [round : Nat, left : Nat, good : BOOLEAN, conts : Nat, fails : Nat,
          resume : BOOLEAN, mf : BOOLEAN, user : BOOLEAN,
          wait : Kinds, id : Ids, via : {"tool", "user_prompt", "dom_query"}]

Requests == [kind : Kinds, id : Ids]

ClientTypeOK ==
    /\ wire \in Seq(Msgs) /\ up \in BOOLEAN
    /\ dialog \in [Kinds -> Nat] /\ sent \in Nat /\ cancels \in Nat

ChannelTypeOK ==
    /\ frames \in Seq(Nat) /\ Len(frames) <= FrameCap
    /\ chan \in [Kinds -> Seq(Msgs)]
    /\ \A k \in Kinds : Len(chan[k]) <= ChanCap

LoopTypeOK ==
    /\ shut \in BOOLEAN /\ reader \in BOOLEAN /\ flag \in BOOLEAN
    /\ pc \in {"idle", "top", "ready", "model", "call", "wait", "exec", "device",
               "stopped"}
    /\ loop \in Loops
    /\ flushed \in BOOLEAN

HistoryTypeOK ==
    /\ asked \in Seq(Requests)
    /\ yes \subseteq Nat /\ ran \subseteq Nat
    /\ cur \in Nat /\ done \in Nat /\ cycle \in Nat /\ late \in Nat

\* Type invariant: every variable stays in its set, and no channel of the
\* connection ever holds more than its capacity.
TypeOK == ClientTypeOK /\ ChannelTypeOK /\ LoopTypeOK /\ HistoryTypeOK

\* ToolPermission::Ask, "requires user confirmation each time": a call is let
\* through only if the user said yes to the request put for that very call.
\* The answers travel through a channel that outlives the requests, so a late
\* answer to an older request meets the wait of a newer one.
ConfirmedEachTime == ran \subseteq yes

\* ... which the id check of the approval wait gives as long as the provider
\* never repeats the id of a call it asked for.
ConfirmedIfIdsFresh == FreshIds => ConfirmedEachTime

\* A Cancel read while a chat is served stops its tool loop: at most the one
\* model reply that was on its way is still acted upon, whatever waits,
\* retries and continuations the dispatch is in.
CancelStopsLoop == late <= 2

\* Every way out of the dispatch of a chat sends response_done, once, and the
\* dispatch does nothing more for the chat after it.
AnsweredOnce ==
    /\ Busy => done = 0
    /\ done <= 1
    /\ pc = "idle" /\ cur > 0 /\ Configured = {TRUE} => done = 1

\* The memory flush is injected at most once between two compactions of the
\* thread, over all the chats and rounds in between.
FlushOncePerCycle == cycle <= 1

\* A chat in service comes to its end, whatever the client and the model do or
\* do not do: each wait has a timeout and each loop of the dispatch a limit.
ChatEnds == Busy ~> ~Busy

\* What a service has before it: rounds, what is left of this one, its calls, and
\* what is left of the call at hand.
RoundStage == CASE pc = "top" -> 5 [] pc = "ready" -> 4 [] pc = "model" -> 3
                [] pc = "device" \/ Waiting("credential") -> 2
                [] OTHER -> 1
CallStage == CASE pc = "call" -> 3 [] Waiting("approval") -> 2 [] OTHER -> 1
WorkLeft == <<MaxRounds - loop.round, RoundStage, loop.left, CallStage>>

Shorter(a, b) == \E n \in 1..4 : a[n] < b[n] /\ \A m \in 1 .. n - 1 : a[m] = b[m]

\* No service goes round in circles: each step of the main loop ends it or
\* leaves less to do, and the client and the reader add nothing to it.
ServiceRunsOut ==
    [][Busy => \/ ~Busy'
               \/ MainNext /\ Shorter(WorkLeft', WorkLeft)
               \/ (ClientNext \/ ReaderNext) /\ UNCHANGED WorkLeft]_vars

\* The rounds before it are a number.
RoundsLeft == Busy => loop.round <= MaxRounds /\ (pc # "top" => loop.round < MaxRounds)

\* A gateway told to stop, and a client that left, end the connection, unless
\* the reader is stuck behind answers that nothing takes any more.
ConnectionEnds == (shut \/ ~up) ~> (pc = "stopped" \/ (Blocked /\ ~shut))

\* The connection as its user sees it.
Service == INSTANCE ChatService WITH
    turn <- cur,
    phase <- IF pc = "stopped" THEN "closed" ELSE IF Busy THEN "serving" ELSE "idle",
    answers <- done,
    requests <- Len(asked),
    granted <- yes,
    through <- ran,
    overrun <- late

\* Every step of the connection is one that its user was promised, or none the
\* user sees: no Chat is skipped, taken twice or out of order, no request is put
\* and nothing goes ahead outside a service or on another request's yes.
ServiceKept == Service!Spec

-----------------------------------------------------------------------------
(* The inductive invariant behind ConfirmedIfIdsFresh: a yes on its way is a *)
(* yes the user gave to a request with that kind and id.                     *)

Signed(m, requests, granted) ==
    m.t = "answer" /\ m.ok =>
        \E n \in granted : /\ n \in 1..Len(requests)
                           /\ requests[n] = [kind |-> m.kind, id |-> m.id]

AnswersSigned ==
    /\ \A n \in 1..Len(wire) : Signed(wire[n], asked, yes)
    /\ \A k \in Kinds : \A n \in 1..Len(chan[k]) :
         /\ chan[k][n].t = "answer" /\ chan[k][n].kind = k
         /\ Signed(chan[k][n], asked, yes)

DialogsAsked ==
    \A k \in Kinds :
        /\ dialog[k] <= Len(asked)
        /\ dialog[k] # 0 => asked[dialog[k]].kind = k

WaitsForLast ==
    Waiting("approval") =>
        Len(asked) > 0 /\ asked[Len(asked)] = [kind |-> "approval", id |-> loop.id]

\* A call that runs, or waits for the client, is still to be counted.
CallPending ==
    pc = "exec" \/ (pc = "wait" /\ loop.wait # "credential") => loop.left > 0

ApprovalIdsDistinct ==
    FreshIds => \A m, n \in 1..Len(asked) :
        asked[m] = asked[n] /\ asked[m].kind = "approval" => m = n

\* The Chats taken, queued and on their way are numbered in one row.
ChatsOnWire == {n \in 1..Len(wire) : wire[n].t = "chat"}

ChatsInOrder ==
    /\ \A n \in 1..Len(frames) : frames[n] = cur + n
    /\ \A m, n \in ChatsOnWire : m < n => wire[m].n < wire[n].n
    /\ {wire[n].n : n \in ChatsOnWire} = cur + Len(frames) + 1 .. sent
    /\ cur + Len(frames) <= sent

\* Nothing was let through yet on the request that is waited for.
RanBefore ==
    /\ ran \subseteq 1..Len(asked)
    /\ Waiting("approval") => Len(asked) \notin ran

IInv ==
    /\ TypeOK /\ CallPending /\ AnswersSigned /\ DialogsAsked /\ WaitsForLast
    /\ ApprovalIdsDistinct /\ ConfirmedIfIdsFresh
=============================================================================
