-------------------------- MODULE ChatSessionProofs --------------------------
(* Proofs about ChatSession, for every value of its constants. *)
EXTENDS ChatSession, TLAPS

USE ConstantsAssumption DEF ConstantsAssumption

(***************************************************************************)
(* Type correctness, which includes the capacities of the channels.        *)
(***************************************************************************)
\* The connection starts within its types.
LEMMA InitType == Init => TypeOK
<1> SUFFICES ASSUME Init PROVE TypeOK
  OBVIOUS
<1>1. ClientTypeOK
  BY DEF Init, ClientTypeOK
<1>2. ChannelTypeOK
  <2>1. frames \in Seq(Nat) /\ Len(frames) <= FrameCap
    BY DEF Init
  <2>2. chan \in [Kinds -> Seq(Msgs)] /\ \A k \in Kinds : Len(chan[k]) <= ChanCap
    BY DEF Init
  <2> QED
    BY <2>1, <2>2 DEF ChannelTypeOK
<1>3. LoopTypeOK
  BY DEF Init, LoopTypeOK, FreshLoop, Loops, Ids, Kinds
<1>4. HistoryTypeOK
  BY DEF Init, HistoryTypeOK
<1> QED
  BY <1>1, <1>2, <1>3, <1>4 DEF TypeOK

\* The request a dialog shows is one of those asked.
LEMMA ShownRequest ==
    ASSUME TypeOK, DialogsAsked, NEW k \in Kinds, dialog[k] # 0
    PROVE  /\ dialog[k] \in 1..Len(asked)
           /\ asked[dialog[k]].id \in Ids
           /\ asked[dialog[k]] = [kind |-> k, id |-> asked[dialog[k]].id]
<1>1. dialog[k] \in Nat /\ asked \in Seq(Requests)
  BY DEF TypeOK, ClientTypeOK, HistoryTypeOK
<1>2. dialog[k] \in 1..Len(asked)
  BY <1>1 DEF DialogsAsked
<1>3. asked[dialog[k]] \in Requests
  BY <1>1, <1>2
<1> QED
  BY <1>2, <1>3 DEF DialogsAsked, Requests

\* A client step keeps the types: an answer carries the id of the request shown.
LEMMA ClientType == TypeOK /\ DialogsAsked /\ ClientNext => TypeOK'
<1> SUFFICES ASSUME TypeOK, DialogsAsked, ClientNext PROVE TypeOK'
  OBVIOUS
<1> USE DEF TypeOK
<1>1. CASE SendChat
  BY <1>1 DEF SendChat, Chat, Msgs, gateway, history, ClientTypeOK, ChannelTypeOK,
              LoopTypeOK, HistoryTypeOK
<1>2. CASE SendCancel
  BY <1>2 DEF SendCancel, Cancel, Msgs, gateway, history, ClientTypeOK, ChannelTypeOK,
              LoopTypeOK, HistoryTypeOK
<1>3. CASE Disconnect
  BY <1>3 DEF Disconnect, gateway, history, ClientTypeOK, ChannelTypeOK,
              LoopTypeOK, HistoryTypeOK
<1>4. CASE Shutdown
  BY <1>4 DEF Shutdown, client, history, ClientTypeOK, ChannelTypeOK,
              LoopTypeOK, HistoryTypeOK
<1>5. ASSUME NEW k \in Kinds, AnswerDialog(k) PROVE TypeOK'
  <2>1. dialog[k] \in Nat /\ asked[dialog[k]].id \in Ids
    BY <1>5, ShownRequest DEF AnswerDialog, ClientTypeOK
  <2>2. PICK ok \in BOOLEAN :
           /\ wire' = Append(wire, Answer(k, asked[dialog[k]].id, ok))
           /\ yes' = IF ok THEN yes \cup {dialog[k]} ELSE yes
    BY <1>5 DEF AnswerDialog
  <2>3. Answer(k, asked[dialog[k]].id, ok) \in Msgs
    BY <2>1 DEF Answer, Msgs
  <2>4. ClientTypeOK'
    BY <1>5, <2>2, <2>3 DEF AnswerDialog, ClientTypeOK
  <2>5. HistoryTypeOK'
    BY <1>5, <2>1, <2>2 DEF AnswerDialog, HistoryTypeOK
  <2> QED
    BY <1>5, <2>4, <2>5 DEF AnswerDialog, gateway, ChannelTypeOK, LoopTypeOK
<1> QED
  BY <1>1, <1>2, <1>3, <1>4, <1>5 DEF ClientNext

\* A reader step keeps the types: it waits for room before it queues a frame.
LEMMA ReaderType == TypeOK /\ ReaderNext => TypeOK'
<1> SUFFICES ASSUME TypeOK, ReaderNext PROVE TypeOK'
  OBVIOUS
<1> USE DEF TypeOK
<1>1. ASSUME Receive
      PROVE  /\ wire # << >> /\ Head(wire) \in Msgs
             /\ ClientTypeOK' /\ asked' = asked /\ yes' = yes /\ ran' = ran
             /\ cur' = cur /\ done' = done /\ cycle' = cycle
  BY <1>1 DEF Receive, ClientTypeOK
<1>2. CASE ReadChat
  <2>1. Head(wire).n \in Nat
    BY <1>1, <1>2 DEF ReadChat, Msgs
  <2>2. ChannelTypeOK'
    BY <1>2, <2>1 DEF ReadChat, ChannelTypeOK
  <2> QED
    BY <1>1, <1>2, <2>2 DEF ReadChat, Receive, LoopTypeOK, HistoryTypeOK
<1>3. CASE ReadCancel
  <2>1. Head(wire).n \in Nat
    BY <1>1, <1>3 DEF ReadCancel, Msgs
  <2>2. HistoryTypeOK' /\ LoopTypeOK'
    BY <1>1, <1>3, <2>1 DEF ReadCancel, Receive, LoopTypeOK, HistoryTypeOK
  <2> QED
    BY <1>1, <1>3, <2>2 DEF ReadCancel, ChannelTypeOK
<1>4. CASE ReadAnswer
  <2>1. Head(wire).kind \in Kinds
    BY <1>1, <1>4 DEF ReadAnswer, Msgs
  <2>2. ChannelTypeOK'
    BY <1>1, <1>4, <2>1 DEF ReadAnswer, ChannelTypeOK
  <2> QED
    BY <1>1, <1>4, <2>2 DEF ReadAnswer, Receive, LoopTypeOK, HistoryTypeOK
<1>5. CASE ReaderExit
  BY <1>5 DEF ReaderExit, client, history, ClientTypeOK, ChannelTypeOK,
              LoopTypeOK, HistoryTypeOK
<1> QED
  BY <1>2, <1>3, <1>4, <1>5 DEF ReaderNext

PCs == {"idle", "top", "ready", "model", "call", "wait", "exec", "device", "stopped"}

\* The building blocks of the main loop's steps.
LEMMA MainStepType ==
    ASSUME TypeOK, MainStep, UNCHANGED flag, ChannelTypeOK',
           dialog' \in [Kinds -> Nat], asked' \in Seq(Requests), ran' \subseteq Nat,
           pc' \in PCs, loop' \in Loops, flushed' \in BOOLEAN,
           done' \in Nat, cycle' \in Nat, late' \in Nat
    PROVE  TypeOK'
BY DEF TypeOK, MainStep, ClientTypeOK, LoopTypeOK, HistoryTypeOK, PCs

\* Putting a request to the client.
LEMMA RequestType ==
    ASSUME TypeOK, NEW k \in Kinds, NEW i \in Ids, NEW l \in Loops, Request(k, i, l)
    PROVE  /\ asked' \in Seq(Requests) /\ dialog' \in [Kinds -> Nat]
           /\ pc' = "wait" /\ loop' \in Loops
<1> DEFINE r == [kind |-> k, id |-> i]
<1>1. asked \in Seq(Requests) /\ dialog \in [Kinds -> Nat]
  BY DEF TypeOK, HistoryTypeOK, ClientTypeOK
<1>2. r \in Requests
  BY DEF Requests
<1>3. /\ asked' = Append(asked, r)
      /\ dialog' = [dialog EXCEPT ![k] = Len(asked) + 1]
      /\ pc' = "wait" /\ loop' = [l EXCEPT !.wait = k]
  BY DEF Request
<1>4. loop' \in Loops
  BY <1>3 DEF Loops
<1>5. asked' \in Seq(Requests)
  <2> HIDE DEF r
  <2> QED
    BY <1>1, <1>2, <1>3
<1>6. dialog' \in [Kinds -> Nat]
  <2>1. Len(asked) + 1 \in Nat
    BY <1>1
  <2> QED
    BY <1>1, <1>3, <2>1
<1> QED
  BY <1>3, <1>4, <1>5, <1>6

\* Going on with the next round.
LEMMA AgainType ==
    ASSUME TypeOK, NEW l \in Loops, Again(l)
    PROVE  pc' = "top" /\ loop' \in Loops /\ done' \in Nat
<1>1. l.round + 1 \in Nat
  BY DEF Loops
<1>2. \A n \in Nat : [l EXCEPT !.round = n] \in Loops
  BY DEF Loops
<1>3. loop' \in Loops
  BY <1>1, <1>2 DEF Again
<1> QED
  BY <1>3 DEF Again, TypeOK, HistoryTypeOK

\* Ending the dispatch.
LEMMA RespondType ==
    ASSUME TypeOK, Respond
    PROVE  pc' = "idle" /\ loop' \in Loops /\ done' \in Nat
BY DEF Respond, TypeOK, LoopTypeOK, HistoryTypeOK

\* Recording the result of a call that has not been counted yet.
LEMMA ResultType ==
    ASSUME TypeOK, loop.left > 0, NEW ok \in BOOLEAN, Result(ok)
    PROVE  pc' = "call" /\ loop' \in Loops
<1>1. loop \in Loops
  BY DEF TypeOK, LoopTypeOK
<1>2. loop.left - 1 \in Nat /\ (loop.good \/ ok) \in BOOLEAN
  BY <1>1 DEF Loops
<1>3. \A n \in Nat, b \in BOOLEAN : [loop EXCEPT !.left = n, !.good = b] \in Loops
  BY <1>1 DEF Loops
<1> QED
  BY <1>2, <1>3 DEF Result

\* What the type invariant says of the parts the steps are made of.
LEMMA UnchangedType ==
    TypeOK => /\ loop \in Loops /\ done \in Nat /\ late \in Nat /\ cycle \in Nat
              /\ pc \in PCs /\ flushed \in BOOLEAN /\ ran \subseteq Nat
              /\ (NoRequest => asked' \in Seq(Requests) /\ dialog' \in [Kinds -> Nat])
              /\ (NoFlush => cycle' \in Nat /\ flushed' \in BOOLEAN)
              /\ (MainStep /\ UNCHANGED chan => ChannelTypeOK')
              /\ loop.id \in Ids /\ loop.left \in Nat
              /\ loop.fails \in Nat /\ loop.conts \in Nat
              /\ loop.via \in {"tool", "user_prompt", "dom_query"}
              /\ Len(asked) \in Nat /\ Len(asked) + 1 \in Ids
<1> SUFFICES ASSUME TypeOK
             PROVE  /\ loop \in Loops /\ done \in Nat /\ late \in Nat /\ cycle \in Nat
                    /\ pc \in PCs /\ flushed \in BOOLEAN /\ ran \subseteq Nat
                    /\ (NoRequest => asked' \in Seq(Requests) /\ dialog' \in [Kinds -> Nat])
                    /\ (NoFlush => cycle' \in Nat /\ flushed' \in BOOLEAN)
                    /\ (MainStep /\ UNCHANGED chan => ChannelTypeOK')
                    /\ loop.id \in Ids /\ loop.left \in Nat
                    /\ loop.fails \in Nat /\ loop.conts \in Nat
                    /\ loop.via \in {"tool", "user_prompt", "dom_query"}
                    /\ Len(asked) \in Nat /\ Len(asked) + 1 \in Ids
  OBVIOUS
<1>1. /\ loop \in Loops /\ done \in Nat /\ late \in Nat /\ cycle \in Nat
      /\ pc \in PCs /\ flushed \in BOOLEAN /\ ran \subseteq Nat
      /\ asked \in Seq(Requests) /\ dialog \in [Kinds -> Nat]
  BY DEF TypeOK, ClientTypeOK, LoopTypeOK, HistoryTypeOK, PCs
<1>2. NoRequest => asked' \in Seq(Requests) /\ dialog' \in [Kinds -> Nat]
  BY <1>1 DEF NoRequest
<1>3. NoFlush => cycle' \in Nat /\ flushed' \in BOOLEAN
  BY <1>1 DEF NoFlush
<1>4. MainStep /\ UNCHANGED chan => ChannelTypeOK'
  BY DEF TypeOK, ChannelTypeOK, MainStep
<1>5. /\ loop.id \in Ids /\ loop.left \in Nat
      /\ loop.fails \in Nat /\ loop.conts \in Nat
      /\ loop.via \in {"tool", "user_prompt", "dom_query"}
  BY <1>1 DEF Loops
<1>6. Len(asked) \in Nat /\ Len(asked) + 1 \in Ids
  BY <1>1 DEF Ids
<1> QED
  BY <1>1, <1>2, <1>3, <1>4, <1>5, <1>6

\* Taking an answer from a channel.
LEMMA TakeType ==
    ASSUME TypeOK, MainStep, NEW k \in Kinds, NEW a, Take(k, a)
    PROVE  ChannelTypeOK'
<1>1. chan[k] \in Seq(Msgs) /\ chan[k] # << >> /\ Len(chan[k]) <= ChanCap
  BY DEF Take, TypeOK, ChannelTypeOK
<1>2. Tail(chan[k]) \in Seq(Msgs) /\ Len(Tail(chan[k])) <= ChanCap
  BY <1>1
<1>3. chan' = [chan EXCEPT ![k] = Tail(chan[k])] /\ frames' = frames
  BY DEF Take, MainStep
<1> QED
  BY <1>2, <1>3 DEF TypeOK, ChannelTypeOK

\* The permission check of a call keeps the types.
LEMMA BeginCallType ==
    ASSUME TypeOK, NEW c \in ToolClasses, NEW i \in RawIds, BeginCall(c, i)
    PROVE  TypeOK'
<1> USE UnchangedType, MainStepType
<1> DEFINE l == [loop EXCEPT !.id = i, !.via = c.via]
<1>1. c \in AllClasses /\ c.via \in {"tool", "user_prompt", "dom_query"} /\ i \in Ids
  BY DEF AllClasses, Ids
<1>2. l \in Loops
  BY <1>1 DEF Loops
<1>3. NoFlush /\ MainStep /\ UNCHANGED <<chan, flag, ran, done, late>> /\ loop.left > 0
  BY DEF BeginCall
<1>4. CASE c.perm = "Deny"
  <2>1. Result(FALSE) /\ NoRequest
    BY <1>4 DEF BeginCall
  <2>2. pc' = "call" /\ loop' \in Loops
    BY <1>3, <2>1, ResultType
  <2> QED
    BY <1>3, <2>1, <2>2 DEF PCs
<1>5. ASSUME NEW k \in Kinds, Request(k, i, l) PROVE TypeOK'
  <2>1. /\ asked' \in Seq(Requests) /\ dialog' \in [Kinds -> Nat]
        /\ pc' = "wait" /\ loop' \in Loops
    BY <1>1, <1>2, <1>5, RequestType
  <2> QED
    BY <1>3, <2>1 DEF PCs
<1>6. CASE c.perm = "Ask"
  BY <1>5, <1>6 DEF BeginCall, Kinds
<1>7. CASE c.perm = "Allow" /\ c.via # "tool"
  BY <1>1, <1>5, <1>7 DEF BeginCall, Kinds
<1>8. CASE c.perm = "Allow" /\ c.via = "tool"
  <2>1. pc' = "exec" /\ UNCHANGED loop /\ NoRequest
    BY <1>8 DEF BeginCall
  <2> QED
    BY <1>3, <2>1 DEF PCs
<1> QED
  BY <1>1, <1>4, <1>6, <1>7, <1>8 DEF AllClasses

\* A step of the main loop that asks nothing, flushes nothing and takes nothing.
LEMMA QuietType ==
    ASSUME TypeOK, MainStep, NoRequest, NoFlush, UNCHANGED <<flag, chan>>,
           pc' \in PCs, loop' \in Loops, done' \in Nat,
           ran' \subseteq Nat, late' \in Nat
    PROVE  TypeOK'
BY UnchangedType, MainStepType

\* Taking an approval keeps the types.
LEMMA TakeApprovalType ==
    ASSUME TypeOK, CallPending, TakeApproval
    PROVE  TypeOK'
<1> USE UnchangedType, MainStepType
<1> DEFINE a == Head(chan["approval"])
<1>1. /\ NoFlush /\ MainStep /\ UNCHANGED <<flag, done, late>>
      /\ Take("approval", a) /\ loop.left > 0
  BY DEF TakeApproval, CallPending, Take, Waiting
<1>2. ChannelTypeOK'
  BY <1>1, TakeType DEF Kinds
<1>3. CASE Matches(a) /\ a.ok
  <2>1. ran' \subseteq Nat
    BY <1>3 DEF TakeApproval
  <2>2. CASE loop.via = "tool"
    <3>1. pc' = "exec" /\ UNCHANGED loop /\ NoRequest
      BY <1>3, <2>2 DEF TakeApproval
    <3> QED
      BY <1>1, <1>2, <2>1, <3>1 DEF PCs
  <2>3. CASE loop.via # "tool"
    <3>1. Request(loop.via, loop.id, loop) /\ loop.via \in Kinds
      BY <1>3, <2>3 DEF TakeApproval, Kinds
    <3>2. /\ asked' \in Seq(Requests) /\ dialog' \in [Kinds -> Nat]
          /\ pc' = "wait" /\ loop' \in Loops
      BY <3>1, RequestType
    <3> QED
      BY <1>1, <1>2, <2>1, <3>2 DEF PCs
  <2> QED
    BY <2>2, <2>3
<1>4. CASE ~(Matches(a) /\ a.ok)
  <2>1. Result(FALSE) /\ NoRequest /\ UNCHANGED ran
    BY <1>4 DEF TakeApproval
  <2>2. pc' = "call" /\ loop' \in Loops
    BY <1>1, <2>1, ResultType
  <2> QED
    BY <1>1, <1>2, <2>1, <2>2 DEF PCs
<1> QED
  BY <1>3, <1>4

\* Every step of the round's tool calls keeps the types.
LEMMA CallType == TypeOK /\ CallPending /\ CallNext => TypeOK'
<1> SUFFICES ASSUME TypeOK, CallPending, CallNext PROVE TypeOK'
  OBVIOUS
<1> USE UnchangedType
<1>1. ASSUME NEW c \in ToolClasses, NEW i \in RawIds, BeginCall(c, i) PROVE TypeOK'
  BY <1>1, BeginCallType
<1>2. CASE ToolReturns
  <2>1. PICK ok \in BOOLEAN : Result(ok)
    BY <1>2 DEF ToolReturns
  <2>2. loop.left > 0
    BY <1>2 DEF ToolReturns, CallPending
  <2>3. pc' = "call" /\ loop' \in Loops
    BY <2>1, <2>2, ResultType
  <2> QED
    BY <1>2, <2>3, QuietType DEF ToolReturns, PCs
<1>3. CASE TakeApproval
  BY <1>3, TakeApprovalType
<1>4. CASE TakeCredential
  <2>1. ChannelTypeOK'
    BY <1>4, TakeType DEF TakeCredential, Kinds
  <2>2. Again(loop) \/ Respond
    BY <1>4 DEF TakeCredential
  <2>3. pc' \in PCs /\ loop' \in Loops /\ done' \in Nat
    BY <2>2, AgainType, RespondType DEF PCs
  <2> QED
    BY <1>4, <2>1, <2>3, MainStepType DEF TakeCredential
<1>5. CASE EndRound
  <2> DEFINE f == IF loop.good THEN 0 ELSE loop.fails + 1
             l == [loop EXCEPT !.fails = f, !.user = FALSE]
  <2>a. f \in Nat
    OBVIOUS
  <2>b. \A n \in Nat : [loop EXCEPT !.fails = n, !.user = FALSE] \in Loops
    BY DEF Loops
  <2>2. l \in Loops
    BY <2>a, <2>b
  <2>3. Again(l) \/ Respond
    BY <1>5 DEF EndRound
  <2>4. pc' \in PCs /\ loop' \in Loops /\ done' \in Nat
    BY <2>2, <2>3, AgainType, RespondType DEF PCs
  <2> QED
    BY <1>5, <2>4, QuietType DEF EndRound
<1>6. ASSUME NEW k \in Kinds, TakeReply(k) PROVE TypeOK'
  <2>1. ChannelTypeOK'
    BY <1>6, TakeType DEF TakeReply
  <2>2. loop.left > 0
    BY <1>6 DEF TakeReply, Take, Waiting, CallPending
  <2> DEFINE a == Head(chan[k])
             good == Matches(a) /\ (k = "dom_query" => a.ok)
  <2>4. Result(good) /\ good \in BOOLEAN
    BY <1>6 DEF TakeReply
  <2>3. pc' = "call" /\ loop' \in Loops
    BY <2>2, <2>4, ResultType
  <2> QED
    BY <1>6, <2>1, <2>3, MainStepType DEF TakeReply, PCs
<1>7. ASSUME NEW k \in Kinds, GiveUp(k) PROVE TypeOK'
  <2>1. CASE k = "credential"
    <3>1. pc' \in PCs /\ loop' \in Loops /\ done' \in Nat
      BY <1>7, <2>1, RespondType DEF GiveUp, PCs
    <3> QED
      BY <1>7, <3>1, QuietType DEF GiveUp
  <2>2. CASE k # "credential"
    <3>1. loop.left > 0
      BY <1>7, <2>2 DEF GiveUp, Waiting, CallPending
    <3>2. pc' = "call" /\ loop' \in Loops /\ done' \in Nat
      BY <1>7, <2>2, <3>1, ResultType DEF GiveUp
    <3> QED
      BY <1>7, <3>2, QuietType DEF GiveUp, PCs
  <2> QED
    BY <2>1, <2>2
<1> QED
  BY <1>1, <1>2, <1>3, <1>4, <1>5, <1>6, <1>7 DEF CallNext

\* Every outcome of a model request keeps the types.
LEMMA ModelType == TypeOK /\ ModelNext => TypeOK'
<1> SUFFICES ASSUME TypeOK, ModelNext PROVE TypeOK'
  OBVIOUS
<1> USE UnchangedType
<1>0. ASSUME InModel
      PROVE  MainStep /\ UNCHANGED <<chan, flag, ran>> /\ late' \in Nat
  BY <1>0 DEF InModel
<1>1. CASE ModelCancelled
  <2>1. pc' \in PCs /\ loop' \in Loops /\ done' \in Nat
    BY <1>1, RespondType DEF ModelCancelled, PCs
  <2> QED
    BY <1>1, <2>1, QuietType DEF ModelCancelled
<1>2. CASE ModelCalls
  <2>1. PICK n \in 1..MaxCalls :
           loop' = [loop EXCEPT !.left = n, !.good = FALSE, !.conts = 0]
    BY <1>2 DEF ModelCalls
  <2>a. \A m \in Nat : [loop EXCEPT !.left = m, !.good = FALSE, !.conts = 0] \in Loops
    BY DEF Loops
  <2>b. n \in Nat
    OBVIOUS
  <2>2. loop' \in Loops
    BY <2>1, <2>a, <2>b
  <2> QED
    BY <1>0, <1>2, <2>2, QuietType DEF ModelCalls, PCs
<1>3. CASE ModelFails
  <2>1. pc' \in PCs /\ loop' \in Loops /\ done' \in Nat
    BY <1>3, RespondType DEF ModelFails, PCs
  <2> QED
    BY <1>0, <1>3, <2>1, QuietType DEF ModelFails
<1>4. CASE ModelUnauthorized
  <2>1. CASE Request("credential", Len(asked) + 1, loop)
    <3>1. /\ asked' \in Seq(Requests) /\ dialog' \in [Kinds -> Nat]
          /\ pc' = "wait" /\ loop' \in Loops
      BY <2>1, RequestType DEF Kinds
    <3> QED
      BY <1>0, <1>4, <3>1, MainStepType DEF ModelUnauthorized, PCs
  <2>2. CASE pc' = "device" /\ UNCHANGED loop /\ NoRequest
    BY <1>0, <1>4, <2>2, QuietType DEF ModelUnauthorized, PCs
  <2> QED
    BY <1>4, <2>1, <2>2 DEF ModelUnauthorized
<1>5. ASSUME NEW r \in Replies, ModelStops(r) PROVE TypeOK'
  <2> DEFINE m == [loop EXCEPT !.resume = FALSE, !.user = TRUE, !.conts = @ + 1]
  <2>1. [loop EXCEPT !.resume = FALSE, !.user = TRUE] \in Loops
    BY DEF Loops
  <2>a. loop.conts + 1 \in Nat
    OBVIOUS
  <2>2. \A n \in Nat : [loop EXCEPT !.resume = FALSE, !.user = TRUE, !.conts = n] \in Loops
    BY DEF Loops
  <2>3. m \in Loops
    BY <2>a, <2>2
  <2>4. \/ Again([loop EXCEPT !.resume = FALSE, !.user = TRUE])
        \/ Again(m)
        \/ Respond
    BY <1>5 DEF ModelStops
  <2>5. pc' \in PCs /\ loop' \in Loops /\ done' \in Nat
    BY <2>1, <2>3, <2>4, AgainType, RespondType DEF PCs
  <2> QED
    BY <1>0, <1>5, <2>5, QuietType DEF ModelStops
<1> QED
  BY <1>1, <1>2, <1>3, <1>4, <1>5 DEF ModelNext

\* Flushing and compacting keep the types.
LEMMA PrepareCallType ==
    ASSUME TypeOK, NEW f \in BOOLEAN, NEW c \in BOOLEAN, PrepareCall(f, c)
    PROVE  TypeOK'
<1>t. loop \in Loops /\ cycle \in Nat /\ done \in Nat /\ late \in Nat /\ ran \subseteq Nat
  BY UnchangedType
<1>0. /\ NoRequest /\ MainStep /\ UNCHANGED <<chan, flag, ran, done, late>>
      /\ pc' = "ready"
      /\ flushed' = (~c /\ (flushed \/ f))
      /\ cycle' = IF c THEN 0 ELSE IF f THEN cycle + 1 ELSE cycle
      /\ loop' = [loop EXCEPT !.mf = @ \/ f, !.resume = @ \/ f]
  BY DEF PrepareCall
<1>1. flushed' \in BOOLEAN /\ cycle' \in Nat
  BY <1>t, <1>0
<1>2. \A b, d \in BOOLEAN : [loop EXCEPT !.mf = b, !.resume = d] \in Loops
  BY <1>t DEF Loops
<1>3. (loop.mf \/ f) \in BOOLEAN /\ (loop.resume \/ f) \in BOOLEAN
  BY <1>t DEF Loops
<1>4. loop' \in Loops
  BY <1>0, <1>2, <1>3
<1>5. ChannelTypeOK' /\ asked' \in Seq(Requests) /\ dialog' \in [Kinds -> Nat]
  BY <1>0, UnchangedType
<1>6. /\ pc' \in PCs /\ done' \in Nat /\ late' \in Nat /\ ran' \subseteq Nat
      /\ UNCHANGED flag
  BY <1>t, <1>0 DEF PCs
<1> QED
  BY <1>0, <1>1, <1>4, <1>5, <1>6, MainStepType

\* Every step of the main loop keeps the types.
LEMMA MainType == TypeOK /\ CallPending /\ MainNext => TypeOK'
<1> SUFFICES ASSUME TypeOK, CallPending, MainNext PROVE TypeOK'
  OBVIOUS
<1> USE UnchangedType
<1>1. ASSUME TakeChat \/ TakeChatNoModel PROVE TypeOK'
  <2>1. frames \in Seq(Nat) /\ frames # << >> /\ Len(frames) <= FrameCap
    BY <1>1 DEF TakeChat, TakeChatNoModel, TypeOK, ChannelTypeOK
  <2>2. Head(frames) \in Nat /\ Tail(frames) \in Seq(Nat) /\ Len(Tail(frames)) <= FrameCap
    BY <2>1
  <2>3. ClientTypeOK' /\ ChannelTypeOK'
    BY <1>1, <2>2 DEF TakeChat, TakeChatNoModel, TypeOK, ClientTypeOK, ChannelTypeOK, client
  <2>4. FreshLoop \in Loops
    BY DEF FreshLoop, Loops, Kinds, Ids
  <2>5. LoopTypeOK'
    BY <1>1, <2>4 DEF TakeChat, TakeChatNoModel, TypeOK, LoopTypeOK, PCs
  <2>6. HistoryTypeOK'
    <3>1. UNCHANGED <<asked, yes, ran, cycle>>
      BY <1>1 DEF TakeChat, TakeChatNoModel
    <3>2. cur' \in Nat /\ done' = 0 /\ late' = 0
      BY <1>1, <2>2 DEF TakeChat, TakeChatNoModel
    <3> QED
      BY <3>1, <3>2 DEF TypeOK, HistoryTypeOK
  <2> QED
    BY <2>3, <2>5, <2>6 DEF TypeOK
<1>2. CASE Stop
  BY <1>2 DEF Stop, client, history, TypeOK, ClientTypeOK, ChannelTypeOK, LoopTypeOK,
              HistoryTypeOK
<1>3. CASE WriteFails
  BY <1>3, QuietType DEF WriteFails, PCs
<1>4. CASE TopStops
  <2>1. pc' \in PCs /\ loop' \in Loops /\ done' \in Nat
    BY <1>4, RespondType DEF TopStops, PCs
  <2> QED
    BY <1>4, <2>1, QuietType DEF TopStops
<1>5. CASE TokenFails
  <2>1. pc' \in PCs /\ loop' \in Loops /\ done' \in Nat
    BY <1>5, RespondType DEF TokenFails, PCs
  <2> QED
    BY <1>5, <2>1, QuietType DEF TokenFails
<1>6. CASE DeviceFlow
  <2>1. pc' \in PCs /\ loop' \in Loops /\ done' \in Nat
    BY <1>6, RespondType, AgainType DEF DeviceFlow, PCs
  <2> QED
    BY <1>6, <2>1, QuietType DEF DeviceFlow
<1>7. ASSUME NEW f \in BOOLEAN, NEW c \in BOOLEAN, PrepareCall(f, c) PROVE TypeOK'
  BY <1>7, PrepareCallType
<1>8. CASE CallModel
  BY <1>8, QuietType DEF CallModel, PCs
<1> QED
  BY <1>1, <1>2, <1>3, <1>4, <1>5, <1>6, <1>7, <1>8, ModelType, CallType DEF MainNext

(***************************************************************************)
(* Confirmation: a call is let through only on a yes to its own request.   *)
(***************************************************************************)

\* What a step may do to the history of requests: nothing, or put one more.
AsksAtMostOne ==
    \/ UNCHANGED <<asked, dialog>>
    \/ \E k \in Kinds, i \in Ids :
         /\ asked' = Append(asked, [kind |-> k, id |-> i])
         /\ dialog' = [dialog EXCEPT ![k] = Len(asked) + 1]
         /\ k = "approval" => NextId(i)

\* What a step may do to the answer channels of the main loop: take one answer.
TakesAtMostOne ==
    \/ UNCHANGED chan
    \/ \E k \in Kinds :
         chan[k] # << >> /\ chan' = [chan EXCEPT ![k] = Tail(@)]

\* What a step of the main loop does to the variables the argument is about.
MainShape ==
    /\ UNCHANGED <<wire, yes>>
    /\ AsksAtMostOne /\ TakesAtMostOne

\* A request is one more entry of the history.
LEMMA RequestShape ==
    ASSUME NEW k \in Kinds, NEW i \in Ids, NEW l, Request(k, i, l),
           k = "approval" => NextId(i)
    PROVE  AsksAtMostOne
BY DEF Request, AsksAtMostOne

\* An answer taken is the oldest of its channel.
LEMMA TakeShape ==
    ASSUME NEW k \in Kinds, NEW a, Take(k, a)
    PROVE  TakesAtMostOne
BY DEF Take, TakesAtMostOne

\* The steps of the round's tool calls have that shape.
LEMMA CallShape ==
    ASSUME TypeOK, CallNext
    PROVE  MainShape
<1> USE UnchangedType DEF MainShape, MainStep
<1>1. ASSUME NEW c \in ToolClasses, NEW i \in RawIds, BeginCall(c, i) PROVE MainShape
  <2> DEFINE l == [loop EXCEPT !.id = i, !.via = c.via]
  <2>1. c \in AllClasses /\ c.via \in {"tool", "user_prompt", "dom_query"} /\ i \in Ids
    BY DEF AllClasses, Ids
  <2>2. NextId(i)
    BY <1>1 DEF BeginCall
  <2>3. NoRequest \/ Request("approval", i, l) \/ (c.via # "tool" /\ Request(c.via, i, l))
    BY <1>1, <2>1 DEF BeginCall, AllClasses
  <2>4. AsksAtMostOne
    BY <2>1, <2>2, <2>3, RequestShape DEF Kinds, NoRequest, AsksAtMostOne
  <2> QED
    BY <1>1, <2>4 DEF BeginCall, TakesAtMostOne
<1>2. CASE ToolReturns \/ EndRound
  BY <1>2 DEF ToolReturns, EndRound, NoRequest, AsksAtMostOne, TakesAtMostOne
<1>3. CASE TakeApproval
  <2>1. TakesAtMostOne
    BY <1>3, TakeShape DEF TakeApproval, Kinds
  <2>2. NoRequest \/ (loop.via # "tool" /\ Request(loop.via, loop.id, loop))
    BY <1>3 DEF TakeApproval
  <2>3. AsksAtMostOne
    BY <2>2, RequestShape DEF Kinds, NoRequest, AsksAtMostOne
  <2> QED
    BY <1>3, <2>1, <2>3 DEF TakeApproval
<1>4. CASE TakeCredential
  <2>1. TakesAtMostOne
    BY <1>4, TakeShape DEF TakeCredential, Kinds
  <2> QED
    BY <1>4, <2>1 DEF TakeCredential, NoRequest, AsksAtMostOne
<1>5. ASSUME NEW k \in Kinds, TakeReply(k) PROVE MainShape
  <2>1. TakesAtMostOne
    BY <1>5, TakeShape DEF TakeReply
  <2> QED
    BY <1>5, <2>1 DEF TakeReply, NoRequest, AsksAtMostOne
<1>6. ASSUME NEW k \in Kinds, GiveUp(k) PROVE MainShape
  BY <1>6 DEF GiveUp, NoRequest, AsksAtMostOne, TakesAtMostOne
<1> QED
  BY <1>1, <1>2, <1>3, <1>4, <1>5, <1>6 DEF CallNext

\* Every step of the main loop has that shape.
LEMMA MainNextShape ==
    ASSUME TypeOK, MainNext
    PROVE  MainShape
<1> USE UnchangedType DEF MainShape, MainStep, NoRequest, TakesAtMostOne
<1>1. CASE TakeChat \/ TakeChatNoModel \/ Stop
  BY <1>1 DEF TakeChat, TakeChatNoModel, Stop, client, history, AsksAtMostOne
<1>2. CASE WriteFails \/ TopStops \/ TokenFails \/ DeviceFlow
  BY <1>2 DEF WriteFails, TopStops, TokenFails, DeviceFlow, AsksAtMostOne
<1>3. CASE CallModel \/ \E f, c \in BOOLEAN : PrepareCall(f, c)
  BY <1>3 DEF CallModel, PrepareCall, AsksAtMostOne
<1>4. CASE ModelCancelled \/ ModelCalls \/ ModelFails \/ \E r \in Replies : ModelStops(r)
  BY <1>4 DEF ModelCancelled, ModelCalls, ModelFails, ModelStops, InModel, AsksAtMostOne
<1>5. CASE ModelUnauthorized
  <2>1. NoRequest \/ Request("credential", Len(asked) + 1, loop)
    BY <1>5 DEF ModelUnauthorized
  <2>2. AsksAtMostOne
    BY <2>1, RequestShape DEF Kinds, AsksAtMostOne
  <2> QED
    BY <1>5, <2>2 DEF ModelUnauthorized, InModel
<1>6. CASE CallNext
  BY <1>6, CallShape
<1> QED
  BY <1>1, <1>2, <1>3, <1>4, <1>5, <1>6 DEF MainNext, ModelNext

\* A signature stays valid as requests and yeses are added.
LEMMA SignedStays ==
    ASSUME TypeOK, yes \subseteq yes', AsksAtMostOne \/ UNCHANGED asked,
           NEW m, Signed(m, asked, yes)
    PROVE  Signed(m, asked', yes')
<1> SUFFICES ASSUME m.t = "answer", m.ok
             PROVE  \E n \in yes' : /\ n \in 1..Len(asked')
                                    /\ asked'[n] = [kind |-> m.kind, id |-> m.id]
  BY DEF Signed
<1>1. PICK n \in yes : n \in 1..Len(asked) /\ asked[n] = [kind |-> m.kind, id |-> m.id]
  BY DEF Signed
<1>2. asked \in Seq(Requests)
  BY DEF TypeOK, HistoryTypeOK
<1>3. n \in 1..Len(asked') /\ asked'[n] = asked[n]
  <2>1. CASE asked' = asked
    BY <1>1, <2>1
  <2>2. ASSUME NEW r, asked' = Append(asked, r) PROVE n \in 1..Len(asked') /\ asked'[n] = asked[n]
    BY <1>1, <1>2, <2>2
  <2> QED
    BY <2>1, <2>2 DEF AsksAtMostOne
<1> QED
  BY <1>1, <1>3

\* The client signs what it sends, the reader forwards it and the main loop
\* takes it: no step makes up an answer.
LEMMA AnswersSignedStep ==
    ASSUME TypeOK, DialogsAsked, AnswersSigned, Next
    PROVE  AnswersSigned'
<1> USE DEF AnswersSigned
<1>t. /\ wire \in Seq(Msgs) /\ chan \in [Kinds -> Seq(Msgs)]
      /\ \A k \in Kinds : chan[k] \in Seq(Msgs)
  BY DEF TypeOK, ClientTypeOK, ChannelTypeOK
<1>1. ASSUME UNCHANGED chan, UNCHANGED asked, yes \subseteq yes',
             NEW m, wire' = Append(wire, m), Signed(m, asked', yes')
      PROVE  AnswersSigned'
  <2>1. \A n \in 1..Len(wire) : Signed(wire[n], asked', yes')
    BY <1>1, SignedStays
  <2>2. \A n \in 1..Len(wire') : wire'[n] = IF n <= Len(wire) THEN wire[n] ELSE m
    BY <1>t, <1>1
  <2>3. \A n \in 1..Len(wire') : n \in 1..Len(wire) \/ wire'[n] = m
    BY <1>t, <1>1
  <2>4. \A n \in 1..Len(wire') : Signed(wire'[n], asked', yes')
    BY <1>1, <2>1, <2>2, <2>3
  <2> QED
    BY <1>1, <2>4, SignedStays
<1>2. CASE SendChat
  BY <1>2, <1>1 DEF SendChat, Chat, Signed, gateway, history
<1>3. CASE SendCancel
  BY <1>3, <1>1 DEF SendCancel, Cancel, Signed, gateway, history
<1>4. ASSUME NEW k \in Kinds, AnswerDialog(k) PROVE AnswersSigned'
  <2>1. /\ dialog[k] \in 1..Len(asked)
        /\ asked[dialog[k]] = [kind |-> k, id |-> asked[dialog[k]].id]
    BY <1>4, ShownRequest DEF AnswerDialog
  <2>2. PICK ok \in BOOLEAN :
           /\ wire' = Append(wire, Answer(k, asked[dialog[k]].id, ok))
           /\ yes' = IF ok THEN yes \cup {dialog[k]} ELSE yes
    BY <1>4 DEF AnswerDialog
  <2>3. asked' = asked /\ chan' = chan
    BY <1>4 DEF AnswerDialog, gateway
  <2>4. Signed(Answer(k, asked[dialog[k]].id, ok), asked', yes')
    BY <2>1, <2>2, <2>3 DEF Signed, Answer
  <2> QED
    BY <1>1, <2>2, <2>3, <2>4
<1>5. CASE Disconnect \/ Shutdown \/ ReaderExit
  <2>1. UNCHANGED <<wire, chan, asked, yes>>
    BY <1>5 DEF Disconnect, Shutdown, ReaderExit, client, gateway, history
  <2> QED
    BY <2>1
<1>6. ASSUME Receive
      PROVE  /\ asked' = asked /\ yes' = yes /\ wire # << >>
             /\ \A n \in 1..Len(wire') : Signed(wire'[n], asked', yes')
  <2>1. wire # << >> /\ wire' = Tail(wire) /\ asked' = asked /\ yes' = yes
    BY <1>6 DEF Receive
  <2>2. \A n \in 1..Len(wire') : n + 1 \in 1..Len(wire) /\ wire'[n] = wire[n + 1]
    BY <1>t, <2>1
  <2>3. \A n \in 1..Len(wire') : Signed(wire'[n], asked, yes)
    BY <2>2
  <2> QED
    BY <2>1, <2>3
<1>7. CASE ReadChat \/ ReadCancel
  <2>1. Receive /\ chan' = chan
    BY <1>7 DEF ReadChat, ReadCancel
  <2> QED
    BY <1>6, <2>1
<1>8. CASE ReadAnswer
  <2> DEFINE m == Head(wire)
  <2>1. Receive /\ m.t = "answer" /\ chan' = [chan EXCEPT ![m.kind] = Append(@, m)]
    BY <1>8 DEF ReadAnswer
  <2>2. m = wire[1] /\ 1 \in 1..Len(wire) /\ m \in Msgs
    BY <1>6, <1>t, <2>1
  <2>3. Signed(m, asked, yes) /\ m.kind \in Kinds
    BY <2>1, <2>2 DEF Msgs
  <2>4. ASSUME NEW k \in Kinds, NEW n \in 1..Len(chan'[k])
        PROVE  chan'[k][n].t = "answer" /\ chan'[k][n].kind = k /\ Signed(chan'[k][n], asked', yes')
    <3>0. \A p \in 1..Len(chan[k]) :
            /\ chan[k][p].t = "answer" /\ chan[k][p].kind = k
            /\ Signed(chan[k][p], asked', yes')
      BY <1>6, <2>1
    <3>1. CASE k = m.kind
      <4>1. chan'[k] = Append(chan[k], m)
        BY <1>t, <2>1, <2>3, <3>1
      <4>2. \/ n \in 1..Len(chan[k]) /\ chan'[k][n] = chan[k][n]
            \/ chan'[k][n] = m
        BY <1>t, <4>1
      <4>3. Signed(m, asked', yes')
        BY <1>6, <2>1, <2>3
      <4> QED
        BY <2>1, <3>0, <3>1, <4>2, <4>3
    <3>2. CASE k # m.kind
      <4>1. chan'[k] = chan[k]
        BY <1>t, <2>1, <3>2
      <4> QED
        BY <3>0, <4>1
    <3> QED
      BY <3>1, <3>2
  <2> QED
    BY <1>6, <2>1, <2>4
<1>9. CASE MainNext
  <2>1. wire' = wire /\ yes' = yes /\ AsksAtMostOne /\ TakesAtMostOne
    BY <1>9, MainNextShape DEF MainShape
  <2>2. \A n \in 1..Len(wire) : Signed(wire[n], asked', yes')
    BY <2>1, SignedStays
  <2>3. \A k \in Kinds : \A n \in 1..Len(chan[k]) : Signed(chan[k][n], asked', yes')
    BY <2>1, SignedStays
  <2>4. CASE chan' = chan
    BY <2>1, <2>2, <2>3, <2>4 DEF Signed
  <2>5. ASSUME NEW j \in Kinds, chan[j] # << >>, chan' = [chan EXCEPT ![j] = Tail(@)]
        PROVE  AnswersSigned'
    <3>1. ASSUME NEW k \in Kinds, NEW n \in 1..Len(chan'[k])
          PROVE  \E p \in 1..Len(chan[k]) : chan'[k][n] = chan[k][p]
      <4>1. CASE k = j
        <5>1. chan'[k] = Tail(chan[k]) /\ chan[k] # << >>
          BY <1>t, <2>5, <4>1
        <5>2. n + 1 \in 1..Len(chan[k]) /\ chan'[k][n] = chan[k][n + 1]
          BY <1>t, <5>1
        <5> QED
          BY <5>2
      <4>2. CASE k # j
        <5>1. chan'[k] = chan[k]
          BY <1>t, <2>5, <4>2
        <5> QED
          BY <5>1
      <4> QED
        BY <4>1, <4>2
    <3>2. \A k \in Kinds : \A p \in 1..Len(chan[k]) :
            /\ chan[k][p].t = "answer" /\ chan[k][p].kind = k
            /\ Signed(chan[k][p], asked', yes')
      BY <2>3
    <3>3. \A k \in Kinds : \A n \in 1..Len(chan'[k]) :
            /\ chan'[k][n].t = "answer" /\ chan'[k][n].kind = k
            /\ Signed(chan'[k][n], asked', yes')
      BY <3>1, <3>2
    <3> QED
      BY <2>1, <2>2, <3>3
  <2> QED
    BY <2>1, <2>4, <2>5 DEF TakesAtMostOne
<1> QED
  BY <1>2, <1>3, <1>4, <1>5, <1>7, <1>8, <1>9 DEF Next, ClientNext, ReaderNext

\* Every dialog on screen shows a request of its kind.
LEMMA DialogsAskedStep ==
    ASSUME TypeOK, DialogsAsked, Next
    PROVE  DialogsAsked'
<1> USE DEF DialogsAsked
<1>t. /\ asked \in Seq(Requests) /\ Len(asked) \in Nat /\ dialog \in [Kinds -> Nat]
  BY DEF TypeOK, HistoryTypeOK, ClientTypeOK
<1>1. CASE UNCHANGED <<asked, dialog>>
  BY <1>1
<1>2. ASSUME NEW j \in Kinds, NEW i \in Ids,
             asked' = Append(asked, [kind |-> j, id |-> i]),
             dialog' = [dialog EXCEPT ![j] = Len(asked) + 1]
      PROVE  DialogsAsked'
  <2> DEFINE r == [kind |-> j, id |-> i]
  <2>0. r \in Requests
    BY DEF Requests
  <2>1. /\ Len(asked') = Len(asked) + 1 /\ asked'[Len(asked) + 1] = r
        /\ \A n \in 1..Len(asked) : asked'[n] = asked[n]
    BY <1>t, <1>2, <2>0
  <2>2. ASSUME NEW k \in Kinds
        PROVE  /\ dialog'[k] <= Len(asked')
               /\ dialog'[k] # 0 => asked'[dialog'[k]].kind = k
    <3>1. CASE k = j
      <4>1. dialog'[k] = Len(asked) + 1
        BY <1>t, <1>2, <3>1
      <4> QED
        BY <2>1, <4>1, <1>t, <3>1
    <3>2. CASE k # j
      <4>1. dialog'[k] = dialog[k] /\ dialog[k] \in Nat
        BY <1>t, <1>2, <3>2
      <4>2. dialog[k] # 0 => dialog[k] \in 1..Len(asked)
        BY <1>t, <4>1
      <4> QED
        BY <1>t, <2>1, <4>1, <4>2
    <3> QED
      BY <3>1, <3>2
  <2> QED
    BY <2>2
<1>3. ASSUME NEW k \in Kinds, AnswerDialog(k) PROVE DialogsAsked'
  <2>1. asked' = asked /\ dialog' = [dialog EXCEPT ![k] = 0]
    BY <1>3 DEF AnswerDialog
  <2> QED
    BY <1>t, <2>1
<1>4. CASE SendChat \/ SendCancel \/ Disconnect \/ Shutdown
  BY <1>1, <1>4 DEF SendChat, SendCancel, Disconnect, Shutdown, client, history
<1>5. CASE ReaderNext
  BY <1>1, <1>5 DEF ReaderNext, ReadChat, ReadCancel, ReadAnswer, Receive, ReaderExit,
                    client, history
<1>6. CASE MainNext
  BY <1>1, <1>2, <1>6, MainNextShape DEF MainShape, AsksAtMostOne
<1> QED
  BY <1>3, <1>4, <1>5, <1>6 DEF Next, ClientNext

\* A call that runs or waits for the client has been counted.
LEMMA CallPendingStep ==
    ASSUME TypeOK, CallPending, Next
    PROVE  CallPending'
<1> USE UnchangedType DEF CallPending
<1>1. CASE ClientNext \/ ReaderNext \/ TakeChatNoModel
  <2>1. UNCHANGED <<pc, loop>>
    BY <1>1 DEF ClientNext, SendChat, SendCancel, Disconnect, Shutdown, AnswerDialog,
                ReaderNext, ReadChat, ReadCancel, ReadAnswer, Receive, ReaderExit,
                TakeChatNoModel, gateway
  <2> QED
    BY <2>1
<1>2. ASSUME NEW c \in ToolClasses, NEW i \in RawIds, BeginCall(c, i) PROVE CallPending'
  <2> DEFINE l == [loop EXCEPT !.id = i, !.via = c.via]
  <2>1. loop.left > 0 /\ l.left = loop.left
    BY <1>2 DEF BeginCall, Loops
  <2>2. \/ pc' = "call"
        \/ pc' = "exec" /\ loop' = loop
        \/ \E k \in Kinds : loop' = [l EXCEPT !.wait = k]
    BY <1>2 DEF BeginCall, Result, Request, Kinds, AllClasses
  <2> QED
    BY <2>1, <2>2 DEF Loops
<1>3. CASE TakeApproval
  <2>1. loop.left > 0
    BY <1>3 DEF TakeApproval, Take, Waiting
  <2>2. \/ pc' = "call"
        \/ pc' = "exec" /\ loop' = loop
        \/ loop' = [loop EXCEPT !.wait = loop.via]
    BY <1>3 DEF TakeApproval, Result, Request
  <2> QED
    BY <2>1, <2>2 DEF Loops
<1>4. CASE ModelUnauthorized
  BY <1>4 DEF ModelUnauthorized, Request, Loops
<1>5. CASE ToolReturns \/ TakeCredential \/ EndRound
            \/ \E k \in Kinds : TakeReply(k) \/ GiveUp(k)
  <2>1. pc' \in {"call", "top", "idle"}
    BY <1>5 DEF ToolReturns, TakeCredential, EndRound, TakeReply, GiveUp, Result, Again,
                Respond
  <2> QED
    BY <2>1
<1>6. CASE ModelCancelled \/ ModelCalls \/ ModelFails \/ \E r \in Replies : ModelStops(r)
  <2>1. pc' \in {"call", "top", "idle"}
    BY <1>6 DEF ModelCancelled, ModelCalls, ModelFails, ModelStops, Again, Respond
  <2> QED
    BY <2>1
<1>7. CASE \/ TakeChat \/ Stop \/ WriteFails \/ TopStops \/ TokenFails \/ DeviceFlow
           \/ CallModel \/ \E f, c \in BOOLEAN : PrepareCall(f, c)
  <2>1. pc' \in {"top", "stopped", "idle", "device", "model", "ready"}
    BY <1>7 DEF TakeChat, Stop, WriteFails, TopStops, TokenFails, DeviceFlow, CallModel,
                PrepareCall, Again, Respond
  <2> QED
    BY <2>1
<1> QED
  BY <1>1, <1>2, <1>3, <1>4, <1>5, <1>6, <1>7
     DEF Next, MainNext, ModelNext, CallNext

\* The approval the main loop waits for is that of the last request.
LEMMA WaitsForLastStep ==
    ASSUME TypeOK, WaitsForLast, Next
    PROVE  WaitsForLast'
<1> USE UnchangedType DEF WaitsForLast, Waiting
<1>1. CASE ClientNext \/ ReaderNext \/ TakeChatNoModel
  <2>1. UNCHANGED <<pc, loop, asked>>
    BY <1>1 DEF ClientNext, SendChat, SendCancel, Disconnect, Shutdown, AnswerDialog,
                ReaderNext, ReadChat, ReadCancel, ReadAnswer, Receive, ReaderExit,
                TakeChatNoModel, gateway, history
  <2> QED
    BY <2>1
<1>2. ASSUME NEW k \in Kinds, NEW i \in Ids, NEW l \in Loops, l.id = i, Request(k, i, l)
      PROVE  WaitsForLast'
  <2> DEFINE r == [kind |-> k, id |-> i]
  <2>1. asked \in Seq(Requests) /\ r \in Requests
    BY DEF TypeOK, HistoryTypeOK, Requests
  <2>2. asked' = Append(asked, r) /\ loop' = [l EXCEPT !.wait = k]
    BY <1>2 DEF Request
  <2>3. Len(asked') > 0 /\ asked'[Len(asked')] = r
    <3> HIDE DEF r
    <3> QED
      BY ONLY <2>1, <2>2
  <2>4. loop'.wait = k /\ loop'.id = i
    BY <1>2, <2>2 DEF Loops
  <2>5. CASE k = "approval"
    <3>1. r = [kind |-> "approval", id |-> loop'.id]
      BY <2>4, <2>5
    <3> HIDE DEF r
    <3> QED
      BY <2>3, <3>1
  <2>6. CASE k # "approval"
    BY <2>4, <2>6
  <2> QED
    BY <2>5, <2>6
<1>3. ASSUME NEW c \in ToolClasses, NEW i \in RawIds, BeginCall(c, i) PROVE WaitsForLast'
  <2> DEFINE l == [loop EXCEPT !.id = i, !.via = c.via]
  <2>1. c \in AllClasses /\ c.via \in {"tool", "user_prompt", "dom_query"} /\ i \in Ids
    BY DEF AllClasses, Ids
  <2>2. l \in Loops /\ l.id = i
    BY <2>1 DEF Loops
  <2>3. \/ pc' \in {"call", "exec"}
        \/ Request("approval", i, l)
        \/ c.via # "tool" /\ Request(c.via, i, l)
    BY <1>3, <2>1 DEF BeginCall, Result, AllClasses
  <2> HIDE DEF l
  <2>4. CASE Request("approval", i, l)
    BY <1>2, <2>1, <2>2, <2>4 DEF Kinds
  <2>5. CASE c.via # "tool" /\ Request(c.via, i, l)
    BY <1>2, <2>1, <2>2, <2>5 DEF Kinds
  <2> QED
    BY <2>3, <2>4, <2>5
<1>4. CASE TakeApproval
  <2>1. \/ pc' \in {"call", "exec"}
        \/ loop.via # "tool" /\ Request(loop.via, loop.id, loop)
    BY <1>4 DEF TakeApproval, Result
  <2> QED
    BY <1>2, <2>1 DEF Kinds
<1>5. CASE ModelUnauthorized
  BY <1>5 DEF ModelUnauthorized, Request, Loops
<1>6. CASE ToolReturns \/ TakeCredential \/ EndRound
            \/ \E k \in Kinds : TakeReply(k) \/ GiveUp(k)
  <2>1. pc' \in {"call", "top", "idle"}
    BY <1>6 DEF ToolReturns, TakeCredential, EndRound, TakeReply, GiveUp, Result, Again,
                Respond
  <2> QED
    BY <2>1
<1>7. CASE ModelCancelled \/ ModelCalls \/ ModelFails \/ \E r \in Replies : ModelStops(r)
  <2>1. pc' \in {"call", "top", "idle"}
    BY <1>7 DEF ModelCancelled, ModelCalls, ModelFails, ModelStops, Again, Respond
  <2> QED
    BY <2>1
<1>8. CASE \/ TakeChat \/ Stop \/ WriteFails \/ TopStops \/ TokenFails \/ DeviceFlow
           \/ CallModel \/ \E f, c \in BOOLEAN : PrepareCall(f, c)
  <2>1. pc' \in {"top", "stopped", "idle", "device", "model", "ready"}
    BY <1>8 DEF TakeChat, Stop, WriteFails, TopStops, TokenFails, DeviceFlow, CallModel,
                PrepareCall, Again, Respond
  <2> QED
    BY <2>1
<1> QED
  BY <1>1, <1>3, <1>4, <1>5, <1>6, <1>7, <1>8
     DEF Next, MainNext, ModelNext, CallNext

\* No two approvals are asked for under one id.
LEMMA ApprovalIdsDistinctStep ==
    ASSUME TypeOK, ApprovalIdsDistinct, Next
    PROVE  ApprovalIdsDistinct'
<1> USE DEF ApprovalIdsDistinct
<1>t. asked \in Seq(Requests)
  BY DEF TypeOK, HistoryTypeOK
<1>1. CASE UNCHANGED asked
  BY <1>1
<1>2. ASSUME NEW k \in Kinds, NEW i \in Ids,
             asked' = Append(asked, [kind |-> k, id |-> i]),
             k = "approval" => NextId(i)
      PROVE  ApprovalIdsDistinct'
  <2> DEFINE r == [kind |-> k, id |-> i]
  <2>0. r \in Requests /\ r.kind = k /\ r.id = i
    BY DEF Requests
  <2> HIDE DEF r
  <2>1. /\ Len(asked) \in Nat /\ Len(asked') = Len(asked) + 1
        /\ asked'[Len(asked) + 1] = r
        /\ \A n \in 1..Len(asked) : asked'[n] = asked[n]
    BY <1>t, <1>2, <2>0 DEF r
  <2>2. ASSUME FreshIds, k = "approval", NEW n \in 1..Len(asked) PROVE asked[n] # r
    <3>1. asked[n].id # i
      BY <1>2, <2>2 DEF NextId
    <3> QED
      BY <2>0, <3>1
  <2>3. \A n \in 1..Len(asked') : n \in 1..Len(asked) \/ n = Len(asked) + 1
    BY <2>1
  <2> QED
    BY <2>0, <2>1, <2>2, <2>3
<1>3. CASE ClientNext \/ ReaderNext
  BY <1>1, <1>3 DEF ClientNext, SendChat, SendCancel, Disconnect, Shutdown, AnswerDialog,
                    ReaderNext, ReadChat, ReadCancel, ReadAnswer, Receive, ReaderExit,
                    history
<1>4. CASE MainNext
  BY <1>1, <1>2, <1>4, MainNextShape DEF MainShape, AsksAtMostOne
<1> QED
  BY <1>3, <1>4 DEF Next

\* The yes that lets a call through is signed with the id of the last request,
\* which no other approval has.
LEMMA ConfirmedStep ==
    ASSUME TypeOK, AnswersSigned, WaitsForLast, ApprovalIdsDistinct,
           ConfirmedIfIdsFresh, Next
    PROVE  ConfirmedIfIdsFresh'
<1> SUFFICES ASSUME FreshIds PROVE ran' \subseteq yes'
  BY DEF ConfirmedIfIdsFresh, ConfirmedEachTime
<1>0. ran \subseteq yes
  BY DEF ConfirmedIfIdsFresh, ConfirmedEachTime
<1>1. CASE TakeApproval
  <2> DEFINE a == Head(chan["approval"])
  <2>1. yes' = yes
    BY <1>1 DEF TakeApproval, MainStep
  <2>2. CASE Matches(a) /\ a.ok
    <3>1. ran' = ran \cup {Len(asked)} /\ Waiting("approval") /\ chan["approval"] # << >>
      BY <1>1, <2>2 DEF TakeApproval, Take
    <3>2. asked[Len(asked)] = [kind |-> "approval", id |-> loop.id] /\ Len(asked) > 0
      BY <3>1 DEF WaitsForLast
    <3>3. chan["approval"] \in Seq(Msgs) /\ asked \in Seq(Requests)
      BY DEF TypeOK, ChannelTypeOK, HistoryTypeOK, Kinds
    <3>4. 1 \in 1..Len(chan["approval"]) /\ a = chan["approval"][1]
      BY <3>1, <3>3
    <3>5. a.t = "answer" /\ a.kind = "approval" /\ Signed(a, asked, yes)
      BY <3>4 DEF AnswersSigned, Kinds
    <3>6. PICK n \in yes : /\ n \in 1..Len(asked)
                           /\ asked[n] = [kind |-> "approval", id |-> loop.id]
      BY <2>2, <3>5 DEF Signed, Matches
    <3>7. Len(asked) \in 1..Len(asked)
      BY <3>2, <3>3
    <3>8. n = Len(asked)
      BY <3>2, <3>6, <3>7 DEF ApprovalIdsDistinct
    <3> QED
      BY <1>0, <2>1, <3>1, <3>6, <3>8
  <2>3. CASE ~(Matches(a) /\ a.ok)
    BY <1>0, <1>1, <2>1, <2>3 DEF TakeApproval
  <2> QED
    BY <2>2, <2>3
<1>2. ASSUME NEW k \in Kinds, AnswerDialog(k) PROVE ran' \subseteq yes'
  <2>1. ran' = ran /\ yes \subseteq yes'
    BY <1>2 DEF AnswerDialog
  <2> QED
    BY <1>0, <2>1
<1>3. CASE SendChat \/ SendCancel \/ Disconnect \/ Shutdown \/ ReaderNext
  BY <1>0, <1>3 DEF SendChat, SendCancel, Disconnect, Shutdown, ReaderNext, ReadChat,
                    ReadCancel, ReadAnswer, Receive, ReaderExit, history
<1>4. CASE TakeChat \/ TakeChatNoModel \/ Stop \/ WriteFails
           \/ TopStops \/ TokenFails \/ DeviceFlow \/ CallModel
           \/ \E f, c \in BOOLEAN : PrepareCall(f, c)
  BY <1>0, <1>4 DEF TakeChat, TakeChatNoModel, Stop, WriteFails, TopStops, TokenFails,
                    DeviceFlow, CallModel, PrepareCall, MainStep, history
<1>5. CASE ModelNext
  BY <1>0, <1>5 DEF ModelNext, ModelCancelled, ModelCalls, ModelFails, ModelUnauthorized,
                    ModelStops, InModel, MainStep
<1>6. CASE \/ \E c \in ToolClasses, i \in RawIds : BeginCall(c, i)
           \/ ToolReturns \/ TakeCredential \/ EndRound
           \/ \E k \in Kinds : TakeReply(k) \/ GiveUp(k)
  BY <1>0, <1>6 DEF BeginCall, ToolReturns, TakeCredential, EndRound, TakeReply, GiveUp,
                    MainStep
<1> QED
  BY <1>1, <1>2, <1>3, <1>4, <1>5, <1>6 DEF Next, ClientNext, MainNext, CallNext

(***************************************************************************)
(* The inductive invariant and the theorems.                               *)
(***************************************************************************)
\* The inductive invariant holds when the connection is opened.
LEMMA InitIInv == Init => IInv
<1> SUFFICES ASSUME Init PROVE IInv
  OBVIOUS
<1>1. AnswersSigned
  BY DEF Init, AnswersSigned
<1>2. DialogsAsked
  BY DEF Init, DialogsAsked
<1> QED
  BY <1>1, <1>2, InitType DEF Init, IInv, CallPending, WaitsForLast, Waiting,
     ApprovalIdsDistinct, ConfirmedIfIdsFresh, ConfirmedEachTime

\* Every step of the client, the reader or the main loop keeps it.
LEMMA NextIInv == IInv /\ [Next]_vars => IInv'
<1> SUFFICES ASSUME IInv, [Next]_vars PROVE IInv'
  OBVIOUS
<1> USE DEF IInv
<1>1. CASE Next
  <2>1. TypeOK'
    BY <1>1, ClientType, ReaderType, MainType DEF Next
  <2>2. CallPending' /\ DialogsAsked' /\ WaitsForLast'
    BY <1>1, CallPendingStep, DialogsAskedStep, WaitsForLastStep
  <2>3. AnswersSigned' /\ ApprovalIdsDistinct' /\ ConfirmedIfIdsFresh'
    BY <1>1, AnswersSignedStep, ApprovalIdsDistinctStep, ConfirmedStep
  <2> QED
    BY <2>1, <2>2, <2>3
<1>2. CASE UNCHANGED vars
  <2> USE <1>2 DEF vars
  <2>1. TypeOK'
    BY DEF TypeOK, ClientTypeOK, ChannelTypeOK, LoopTypeOK, HistoryTypeOK
  <2>2. CallPending' /\ DialogsAsked' /\ WaitsForLast'
    BY DEF CallPending, DialogsAsked, WaitsForLast, Waiting
  <2>3. AnswersSigned' /\ ApprovalIdsDistinct' /\ ConfirmedIfIdsFresh'
    BY DEF AnswersSigned, ApprovalIdsDistinct, ConfirmedIfIdsFresh, ConfirmedEachTime
  <2> QED
    BY <2>1, <2>2, <2>3
<1> QED
  BY <1>1, <1>2

\* Every reachable state of a connection satisfies the inductive invariant.
THEOREM InductiveInvariant == Spec => []IInv
<1> QED
  BY InitIInv, NextIInv, PTL DEF Spec

\* The variables keep their types and no channel between the reader and the
\* main loop ever holds more than its capacity, whatever the capacities.
THEOREM TypeCorrect == Spec => []TypeOK
<1>1. IInv => TypeOK
  BY DEF IInv
<1> QED
  BY <1>1, InductiveInvariant, PTL

\* A tool call that needs permission is let through only if the user said yes
\* to the request put for that call, however late the answers travel, as long
\* as the provider does not use an id twice.
THEOREM Confirmed == Spec => []ConfirmedIfIdsFresh
<1>1. IInv => ConfirmedIfIdsFresh
  BY DEF IInv
<1> QED
  BY <1>1, InductiveInvariant, PTL

(***************************************************************************)
(* Cancellation: what is left to do once the reader got the Cancel.        *)
(***************************************************************************)
\* The flag stays up until the chat ends, so no round after it gets past its
\* head and no model request is started.
CancelInv ==
    /\ CancelStopsLoop
    /\ Busy /\ late > 0 => flag
    /\ late = 2 => pc \notin {"ready", "model"}

\* Where the steps of a round's tool calls lead.
LEMMA CallGoesOn ==
    CallNext => /\ pc' \in {"idle", "top", "call", "exec", "wait"}
                /\ pc' = "idle" => done' = done + 1
                /\ pc' # "idle" => done' = done
<1>1. ASSUME NEW c \in ToolClasses, NEW i \in RawIds, BeginCall(c, i)
      PROVE  pc' \in {"call", "exec", "wait"} /\ done' = done
  <2>1. c \in AllClasses
    OBVIOUS
  <2> QED
    BY <1>1, <2>1 DEF BeginCall, AllClasses, Result, Request
<1>2. CASE ToolReturns \/ TakeApproval \/ \E k \in Kinds : TakeReply(k)
  BY <1>2 DEF ToolReturns, TakeApproval, TakeReply, Result, Request
<1>3. CASE TakeCredential \/ EndRound
  BY <1>3 DEF TakeCredential, EndRound, Again, Respond
<1>4. CASE \E k \in Kinds : GiveUp(k)
  BY <1>4 DEF GiveUp, Respond, Result
<1> QED
  BY <1>1, <1>2, <1>3, <1>4 DEF CallNext

\* Taking a Chat resets the flag and the count; nothing else lowers either.
LEMMA CancelStep == TypeOK /\ CancelInv /\ [Next]_vars => CancelInv'
<1> SUFFICES ASSUME TypeOK, CancelInv, [Next]_vars PROVE CancelInv'
  OBVIOUS
<1> USE UnchangedType DEF CancelInv, CancelStopsLoop, Busy
<1>1. CASE UNCHANGED vars
  BY <1>1 DEF vars
<1>2. CASE ClientNext \/ ReaderExit
  <2>1. UNCHANGED <<pc, flag, late>>
    BY <1>2 DEF ClientNext, SendChat, SendCancel, Disconnect, Shutdown, AnswerDialog,
                ReaderExit, gateway, history
  <2> QED
    BY <2>1
<1>3. CASE ReadChat \/ ReadAnswer
  BY <1>3 DEF ReadChat, ReadAnswer, Receive
<1>4. CASE ReadCancel
  BY <1>4 DEF ReadCancel, Receive
<1>5. CASE TakeChat \/ TakeChatNoModel
  <2>1. late' = 0
    BY <1>5 DEF TakeChat, TakeChatNoModel
  <2> QED
    BY <2>1
<1>6. CASE Stop \/ WriteFails
  BY <1>6 DEF Stop, WriteFails, history
<1>7. CASE \/ TopStops \/ TokenFails \/ DeviceFlow \/ CallModel \/ ModelCancelled
           \/ \E f, c \in BOOLEAN : PrepareCall(f, c)
  <2>1. UNCHANGED <<flag, late>> /\ Busy
    BY <1>7 DEF TopStops, TokenFails, DeviceFlow, CallModel, ModelCancelled, PrepareCall
  <2>2. pc' \notin {"ready", "model"} \/ ~flag
    BY <1>7 DEF TopStops, TokenFails, DeviceFlow, CallModel, ModelCancelled, PrepareCall,
                Respond, Again
  <2> QED
    BY <2>1, <2>2
<1>8. CASE ModelCalls \/ ModelFails \/ ModelUnauthorized \/ \E r \in Replies : ModelStops(r)
  <2>1. /\ pc = "model" /\ UNCHANGED flag
        /\ late' = IF late > 0 THEN late + 1 ELSE 0
    BY <1>8 DEF ModelCalls, ModelFails, ModelUnauthorized, ModelStops, InModel
  <2>2. pc' \notin {"ready", "model"}
    BY <1>8 DEF ModelCalls, ModelFails, ModelUnauthorized, ModelStops, Respond, Again, Request
  <2> QED
    BY <2>1, <2>2
<1>9. CASE CallNext
  <2>1. UNCHANGED <<flag, late>> /\ pc \in {"call", "exec", "wait"}
    BY <1>9 DEF CallNext, BeginCall, ToolReturns, TakeApproval, TakeCredential, EndRound,
                TakeReply, GiveUp, Take, Waiting
  <2>2. pc' \in {"idle", "top", "call", "exec", "wait"}
    BY <1>9, CallGoesOn
  <2> QED
    BY <2>1, <2>2
<1> QED
  BY <1>1, <1>2, <1>3, <1>4, <1>5, <1>6, <1>7, <1>8, <1>9
     DEF Next, ReaderNext, MainNext, ModelNext

\* A Cancel read while a chat is served is followed by at most one more model
\* reply, for any limits on rounds, continuations and failures.
THEOREM CancelObeyed == Spec => []CancelStopsLoop
<1>1. Init => CancelInv
  BY DEF Init, CancelInv, CancelStopsLoop, Busy
<1>2. CancelInv => CancelStopsLoop
  BY DEF CancelInv
<1> QED
  BY <1>1, <1>2, CancelStep, TypeCorrect, PTL DEF Spec

(***************************************************************************)
(* The end of a dispatch and the memory flush.                             *)
(***************************************************************************)
\* Every way out of a dispatch goes through Respond, and nothing but the next
\* Chat leads back in.
LEMMA AnsweredStep == TypeOK /\ AnsweredOnce /\ [Next]_vars => AnsweredOnce'
<1> SUFFICES ASSUME TypeOK, AnsweredOnce, [Next]_vars PROVE AnsweredOnce'
  OBVIOUS
<1> USE UnchangedType DEF AnsweredOnce, Busy
<1>1. CASE UNCHANGED vars
  BY <1>1 DEF vars
<1>2. CASE ClientNext \/ ReaderNext
  <2>1. UNCHANGED <<pc, cur, done>>
    BY <1>2 DEF ClientNext, SendChat, SendCancel, Disconnect, Shutdown, AnswerDialog,
                ReaderNext, ReadChat, ReadCancel, ReadAnswer, Receive, ReaderExit,
                gateway, history
  <2> QED
    BY <2>1
<1>3. CASE TakeChat \/ TakeChatNoModel \/ Stop
  <2>1. CASE TakeChat
    <3>1. done' = 0 /\ pc' = "top"
      BY <2>1 DEF TakeChat
    <3> QED
      BY <3>1
  <2>2. CASE TakeChatNoModel
    <3>1. done' = 0 /\ pc' = "idle" /\ Configured # {TRUE}
      BY <2>2 DEF TakeChatNoModel
    <3>2. done' <= 1 /\ ~Busy'
      BY <3>1
    <3> QED
      BY <3>1, <3>2, Zenon
  <2>3. CASE Stop
    <3>1. done' = done /\ pc' = "stopped"
      BY <2>3 DEF Stop, history
    <3> QED
      BY <3>1
  <2> QED
    BY <1>3, <2>1, <2>2, <2>3
<1>4. ASSUME pc \notin {"idle", "stopped"}, UNCHANGED cur,
             (pc' = "idle" /\ done' = done + 1)
             \/ (pc' # "idle" /\ UNCHANGED done)
      PROVE  AnsweredOnce'
  <2>1. done = 0
    BY <1>4 DEF PCs
  <2>2. (pc' = "idle" /\ done' = 1) \/ (pc' # "idle" /\ done' = 0)
    BY <1>4, <2>1
  <2>3. Busy' => done' = 0
    BY <2>2
  <2>4. done' <= 1
    BY <2>2
  <2>5. pc' = "idle" => done' = 1
    BY <2>2
  <2> QED
    BY <2>3, <2>4, <2>5, Zenon
<1>5. CASE \/ WriteFails \/ TopStops \/ TokenFails \/ DeviceFlow \/ CallModel
           \/ \E f, c \in BOOLEAN : PrepareCall(f, c)
  BY <1>4, <1>5 DEF WriteFails, TopStops, TokenFails, DeviceFlow, CallModel, PrepareCall,
                    MainStep, Respond, Again
<1>6. CASE ModelNext
  BY <1>4, <1>6 DEF ModelNext, ModelCancelled, ModelCalls, ModelFails, ModelUnauthorized,
                    ModelStops, InModel, MainStep, Respond, Again, Request
<1>7. CASE CallNext
  <2>1. pc \in {"call", "exec", "wait"} /\ UNCHANGED cur
    BY <1>7 DEF CallNext, BeginCall, ToolReturns, TakeApproval, TakeCredential,
                EndRound, TakeReply, GiveUp, Take, Waiting, MainStep
  <2> QED
    BY <1>4, <1>7, <2>1, CallGoesOn
<1> QED
  BY <1>1, <1>2, <1>3, <1>5, <1>6, <1>7 DEF Next, MainNext

\* Every path through the dispatch, its recoveries included, sends
\* response_done once, and nothing is done for the chat after it.
THEOREM Answered == Spec => []AnsweredOnce
<1>1. Init => AnsweredOnce
  BY DEF Init, AnsweredOnce, Busy
<1> QED
  BY <1>1, AnsweredStep, TypeCorrect, PTL DEF Spec

\* The thread remembers the flush until it is compacted.
FlushInv ==
    /\ FlushOncePerCycle
    /\ cycle > 0 => flushed

\* Only PrepareCall touches either, and it flushes an unflushed thread only.
LEMMA FlushStep == TypeOK /\ FlushInv /\ [Next]_vars => FlushInv'
<1> SUFFICES ASSUME TypeOK, FlushInv, [Next]_vars PROVE FlushInv'
  OBVIOUS
<1> USE DEF FlushInv, FlushOncePerCycle
<1>0. cycle \in Nat /\ flushed \in BOOLEAN
  BY UnchangedType
<1>1. ASSUME UNCHANGED <<flushed, cycle>> PROVE FlushInv'
  BY <1>1
<1>2. CASE \E f, c \in BOOLEAN : PrepareCall(f, c)
  <2>1. PICK f \in BOOLEAN, c \in BOOLEAN : PrepareCall(f, c)
    BY <1>2
  <2>2. /\ f => ~flushed
        /\ flushed' = (~c /\ (flushed \/ f))
        /\ cycle' = IF c THEN 0 ELSE IF f THEN cycle + 1 ELSE cycle
    BY <2>1 DEF PrepareCall
  <2> QED
    BY <1>0, <2>2
<1>3. CASE UNCHANGED vars
  BY <1>1, <1>3 DEF vars
<1>4. CASE ClientNext \/ ReaderNext
  <2>1. CASE ClientNext
    BY <1>1, <2>1 DEF ClientNext, SendChat, SendCancel, Disconnect, Shutdown,
                      AnswerDialog, gateway, history
  <2>2. CASE ReaderNext
    BY <1>1, <2>2 DEF ReaderNext, ReadChat, ReadCancel, ReadAnswer, Receive, ReaderExit,
                      history
  <2> QED
    BY <1>4, <2>1, <2>2
<1>5. CASE \/ TakeChat \/ TakeChatNoModel \/ Stop \/ WriteFails
           \/ TopStops \/ TokenFails \/ DeviceFlow \/ CallModel
  BY <1>1, <1>5 DEF TakeChat, TakeChatNoModel, Stop, WriteFails, TopStops, TokenFails,
                    DeviceFlow, CallModel, NoFlush, history
<1>6. CASE ModelNext
  BY <1>1, <1>6 DEF ModelNext, ModelCancelled, ModelCalls, ModelFails, ModelUnauthorized,
                    ModelStops, NoFlush
<1>7. CASE CallNext
  BY <1>1, <1>7 DEF CallNext, BeginCall, ToolReturns, TakeApproval, TakeCredential,
                    EndRound, TakeReply, GiveUp, NoFlush
<1> QED
  BY <1>2, <1>3, <1>4, <1>5, <1>6, <1>7 DEF Next, MainNext

\* A thread is flushed at most once between two compactions, over any number of
\* chats and rounds.
THEOREM FlushedOnce == Spec => []FlushOncePerCycle
<1>1. Init => FlushInv
  BY DEF Init, FlushInv, FlushOncePerCycle
<1>2. FlushInv => FlushOncePerCycle
  BY DEF FlushInv
<1> QED
  BY <1>1, <1>2, FlushStep, TypeCorrect, PTL DEF Spec
(***************************************************************************)
(* The service: every step is one of ChatService, or none the user sees.   *)
(***************************************************************************)
\* A step that takes up the next Chat, as far as the user is concerned.
Begins ==
    /\ pc = "idle" /\ frames # << >>
    /\ cur' = Head(frames) /\ frames' = Tail(frames)
    /\ done' = 0 /\ late' = 0
    /\ \/ TRUE \in Configured /\ pc' = "top"
       \/ FALSE \in Configured /\ pc' = "idle"
    /\ UNCHANGED <<wire, sent, asked, yes, ran>>

\* A step that ends the connection.
Ends ==
    /\ pc # "stopped" /\ pc' = "stopped"
    /\ UNCHANGED <<wire, sent, frames, cur, done, asked, yes, ran, late>>

\* A step of a dispatch: it ends, goes on, or puts one request and waits; it
\* acts on a reply of the model, or on a yes, or on neither.
Serves ==
    /\ Busy
    /\ UNCHANGED <<wire, sent, frames, cur, yes>>
    /\ \/ pc' = "idle" /\ done' = done + 1 /\ UNCHANGED asked
       \/ pc' \in PCs \ {"idle", "stopped", "wait"} /\ UNCHANGED <<done, asked>>
       \/ pc' = "wait" /\ UNCHANGED done /\ Len(asked') = Len(asked) + 1
    /\ \/ UNCHANGED <<ran, late>>
       \/ pc = "model" /\ UNCHANGED ran /\ late' = IF late > 0 THEN late + 1 ELSE 0
       \/ /\ Waiting("approval") /\ pc' # "idle"
          /\ ran' = ran \cup {Len(asked)} /\ UNCHANGED late

\* A request is one more, and the main loop waits for its answer.
LEMMA RequestSeen ==
    ASSUME TypeOK, NEW k \in Kinds, NEW i \in Ids, NEW l, Request(k, i, l)
    PROVE  pc' = "wait" /\ Len(asked') = Len(asked) + 1
<1> DEFINE r == [kind |-> k, id |-> i]
<1>1. asked \in Seq(Requests) /\ r \in Requests
  BY DEF TypeOK, HistoryTypeOK, Requests
<1>2. asked' = Append(asked, r) /\ pc' = "wait" BY DEF Request
<1> HIDE DEF r
<1> QED BY <1>1, <1>2

\* The tool calls of a round.
LEMMA CallSeen ==
    ASSUME TypeOK, CallNext
    PROVE  Serves
<1> USE UnchangedType DEF Serves, MainStep, NoRequest, PCs
<1>1. ASSUME NEW c \in ToolClasses, NEW i \in RawIds, BeginCall(c, i) PROVE Serves
  <2> DEFINE l == [loop EXCEPT !.id = i, !.via = c.via]
  <2>1. c \in AllClasses /\ c.via \in {"tool", "user_prompt", "dom_query"} /\ i \in Ids
    BY DEF AllClasses, Ids
  <2>2. \/ pc' \in {"call", "exec"} /\ NoRequest
        \/ Request("approval", i, l)
        \/ c.via # "tool" /\ Request(c.via, i, l)
    BY <1>1, <2>1 DEF BeginCall, Result, AllClasses
  <2> HIDE DEF l
  <2>3. \/ pc' \in {"call", "exec"} /\ UNCHANGED asked
        \/ pc' = "wait" /\ Len(asked') = Len(asked) + 1
    BY <2>1, <2>2, RequestSeen DEF Kinds
  <2>4. Busy /\ UNCHANGED <<wire, sent, frames, cur, yes, ran, late, done>>
    BY <1>1 DEF BeginCall, Busy
  <2> QED BY <2>3, <2>4
<1>2. CASE TakeApproval
  <2>1. \/ pc' \in {"call", "exec"} /\ NoRequest
        \/ loop.via # "tool" /\ Request(loop.via, loop.id, loop)
    BY <1>2 DEF TakeApproval, Result
  <2>2. \/ pc' \in {"call", "exec"} /\ UNCHANGED asked
        \/ pc' = "wait" /\ Len(asked') = Len(asked) + 1
    BY <2>1, RequestSeen DEF Kinds
  <2>3. /\ Busy /\ Waiting("approval")
        /\ UNCHANGED <<wire, sent, frames, cur, yes, late, done>>
        /\ UNCHANGED ran \/ ran' = ran \cup {Len(asked)}
    BY <1>2 DEF TakeApproval, Take, Waiting, Busy
  <2> QED BY <2>2, <2>3
<1>3. CASE ToolReturns \/ TakeCredential \/ EndRound
           \/ \E k \in Kinds : TakeReply(k) \/ GiveUp(k)
  <2>1. pc' \in {"call", "top", "idle"} /\ UNCHANGED <<asked, ran, late>>
    BY <1>3 DEF ToolReturns, TakeCredential, EndRound, TakeReply, GiveUp, Result, Again,
                Respond
  <2>2. IF pc' = "idle" THEN done' = done + 1 ELSE UNCHANGED done
    BY <1>3, CallGoesOn DEF CallNext
  <2>3. Busy /\ UNCHANGED <<wire, sent, frames, cur, yes>>
    BY <1>3 DEF ToolReturns, TakeCredential, EndRound, TakeReply, GiveUp, Take, Waiting,
                Busy
  <2> QED BY <2>1, <2>2, <2>3
<1> QED BY <1>1, <1>2, <1>3 DEF CallNext

\* Every step of the main loop begins or ends a service or belongs to one.
LEMMA MainSeen ==
    ASSUME TypeOK, MainNext
    PROVE  Begins \/ Ends \/ Serves
<1> USE UnchangedType DEF MainStep, NoRequest, PCs
<1>1. CASE TakeChat \/ TakeChatNoModel
  BY <1>1 DEF TakeChat, TakeChatNoModel, Begins, client
<1>2. CASE Stop \/ WriteFails
  BY <1>2 DEF Stop, WriteFails, Ends, Busy, client, history
<1>3. CASE TopStops \/ TokenFails \/ DeviceFlow
  BY <1>3 DEF TopStops, TokenFails, DeviceFlow, Serves, Busy, Respond, Again
<1>4. CASE CallModel \/ \E f, c \in BOOLEAN : PrepareCall(f, c)
  BY <1>4 DEF CallModel, PrepareCall, Serves, Busy
<1>5. CASE ModelCancelled
  BY <1>5 DEF ModelCancelled, Serves, Busy, Respond
<1>6. CASE ModelCalls \/ ModelFails \/ \E r \in Replies : ModelStops(r)
  <2>1. Busy /\ InModel /\ NoRequest
    BY <1>6 DEF ModelCalls, ModelFails, ModelStops, InModel, Busy
  <2>2. \/ pc' \in {"call", "top"} /\ UNCHANGED done
        \/ pc' = "idle" /\ done' = done + 1
    BY <1>6 DEF ModelCalls, ModelFails, ModelStops, Respond, Again
  <2> QED BY <2>1, <2>2 DEF Serves, InModel
<1>7. CASE ModelUnauthorized
  <2>1. Busy /\ InModel /\ UNCHANGED done
    BY <1>7 DEF ModelUnauthorized, InModel, Busy
  <2>2. \/ pc' = "wait" /\ Len(asked') = Len(asked) + 1
        \/ pc' = "device" /\ UNCHANGED asked
    BY <1>7, RequestSeen DEF ModelUnauthorized, Kinds
  <2> QED BY <2>1, <2>2 DEF Serves, InModel
<1>8. CASE CallNext
  BY <1>8, CallSeen
<1> QED
  BY <1>1, <1>2, <1>3, <1>4, <1>5, <1>6, <1>7, <1>8 DEF MainNext, ModelNext

\* Steps beside the main loop leave it, and what it did, alone.
LEMMA BesideSeen ==
    ASSUME ClientNext \/ ReaderNext
    PROVE  /\ UNCHANGED <<pc, loop, cur, done, asked, ran>>
           /\ UNCHANGED late \/ (Busy /\ late = 0 /\ late' = 1)
           /\ UNCHANGED yes \/ \E k \in Kinds : dialog[k] # 0 /\ yes' = yes \cup {dialog[k]}
BY DEF ClientNext, SendChat, SendCancel, Disconnect, Shutdown, AnswerDialog, ReaderNext,
       ReadChat, ReadCancel, ReadAnswer, Receive, ReaderExit, client, gateway, history

\* No call went ahead yet on the request that is waited for: the main loop
\* begins to wait only for a request it puts.
LEMMA RanBeforeStep ==
    TypeOK /\ WaitsForLast /\ RanBefore /\ [Next]_vars => RanBefore'
<1> SUFFICES ASSUME TypeOK, WaitsForLast, RanBefore, [Next]_vars PROVE RanBefore'
  OBVIOUS
<1> USE UnchangedType DEF RanBefore, Waiting
<1>1. CASE UNCHANGED <<pc, loop, asked, ran>>
  BY <1>1
<1>2. CASE pc' # "wait" /\ UNCHANGED <<asked, ran>>
  BY <1>2
<1>3. CASE Begins \/ Ends
  BY <1>2, <1>3 DEF Begins, Ends
<1>4. CASE Serves
  <2>1. ran' \subseteq 1..Len(asked)
    <3>1. CASE ran' = ran \cup {Len(asked)} /\ Waiting("approval")
      <4>1. Len(asked) > 0 BY <3>1 DEF WaitsForLast
      <4>2. Len(asked) \in 1..Len(asked) BY <4>1
      <4> QED BY <3>1, <4>2
    <3>2. CASE UNCHANGED ran
      BY <3>2
    <3> QED BY <1>4, <3>1, <3>2 DEF Serves
  <2>2. \/ Len(asked') = Len(asked) + 1
        \/ pc' # "wait" /\ UNCHANGED asked
    BY <1>4 DEF Serves
  <2> QED BY <2>1, <2>2
<1> QED
  BY <1>1, <1>3, <1>4, BesideSeen, MainSeen DEF Next, vars

\* A frame the client puts on the wire leaves those before it as they are.
LEMMA WireAppended ==
    ASSUME NEW w \in Seq(Msgs), NEW m \in Msgs
    PROVE  /\ Append(w, m) \in Seq(Msgs) /\ Len(Append(w, m)) = Len(w) + 1
           /\ \A n \in 1..Len(w) : Append(w, m)[n] = w[n]
           /\ Append(w, m)[Len(w) + 1] = m
OBVIOUS

\* The numbers of Chats not yet taken: one more is sent, the first is taken.
LEMMA RowGrows ==
    ASSUME NEW a \in Nat, NEW b \in Nat, a <= b
    PROVE  /\ (a + 1 .. b) \cup {b + 1} = a + 1 .. b + 1
           /\ a < b => (a + 1 .. b) \ {a + 1} = a + 2 .. b
OBVIOUS

\* The Chats keep their row: the client numbers them, the reader moves the
\* oldest on the wire behind the queued ones, the main loop takes the first.
LEMMA ChatsInOrderStep ==
    TypeOK /\ DialogsAsked /\ ChatsInOrder /\ [Next]_vars => ChatsInOrder'
<1> SUFFICES ASSUME TypeOK, DialogsAsked, ChatsInOrder, [Next]_vars PROVE ChatsInOrder'
  OBVIOUS
<1> DEFINE L == Len(wire)
           F == Len(frames)
<1>t. /\ wire \in Seq(Msgs) /\ frames \in Seq(Nat) /\ sent \in Nat /\ cur \in Nat
      /\ L \in Nat /\ F \in Nat
      /\ \A n \in 1..L : wire[n] \in Msgs
  BY DEF TypeOK, ClientTypeOK, ChannelTypeOK, HistoryTypeOK
<1>n. \A n \in ChatsOnWire : wire[n].n \in Nat
  BY <1>t DEF ChatsOnWire, Msgs
<1>1. CASE UNCHANGED <<wire, sent, frames, cur>>
  BY <1>1 DEF ChatsInOrder, ChatsOnWire
\* Frames that are no Chats.
<1>2. ASSUME NEW m \in Msgs, m.t # "chat", wire' = Append(wire, m),
             UNCHANGED <<sent, frames, cur>>
      PROVE  ChatsInOrder'
  <2>1. /\ Len(wire') = L + 1 /\ wire'[L + 1] = m
        /\ \A n \in 1..L : wire'[n] = wire[n]
    BY <1>t, <1>2, WireAppended
  <2>2. ChatsOnWire' = ChatsOnWire
    BY <1>t, <1>2, <2>1 DEF ChatsOnWire
  <2>3. ChatsOnWire \subseteq 1..L
    BY DEF ChatsOnWire
  <2>4. \A n \in ChatsOnWire : wire'[n] = wire[n]
    BY <2>1, <2>3
  <2>5. {wire'[n].n : n \in ChatsOnWire'} = {wire[n].n : n \in ChatsOnWire}
    BY <2>2, <2>4
  <2>6. \A p, n \in ChatsOnWire' : p < n => wire'[p].n < wire'[n].n
    BY <2>2, <2>4 DEF ChatsInOrder
  <2> QED BY <1>2, <2>5, <2>6 DEF ChatsInOrder
<1>3. CASE SendChat
  <2>1. /\ wire' = Append(wire, Chat(sent + 1)) /\ sent' = sent + 1
        /\ UNCHANGED <<frames, cur>>
    BY <1>3 DEF SendChat, gateway, history
  <2>2. Chat(sent + 1) \in Msgs /\ Chat(sent + 1).t = "chat" /\ Chat(sent + 1).n = sent + 1
    BY <1>t DEF Chat, Msgs
  <2>3. /\ ChatsOnWire' = ChatsOnWire \cup {L + 1}
        /\ \A n \in ChatsOnWire : wire'[n] = wire[n] /\ n \in 1..L
        /\ wire'[L + 1] = Chat(sent + 1)
    BY <1>t, <2>1, <2>2, WireAppended DEF ChatsOnWire
  <2>4. \A n \in ChatsOnWire : wire[n].n <= sent
    BY <1>t DEF ChatsInOrder
  <2>5. ASSUME NEW m \in ChatsOnWire', NEW n \in ChatsOnWire', m < n
        PROVE  wire'[m].n < wire'[n].n
    <3>1. m \in ChatsOnWire BY <1>t, <2>3, <2>5
    <3>2. CASE n \in ChatsOnWire BY <2>3, <2>5, <3>1, <3>2 DEF ChatsInOrder
    <3>3. CASE n = L + 1
      <4>1. wire'[n].n = sent + 1 BY <2>2, <2>3, <3>3
      <4>2. wire'[m].n <= sent /\ wire'[m].n \in Nat BY <1>n, <2>3, <2>4, <3>1
      <4> QED BY <1>t, <4>1, <4>2
    <3> QED BY <2>3, <3>2, <3>3
  <2>6. {wire'[n].n : n \in ChatsOnWire'} = {wire[n].n : n \in ChatsOnWire} \cup {sent + 1}
    BY <2>2, <2>3
  <2>7. {wire'[n].n : n \in ChatsOnWire'} = cur' + Len(frames') + 1 .. sent'
    <3>1. cur + F \in Nat /\ cur + F <= sent BY <1>t DEF ChatsInOrder
    <3>2. {wire[n].n : n \in ChatsOnWire} = cur + F + 1 .. sent BY DEF ChatsInOrder
    <3> QED BY <1>t, <2>1, <2>6, <3>1, <3>2, RowGrows
  <2>8. cur' + Len(frames') <= sent' BY <1>t, <2>1 DEF ChatsInOrder
  <2>9. \A n \in 1..Len(frames') : frames'[n] = cur' + n BY <2>1 DEF ChatsInOrder
  <2> QED BY <2>5, <2>7, <2>8, <2>9 DEF ChatsInOrder
<1>4. CASE SendCancel
  <2>1. Cancel(sent) \in Msgs /\ Cancel(sent).t # "chat"
    BY <1>t DEF Cancel, Msgs
  <2> QED BY <1>2, <1>4, <2>1 DEF SendCancel, gateway, history
<1>5. ASSUME NEW k \in Kinds, AnswerDialog(k) PROVE ChatsInOrder'
  <2>1. PICK ok \in BOOLEAN : wire' = Append(wire, Answer(k, asked[dialog[k]].id, ok))
    BY <1>5 DEF AnswerDialog
  <2>2. asked[dialog[k]].id \in Ids
    BY <1>5, ShownRequest DEF AnswerDialog
  <2>3. /\ Answer(k, asked[dialog[k]].id, ok) \in Msgs
        /\ Answer(k, asked[dialog[k]].id, ok).t # "chat"
    BY <2>2 DEF Answer, Msgs
  <2> QED BY <1>2, <1>5, <2>1, <2>3 DEF AnswerDialog, gateway
\* The wire moves up.
<1>6. ASSUME wire # << >>, wire' = Tail(wire)
      PROVE  /\ \A n \in ChatsOnWire' : /\ n \in Nat /\ n > 0 /\ n + 1 \in ChatsOnWire
                                      /\ wire'[n] = wire[n + 1]
             /\ Head(wire) = wire[1] /\ 1 \in 1..L
             /\ \A n \in ChatsOnWire : n # 1 => n - 1 \in ChatsOnWire'
  <2>1. Len(wire') = L - 1 /\ \A n \in 1..Len(wire') : wire'[n] = wire[n + 1]
    BY <1>t, <1>6
  <2>2. Head(wire) = wire[1] /\ 1 \in 1..L
    BY <1>t, <1>6
  <2>3. ASSUME NEW n \in ChatsOnWire'
        PROVE  n \in Nat /\ n > 0 /\ n + 1 \in ChatsOnWire /\ wire'[n] = wire[n + 1]
    BY <1>t, <2>1 DEF ChatsOnWire
  <2>4. ASSUME NEW n \in Nat, n > 0, n + 1 \in ChatsOnWire PROVE n \in ChatsOnWire'
    <3>1. n \in 1..Len(wire') /\ wire[n + 1].t = "chat"
      BY <1>t, <2>1, <2>4 DEF ChatsOnWire
    <3> QED BY <2>1, <3>1 DEF ChatsOnWire
  <2>5. ASSUME NEW n \in ChatsOnWire, n # 1 PROVE n - 1 \in ChatsOnWire'
    <3>1. n - 1 \in Nat /\ n - 1 > 0 /\ (n - 1) + 1 = n
      BY <1>t, <2>5 DEF ChatsOnWire
    <3> QED BY <2>4, <3>1
  <2> QED BY <2>2, <2>3, <2>4, <2>5
<1>7. ASSUME wire # << >>, wire' = Tail(wire), Head(wire).t # "chat",
             UNCHANGED <<sent, frames, cur>>
      PROVE  ChatsInOrder'
  <2>1. 1 \notin ChatsOnWire BY <1>6, <1>7 DEF ChatsOnWire
  <2>2. {wire'[n].n : n \in ChatsOnWire'} = {wire[n].n : n \in ChatsOnWire}
    <3>1. ASSUME NEW n \in ChatsOnWire' PROVE wire'[n].n \in {wire[p].n : p \in ChatsOnWire}
      BY <1>6, <1>7
    <3>2. ASSUME NEW n \in ChatsOnWire PROVE wire[n].n \in {wire'[p].n : p \in ChatsOnWire'}
      <4>1. n \in Nat /\ n - 1 \in ChatsOnWire' /\ (n - 1) + 1 = n
        <5>1. n \in Nat BY <1>t DEF ChatsOnWire
        <5> QED BY <1>6, <1>7, <2>1, <5>1
      <4>2. wire'[n - 1] = wire[n] BY <1>6, <1>7, <4>1
      <4> QED BY <4>1, <4>2
    <3> QED BY <3>1, <3>2
  <2>3. ASSUME NEW m \in ChatsOnWire', NEW n \in ChatsOnWire', m < n
        PROVE  wire'[m].n < wire'[n].n
    <3>1. m \in Nat /\ n \in Nat BY <1>6, <1>7
    <3>2. m + 1 < n + 1 BY <2>3, <3>1
    <3>3. m + 1 \in ChatsOnWire /\ n + 1 \in ChatsOnWire BY <1>6, <1>7
    <3>4. wire'[m] = wire[m + 1] /\ wire'[n] = wire[n + 1] BY <1>6, <1>7
    <3> QED BY <3>2, <3>3, <3>4 DEF ChatsInOrder
  <2> QED BY <1>7, <2>2, <2>3 DEF ChatsInOrder
<1>8. CASE ReadChat
  <2>1. /\ wire # << >> /\ wire' = Tail(wire) /\ Head(wire).t = "chat"
        /\ frames' = Append(frames, Head(wire).n) /\ UNCHANGED <<sent, cur>>
    BY <1>8 DEF ReadChat, Receive
  <2>2. 1 \in ChatsOnWire /\ Head(wire) = wire[1]
    BY <1>6, <2>1 DEF ChatsOnWire
  <2>3. wire[1].n \in cur + F + 1 .. sent
    BY <2>2 DEF ChatsInOrder
  <2>4. \A n \in ChatsOnWire : n # 1 => wire[1].n < wire[n].n
    <3>1. \A n \in ChatsOnWire : n # 1 => 1 < n BY <1>t DEF ChatsOnWire
    <3> QED BY <2>2, <3>1 DEF ChatsInOrder
  <2>5. wire[1].n = cur + F + 1
    <3>1. cur + F + 1 \in {wire[n].n : n \in ChatsOnWire}
      <4>1. cur + F + 1 \in cur + F + 1 .. sent BY <1>t, <2>3
      <4> QED BY <4>1 DEF ChatsInOrder
    <3>2. PICK n \in ChatsOnWire : wire[n].n = cur + F + 1 BY <3>1
    <3>3. wire[1].n >= cur + F + 1 /\ wire[1].n \in Nat BY <1>t, <2>3
    <3>4. n = 1 BY <1>t, <2>4, <3>2, <3>3
    <3> QED BY <3>2, <3>4
  <2>6. /\ Len(frames') = F + 1
        /\ \A n \in 1..F : frames'[n] = frames[n]
        /\ frames'[F + 1] = cur + F + 1
    BY <1>t, <2>1, <2>2, <2>5
  <2>7. \A n \in 1..Len(frames') : frames'[n] = cur' + n
    BY <1>t, <2>1, <2>6 DEF ChatsInOrder
  <2>8. {wire'[n].n : n \in ChatsOnWire'} = {wire[n].n : n \in ChatsOnWire} \ {wire[1].n}
    <3>1. ASSUME NEW n \in ChatsOnWire'
          PROVE  wire'[n].n \in {wire[p].n : p \in ChatsOnWire} /\ wire'[n].n # wire[1].n
      <4>1. n \in Nat /\ n + 1 \in ChatsOnWire /\ n + 1 # 1 /\ wire'[n] = wire[n + 1]
        <5>1. n \in Nat /\ n > 0 /\ n + 1 \in ChatsOnWire BY <1>6, <2>1
        <5>2. wire'[n] = wire[n + 1] BY <1>6, <2>1
        <5> QED BY <5>1, <5>2
      <4>2. wire[1].n < wire[n + 1].n /\ wire[1].n \in Nat BY <1>n, <2>2, <2>4, <4>1
      <4> QED BY <4>1, <4>2
    <3>2. ASSUME NEW n \in ChatsOnWire, wire[n].n # wire[1].n
          PROVE  wire[n].n \in {wire'[p].n : p \in ChatsOnWire'}
      <4>1. n \in Nat /\ n - 1 \in ChatsOnWire' /\ (n - 1) + 1 = n
        <5>1. n \in Nat BY <1>t DEF ChatsOnWire
        <5> QED BY <1>6, <2>1, <3>2, <5>1
      <4>2. wire'[n - 1] = wire[n] BY <1>6, <2>1, <4>1
      <4> QED BY <4>1, <4>2
    <3> QED BY <3>1, <3>2
  <2>9. {wire'[n].n : n \in ChatsOnWire'} = cur' + Len(frames') + 1 .. sent'
    <3>1. cur + F \in Nat /\ cur + F < sent BY <1>t, <2>3
    <3>2. {wire[n].n : n \in ChatsOnWire} = cur + F + 1 .. sent BY DEF ChatsInOrder
    <3>3. {wire'[n].n : n \in ChatsOnWire'} = cur + F + 2 .. sent
      <4>1. (cur + F + 1 .. sent) \ {cur + F + 1} = cur + F + 2 .. sent
        BY <1>t, <3>1, RowGrows
      <4> QED BY <2>5, <2>8, <3>2, <4>1
    <3>4. cur' + Len(frames') + 1 = cur + F + 2 /\ sent' = sent BY <1>t, <2>1, <2>6
    <3> QED BY <3>3, <3>4
  <2>10. ASSUME NEW m \in ChatsOnWire', NEW n \in ChatsOnWire', m < n
         PROVE  wire'[m].n < wire'[n].n
    <3>1. m \in Nat /\ n \in Nat BY <1>6, <2>1
    <3>2. m + 1 < n + 1 BY <2>10, <3>1
    <3>3. m + 1 \in ChatsOnWire /\ n + 1 \in ChatsOnWire BY <1>6, <2>1
    <3>4. wire'[m] = wire[m + 1] /\ wire'[n] = wire[n + 1] BY <1>6, <2>1
    <3> QED BY <3>2, <3>3, <3>4 DEF ChatsInOrder
  <2>11. cur' + Len(frames') <= sent' BY <1>t, <2>1, <2>3, <2>6
  <2> QED BY <2>7, <2>9, <2>10, <2>11 DEF ChatsInOrder
<1>9. CASE ReadCancel \/ ReadAnswer
  BY <1>7, <1>9 DEF ReadCancel, ReadAnswer, Receive
<1>10. CASE Begins
  <2>1. /\ Len(frames') = F - 1 /\ \A n \in 1..Len(frames') : frames'[n] = frames[n + 1]
        /\ Head(frames) = frames[1] /\ 1 \in 1..F
    BY <1>t, <1>10 DEF Begins
  <2>2. cur' = cur + 1 /\ UNCHANGED <<wire, sent>>
    BY <1>10, <2>1 DEF Begins, ChatsInOrder
  <2>3. cur' + Len(frames') = cur + F BY <1>t, <2>1, <2>2
  <2>4. \A n \in 1..Len(frames') : frames'[n] = cur' + n
    <3>1. ASSUME NEW n \in 1..Len(frames') PROVE frames'[n] = cur' + n
      <4>1. n + 1 \in 1..F /\ n \in Nat BY <1>t, <2>1
      <4>2. frames[n + 1] = cur + (n + 1) BY <4>1 DEF ChatsInOrder
      <4> QED BY <1>t, <2>1, <2>2, <4>1, <4>2
    <3> QED BY <3>1
  <2> QED BY <2>2, <2>3, <2>4 DEF ChatsInOrder, ChatsOnWire
<1>11. CASE Ends \/ Serves
  BY <1>1, <1>11 DEF Ends, Serves
<1>12. CASE Disconnect \/ Shutdown \/ ReaderExit
  BY <1>1, <1>12 DEF Disconnect, Shutdown, ReaderExit, client, gateway, history
<1> QED
  BY <1>1, <1>3, <1>4, <1>5, <1>8, <1>9, <1>10, <1>11, <1>12, MainSeen
     DEF Next, ClientNext, ReaderNext, vars

\* What the user sees of a state.
Phase == IF pc = "stopped" THEN "closed" ELSE IF Busy THEN "serving" ELSE "idle"

\* The connection begins as the service does.
LEMMA ServiceBegins == Init => Service!Init
BY DEF Init, Service!Init, Busy

\* Every step is one of the service, or none that the user sees.
LEMMA StepServes ==
    IInv /\ CancelInv /\ ChatsInOrder /\ RanBefore /\ [Next]_vars
        => [Service!Next]_(Service!serviceVars)
<1> SUFFICES ASSUME IInv, CancelInv, ChatsInOrder, RanBefore, [Next]_vars
             PROVE  [Service!Next]_(Service!serviceVars)
  OBVIOUS
<1>t. TypeOK BY DEF IInv
<1> USE UnchangedType, <1>t DEF Phase
<1>p. /\ Busy => Phase = "serving"
      /\ pc = "idle" => Phase = "idle"
      /\ pc # "stopped" => Phase # "closed"
      /\ pc' \in PCs \ {"idle", "stopped"} => Phase' = "serving"
      /\ pc' = "idle" => Phase' = "idle"
      /\ pc' = "stopped" => Phase' = "closed"
  BY DEF Busy, PCs
<1>0. ASSUME UNCHANGED <<cur, Phase, done, asked, yes, ran, late>>
      PROVE  UNCHANGED Service!serviceVars
  BY <1>0 DEF Service!serviceVars
<1>1. CASE UNCHANGED vars
  BY <1>0, <1>1 DEF vars, Busy
<1>2. CASE ClientNext \/ ReaderNext
  <2>1. UNCHANGED <<cur, Phase, done, asked, ran>>
    BY <1>2, BesideSeen DEF Busy
  <2>2. CASE UNCHANGED <<yes, late>>
    BY <1>0, <2>1, <2>2
  <2>3. CASE UNCHANGED yes /\ Busy /\ late = 0 /\ late' = 1
    <3>1. Service!Cancel BY <1>p, <2>1, <2>3 DEF Service!Cancel
    <3> QED BY <3>1 DEF Service!Next
  <2>4. ASSUME NEW k \in Kinds, dialog[k] # 0, yes' = yes \cup {dialog[k]}, UNCHANGED late
        PROVE  Service!Next
    <3>1. dialog[k] \in 1..Len(asked) BY <2>4, ShownRequest DEF IInv
    <3>2. Service!Grant BY <2>1, <2>4, <3>1 DEF Service!Grant
    <3> QED BY <3>2 DEF Service!Next
  <2>5. UNCHANGED yes \/ UNCHANGED late
    BY <1>2 DEF ClientNext, SendChat, SendCancel, Disconnect, Shutdown, AnswerDialog,
                ReaderNext, ReadChat, ReadCancel, ReadAnswer, Receive, ReaderExit, history
  <2> QED BY <1>2, <2>2, <2>3, <2>4, <2>5, BesideSeen
<1>3. CASE Begins
  <2>1. cur' = cur + 1
    <3>1. frames \in Seq(Nat) BY DEF TypeOK, ChannelTypeOK
    <3>2. Head(frames) = frames[1] /\ 1 \in 1..Len(frames) BY <1>3, <3>1 DEF Begins
    <3> QED BY <1>3, <3>2 DEF Begins, ChatsInOrder
  <2>2. Phase = "idle" BY <1>3, <1>p DEF Begins
  <2>3. \/ TRUE \in Configured /\ Phase' = "serving"
        \/ FALSE \in Configured /\ Phase' = "idle"
    BY <1>3, <1>p DEF Begins, PCs
  <2>4. Service!TakeUp
    BY <1>3, <2>1, <2>2, <2>3 DEF Begins, Service!TakeUp, Service!Consent
  <2> QED BY <2>4 DEF Service!Next
<1>4. CASE Ends
  <2>1. Service!Close BY <1>4, <1>p DEF Ends, Service!Close
  <2> QED BY <2>1 DEF Service!Next
<1>5. CASE Serves
  <2>1. Phase = "serving" /\ UNCHANGED <<cur, yes>> BY <1>5, <1>p DEF Serves
  <2>2. \/ Phase' = "idle" /\ done' = done + 1 /\ UNCHANGED asked /\ pc' = "idle"
        \/ Phase' = "serving" /\ UNCHANGED <<done, asked>>
        \/ Phase' = "serving" /\ UNCHANGED done /\ Len(asked') = Len(asked) + 1
    BY <1>5, <1>p DEF Serves, PCs
  <2> HIDE DEF Phase
  <2>3. CASE UNCHANGED <<ran, late>>
    <3>1. CASE Phase' = "idle" /\ done' = done + 1 /\ UNCHANGED asked
      <4>1. Service!Finish BY <2>1, <2>3, <3>1 DEF Service!Finish, Phase
      <4> QED BY <4>1 DEF Service!Next
    <3>2. CASE Phase' = "serving" /\ UNCHANGED <<done, asked>>
      BY <1>0, <2>1, <2>3, <3>2
    <3>3. CASE Phase' = "serving" /\ UNCHANGED done /\ Len(asked') = Len(asked) + 1
      <4>1. Service!Ask BY <2>1, <2>3, <3>3 DEF Service!Ask, Phase
      <4> QED BY <4>1 DEF Service!Next
    <3> QED BY <2>2, <3>1, <3>2, <3>3
  <2>4. CASE pc = "model" /\ UNCHANGED ran /\ late' = IF late > 0 THEN late + 1 ELSE 0
    <3>1. late < 2 BY <2>4 DEF CancelInv, CancelStopsLoop
    <3>2. \/ /\ Len(asked') \in {Len(asked), Len(asked) + 1}
             /\ Phase' = Phase /\ done' = done
          \/ Phase' = "idle" /\ done' = done + 1 /\ Len(asked') = Len(asked)
      BY <2>1, <2>2
    <3>3. Service!ActOnReply
      BY <2>1, <2>4, <3>1, <3>2 DEF Service!ActOnReply, Phase
    <3> QED BY <3>3 DEF Service!Next
  <2>5. CASE /\ Waiting("approval") /\ pc' # "idle"
             /\ ran' = ran \cup {Len(asked)} /\ UNCHANGED late
    <3>1. Len(asked) > 0 /\ Len(asked) \notin ran
      BY <2>5 DEF IInv, WaitsForLast, RanBefore
    <3>2. FreshIds => Len(asked) \in yes
      <4>1. IInv' BY NextIInv
      <4>2. FreshIds => ran' \subseteq yes'
        BY <4>1 DEF IInv, ConfirmedIfIdsFresh, ConfirmedEachTime
      <4> QED BY <2>1, <2>5, <4>2
    <3>3. Phase' = Phase /\ UNCHANGED done /\ Len(asked') \in {Len(asked), Len(asked) + 1}
      BY <2>1, <2>2, <2>5
    <3>4. Service!LetThrough
      BY <2>1, <2>5, <3>1, <3>2, <3>3 DEF Service!LetThrough, Phase
    <3> QED BY <3>4 DEF Service!Next
  <2> QED BY <1>5, <2>3, <2>4, <2>5 DEF Serves
<1> QED BY <1>1, <1>2, <1>3, <1>4, <1>5, MainSeen DEF Next

\* A connection keeps its promise: the Chats are served one by one in the order
\* they were sent, each ended by one response_done, nothing is asked or done
\* outside a service, a guarded call goes ahead once and on the yes to its own
\* request, and a Cancel leaves at most one more reply; for any capacities,
\* limits and numbers of Chats, and however late the answers are.
THEOREM ServicePromised == Spec => ServiceKept
<1>1. Init => ChatsInOrder /\ RanBefore /\ CancelInv
  BY DEF Init, ChatsInOrder, ChatsOnWire, RanBefore, Waiting, CancelInv,
         CancelStopsLoop, Busy
<1>2. IInv => TypeOK /\ DialogsAsked /\ WaitsForLast
  BY DEF IInv
<1> QED
  BY <1>1, <1>2, InitIInv, NextIInv, CancelStep, ChatsInOrderStep, RanBeforeStep,
     ServiceBegins, StepServes, PTL DEF Spec, ServiceKept, Service!Spec

(***************************************************************************)
(* Every service is finite: the steps of the main loop have an order.      *)
(***************************************************************************)

\* One component is less, and those before it are the same.
LEMMA ShorterAt ==
    ASSUME NEW a, NEW b,
           \/ a[1] < b[1]
           \/ a[1] = b[1] /\ a[2] < b[2]
           \/ a[1] = b[1] /\ a[2] = b[2] /\ a[3] < b[3]
           \/ a[1] = b[1] /\ a[2] = b[2] /\ a[3] = b[3] /\ a[4] < b[4]
    PROVE  Shorter(a, b)
<1>1. \A m \in 1 .. 0 : a[m] = b[m]
  OBVIOUS
<1>2. a[1] = b[1] => \A m \in 1 .. 1 : a[m] = b[m]
  OBVIOUS
<1>3. a[1] = b[1] /\ a[2] = b[2] => \A m \in 1 .. 2 : a[m] = b[m]
  OBVIOUS
<1>4. a[1] = b[1] /\ a[2] = b[2] /\ a[3] = b[3] => \A m \in 1 .. 3 : a[m] = b[m]
  OBVIOUS
<1> QED
  BY <1>1, <1>2, <1>3, <1>4 DEF Shorter

\* A service ends, starts its next round, or gets on with this one.
Onward ==
    \/ pc' \in {"idle", "stopped"}
    \/ pc' = "top" /\ pc # "top" /\ loop'.round = loop.round + 1
    \/ /\ loop'.round = loop.round
       /\ \/ RoundStage' < RoundStage
          \/ /\ RoundStage' = RoundStage
             /\ loop'.left < loop.left \/ (loop'.left = loop.left /\ CallStage' < CallStage)
       /\ pc' # "top" /\ (pc = "top" => loop.round < MaxRounds)

\* The forms a step of the dispatch takes.
LEMMA RespondsOnward == Respond => Onward
BY DEF Respond, Onward

LEMMA AgainOnward ==
    ASSUME TypeOK, NEW l \in Loops, l.round = loop.round, pc # "top", Again(l)
    PROVE  Onward
BY DEF Again, Onward, Loops

\* Inside the calls of a round.
LEMMA ResultOnward ==
    ASSUME TypeOK, pc \in {"call", "exec", "wait"}, ~Waiting("credential"),
           NEW ok, pc' = "call",
           loop' = [loop EXCEPT !.left = @ - 1, !.good = ok]
    PROVE  Onward
<1>1. loop'.round = loop.round /\ loop'.left = loop.left - 1 /\ loop.left \in Nat
  BY DEF TypeOK, LoopTypeOK, Loops
<1>2. RoundStage = 1 /\ RoundStage' = 1
  BY DEF RoundStage, Waiting
<1> QED
  BY <1>1, <1>2 DEF Onward

\* A request is put for the call at hand, later in it than before.
LEMMA RequestOnward ==
    ASSUME TypeOK, NEW k \in {"approval", "user_prompt", "dom_query"}, NEW l \in Loops,
           l.round = loop.round, l.left = loop.left, pc' = "wait",
           loop' = [l EXCEPT !.wait = k],
           pc = "call" \/ (Waiting("approval") /\ k # "approval")
    PROVE  Onward
<1>1. loop'.round = loop.round /\ loop'.left = loop.left /\ loop'.wait = k
  BY DEF Loops
<1>2. RoundStage = 1 /\ RoundStage' = 1
  BY <1>1 DEF RoundStage, Waiting
<1>3. CallStage' < CallStage
  BY <1>1 DEF CallStage, Waiting
<1> QED
  BY <1>1, <1>2, <1>3 DEF Onward, Waiting

\* Every step of the main loop in a service gets on with it.
LEMMA MainOnward ==
    ASSUME TypeOK, Busy, MainNext
    PROVE  Onward
<1>t. loop \in Loops /\ loop.round \in Nat /\ loop.left \in Nat
      /\ loop.via \in {"tool", "user_prompt", "dom_query"}
  BY DEF TypeOK, LoopTypeOK, Loops
<1>1. CASE TakeChat \/ TakeChatNoModel \/ Stop
  BY <1>1 DEF TakeChat, TakeChatNoModel, Stop, Busy
<1>2. CASE WriteFails
  BY <1>2 DEF WriteFails, Onward
<1>3. CASE TopStops \/ ModelCancelled \/ ModelFails
  BY <1>3, RespondsOnward DEF TopStops, ModelCancelled, ModelFails
<1>4. CASE TokenFails
  <2>1. CASE pc' = "device" /\ UNCHANGED loop
    <3>1. RoundStage = 5 /\ RoundStage' = 2
      BY <1>4, <2>1 DEF TokenFails, RoundStage, Waiting
    <3> QED
      BY <1>4, <2>1, <3>1 DEF TokenFails, Onward
  <2> QED
    BY <1>4, <2>1, RespondsOnward DEF TokenFails
<1>5. ASSUME NEW f \in BOOLEAN, NEW c \in BOOLEAN, PrepareCall(f, c) PROVE Onward
  <2>1. RoundStage = 5 /\ RoundStage' = 4
    BY <1>5 DEF PrepareCall, RoundStage, Waiting
  <2>2. loop'.round = loop.round
    BY <1>5, <1>t DEF PrepareCall, Loops
  <2> QED
    BY <1>5, <2>1, <2>2 DEF PrepareCall, Onward
<1>6. CASE CallModel
  <2>1. RoundStage = 4 /\ RoundStage' = 3
    BY <1>6 DEF CallModel, RoundStage, Waiting
  <2> QED
    BY <1>6, <2>1 DEF CallModel, Onward
<1>7. CASE DeviceFlow
  BY <1>7, <1>t, AgainOnward, RespondsOnward DEF DeviceFlow
<1>8. CASE ModelCalls
  <2>1. loop'.round = loop.round
    BY <1>8, <1>t DEF ModelCalls, Loops
  <2>2. RoundStage = 3 /\ RoundStage' = 1
    BY <1>8 DEF ModelCalls, InModel, RoundStage, Waiting
  <2> QED
    BY <1>8, <2>1, <2>2 DEF ModelCalls, InModel, Onward
<1>9. ASSUME NEW r \in Replies, ModelStops(r) PROVE Onward
  <2>1. pc = "model"
    BY <1>9 DEF ModelStops, InModel
  <2>2. CASE Again([loop EXCEPT !.resume = FALSE, !.user = TRUE])
    <3>1. [loop EXCEPT !.resume = FALSE, !.user = TRUE] \in Loops
          /\ [loop EXCEPT !.resume = FALSE, !.user = TRUE].round = loop.round
      BY <1>t DEF Loops
    <3> QED
      BY <2>1, <2>2, <3>1, AgainOnward
  <2>3. CASE Again([loop EXCEPT !.resume = FALSE, !.user = TRUE, !.conts = @ + 1])
    <3> DEFINE more(n) == [loop EXCEPT !.resume = FALSE, !.user = TRUE, !.conts = n]
    <3>1. \A n \in Nat : more(n) \in Loops /\ more(n).round = loop.round
      BY <1>t DEF Loops
    <3>2. loop.conts + 1 \in Nat /\ Again(more(loop.conts + 1))
      BY <1>t, <2>3 DEF Loops
    <3> HIDE DEF more
    <3> QED
      BY <2>1, <3>1, <3>2, AgainOnward
  <2> QED
    BY <1>9, <2>2, <2>3, RespondsOnward DEF ModelStops
<1>10. CASE ModelUnauthorized
  <2>1. CASE pc' = "device" /\ UNCHANGED loop
    <3>1. RoundStage = 3 /\ RoundStage' = 2
      BY <1>10, <2>1 DEF ModelUnauthorized, InModel, RoundStage, Waiting
    <3> QED
      BY <1>10, <2>1, <3>1 DEF ModelUnauthorized, InModel, Onward
  <2>2. CASE Request("credential", Len(asked) + 1, loop)
    <3>1. pc' = "wait" /\ loop'.wait = "credential" /\ loop'.round = loop.round
      BY <1>t, <2>2 DEF Request, Loops
    <3>2. RoundStage = 3 /\ RoundStage' = 2
      BY <1>10, <3>1 DEF ModelUnauthorized, InModel, RoundStage, Waiting
    <3> QED
      BY <1>10, <3>1, <3>2 DEF ModelUnauthorized, InModel, Onward
  <2> QED
    BY <1>10, <2>1, <2>2 DEF ModelUnauthorized
<1>11. ASSUME NEW c \in ToolClasses, NEW i \in RawIds, BeginCall(c, i) PROVE Onward
  <2> DEFINE l == [loop EXCEPT !.id = i, !.via = c.via]
  <2>1. c.perm \in {"Allow", "Ask", "Deny"} /\ c.via \in {"tool", "user_prompt", "dom_query"}
    BY DEF AllClasses
  <2>2. l \in Loops /\ l.round = loop.round /\ l.left = loop.left
    BY <1>t, <2>1 DEF Loops, Ids
  <2>3. pc = "call" /\ ~Waiting("credential")
    BY <1>11 DEF BeginCall, Waiting
  <2> HIDE DEF l
  <2>4. CASE Result(FALSE)
    BY <2>3, <2>4, ResultOnward DEF Result
  <2>5. CASE Request("approval", i, l)
    BY <2>2, <2>3, <2>5, RequestOnward DEF Request
  <2>6. CASE c.via # "tool" /\ Request(c.via, i, l)
    BY <2>1, <2>2, <2>3, <2>6, RequestOnward DEF Request
  <2>7. CASE pc' = "exec" /\ UNCHANGED loop
    <3>1. RoundStage = 1 /\ RoundStage' = 1 /\ CallStage = 3 /\ CallStage' = 1
      BY <2>3, <2>7 DEF RoundStage, CallStage, Waiting
    <3> QED
      BY <1>t, <2>3, <2>7, <3>1 DEF Onward
  <2>8. \/ Result(FALSE) \/ Request("approval", i, l)
        \/ (c.via # "tool" /\ Request(c.via, i, l)) \/ (pc' = "exec" /\ UNCHANGED loop)
    BY <1>11, <2>1 DEF BeginCall, l
  <2> QED
    BY <2>4, <2>5, <2>6, <2>7, <2>8
<1>12. CASE ToolReturns
  BY <1>12, ResultOnward DEF ToolReturns, Result, Waiting
<1>13. CASE TakeApproval
  <2>1. Waiting("approval") /\ pc = "wait" /\ ~Waiting("credential")
    BY <1>13 DEF TakeApproval, Take, Waiting
  <2>2. CASE Result(FALSE)
    BY <2>1, <2>2, ResultOnward DEF Result
  <2>3. CASE pc' = "exec" /\ UNCHANGED loop
    <3>1. RoundStage = 1 /\ RoundStage' = 1 /\ CallStage = 2 /\ CallStage' = 1
      BY <2>1, <2>3 DEF RoundStage, CallStage, Waiting
    <3> QED
      BY <1>t, <2>1, <2>3, <3>1 DEF Onward
  <2>4. CASE loop.via # "tool" /\ Request(loop.via, loop.id, loop)
    BY <1>t, <2>1, <2>4, RequestOnward DEF Request
  <2> QED
    BY <1>13, <2>2, <2>3, <2>4 DEF TakeApproval
<1>14. CASE TakeCredential
  <2>1. pc = "wait"
    BY <1>14 DEF TakeCredential, Take, Waiting
  <2> QED
    BY <1>14, <1>t, <2>1, AgainOnward, RespondsOnward DEF TakeCredential
<1>15. ASSUME NEW k \in Kinds, TakeReply(k) PROVE Onward
  BY <1>15, ResultOnward DEF TakeReply, Take, Waiting, Result
<1>16. ASSUME NEW k \in Kinds, GiveUp(k) PROVE Onward
  BY <1>16, ResultOnward, RespondsOnward DEF GiveUp, Waiting, Result
<1>17. CASE EndRound
  <2> DEFINE f == IF loop.good THEN 0 ELSE loop.fails + 1
             l == [loop EXCEPT !.fails = f, !.user = FALSE]
  <2>0. f \in Nat
    BY <1>t DEF Loops
  <2>1. l \in Loops /\ l.round = loop.round
    <3>1. \A n \in Nat : /\ [loop EXCEPT !.fails = n, !.user = FALSE] \in Loops
                        /\ [loop EXCEPT !.fails = n, !.user = FALSE].round = loop.round
      BY <1>t DEF Loops
    <3> HIDE DEF f
    <3> QED
      BY <2>0, <3>1
  <2>2. pc = "call" /\ (Respond \/ Again(l))
    BY <1>17 DEF EndRound
  <2> HIDE DEF l
  <2> QED
    BY <2>1, <2>2, AgainOnward, RespondsOnward
<1> QED
  BY <1>1, <1>2, <1>3, <1>4, <1>5, <1>6, <1>7, <1>8, <1>9, <1>10, <1>11, <1>12, <1>13, <1>14,
     <1>15, <1>16, <1>17 DEF MainNext, ModelNext, CallNext

\* The number of the round stays in its limit.
LEMMA RoundsStep == TypeOK /\ RoundsLeft /\ [Next]_vars => RoundsLeft'
<1> SUFFICES ASSUME TypeOK, RoundsLeft, [Next]_vars PROVE RoundsLeft'
  OBVIOUS
<1>t. loop.round \in Nat
  BY DEF TypeOK, LoopTypeOK, Loops
<1>1. CASE UNCHANGED <<pc, loop>>
  BY <1>1 DEF RoundsLeft, Busy
<1>2. CASE ClientNext \/ ReaderNext
  <2>1. UNCHANGED <<pc, loop>>
    BY <1>2 DEF ClientNext, SendChat, SendCancel, Disconnect, Shutdown, AnswerDialog,
                ReaderNext, ReadChat, ReadCancel, ReadAnswer, Receive, ReaderExit,
                gateway, history
  <2> QED
    BY <1>1, <2>1
<1>3. CASE MainNext /\ ~Busy
  <2>1. pc \in {"idle", "stopped"}
    BY <1>3 DEF TypeOK, LoopTypeOK, Busy
  <2>2. TakeChat \/ TakeChatNoModel \/ Stop
    BY <1>3, <2>1 DEF MainNext, WriteFails, TopStops, TokenFails, DeviceFlow, PrepareCall,
                      CallModel, ModelNext, ModelCancelled, ModelCalls, ModelFails,
                      ModelUnauthorized, ModelStops, InModel, CallNext, BeginCall,
                      ToolReturns, TakeApproval, TakeCredential, EndRound, TakeReply,
                      GiveUp, Take, Waiting
  <2>3. loop' = FreshLoop \/ UNCHANGED <<pc, loop>> \/ pc' = "stopped"
    BY <2>2 DEF TakeChat, TakeChatNoModel, Stop
  <2> QED
    BY <1>1, <2>3 DEF RoundsLeft, Busy, FreshLoop
<1>4. CASE MainNext /\ Busy
  <2>1. Onward
    BY <1>4, MainOnward
  <2> QED
    BY <1>t, <1>4, <2>1 DEF Onward, RoundsLeft, Busy
<1> QED
  BY <1>1, <1>2, <1>3, <1>4 DEF Next, vars

\* No more rounds are begun than the limit of dispatch.rs (MAX_TOOL_ROUNDS).
THEOREM RoundsBounded == Spec => []RoundsLeft
<1>1. Init => RoundsLeft
  BY DEF Init, RoundsLeft, Busy
<1> QED
  BY <1>1, RoundsStep, TypeCorrect, PTL DEF Spec

\* The dispatch comes to its end however the model and the client behave: each of
\* its steps makes less of what is left of its rounds, the round, its calls and
\* the call at hand, and nobody else's step makes more of it.
THEOREM ServiceIsFinite == Spec => ServiceRunsOut
<1>1. ASSUME TypeOK, [Next]_vars, Busy
      PROVE  \/ UNCHANGED vars
             \/ ~Busy'
             \/ MainNext /\ Shorter(WorkLeft', WorkLeft)
             \/ (ClientNext \/ ReaderNext) /\ UNCHANGED WorkLeft
  <2>1. CASE ClientNext \/ ReaderNext
    <3>1. UNCHANGED <<pc, loop>>
      BY <2>1 DEF ClientNext, SendChat, SendCancel, Disconnect, Shutdown, AnswerDialog,
                  ReaderNext, ReadChat, ReadCancel, ReadAnswer, Receive, ReaderExit,
                  gateway, history
    <3> QED
      BY <2>1, <3>1 DEF WorkLeft, RoundStage, CallStage, Waiting
  <2>2. CASE MainNext
    <3>1. Onward
      BY <1>1, <2>2, MainOnward
    <3>2. loop.round \in Nat /\ loop.left \in Nat
      BY <1>1 DEF TypeOK, LoopTypeOK, Loops
    <3>3. /\ WorkLeft[1] = MaxRounds - loop.round /\ WorkLeft[2] = RoundStage
          /\ WorkLeft[3] = loop.left /\ WorkLeft[4] = CallStage
          /\ WorkLeft'[1] = MaxRounds - loop'.round /\ WorkLeft'[2] = RoundStage'
          /\ WorkLeft'[3] = loop'.left /\ WorkLeft'[4] = CallStage'
      BY DEF WorkLeft
    <3>4. CASE loop'.round = loop.round + 1
      <4>1. WorkLeft'[1] < WorkLeft[1]
        BY <3>2, <3>3, <3>4
      <4> QED
        BY <2>2, <4>1, ShorterAt
    <3>5. CASE /\ loop'.round = loop.round
               /\ \/ RoundStage' < RoundStage
                  \/ /\ RoundStage' = RoundStage
                     /\ \/ loop'.left < loop.left
                        \/ loop'.left = loop.left /\ CallStage' < CallStage
      <4>1. \/ WorkLeft'[1] = WorkLeft[1] /\ WorkLeft'[2] < WorkLeft[2]
            \/ /\ WorkLeft'[1] = WorkLeft[1] /\ WorkLeft'[2] = WorkLeft[2]
               /\ WorkLeft'[3] < WorkLeft[3]
            \/ /\ WorkLeft'[1] = WorkLeft[1] /\ WorkLeft'[2] = WorkLeft[2]
               /\ WorkLeft'[3] = WorkLeft[3] /\ WorkLeft'[4] < WorkLeft[4]
        BY <3>3, <3>5
      <4> QED
        BY <2>2, <4>1, ShorterAt
    <3> QED
      BY <3>1, <3>4, <3>5 DEF Onward, Busy
  <2> QED
    BY <1>1, <2>1, <2>2 DEF Next
<1>2. TypeOK /\ [Next]_vars
      => [Busy => \/ ~Busy'
                  \/ MainNext /\ Shorter(WorkLeft', WorkLeft)
                  \/ (ClientNext \/ ReaderNext) /\ UNCHANGED WorkLeft]_vars
  BY <1>1
<1> QED
  BY <1>2, TypeCorrect, PTL DEF Spec, ServiceRunsOut
=============================================================================
