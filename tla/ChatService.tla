----------------------------- MODULE ChatService -----------------------------
(***************************************************************************)
(* What a connection promises the user who sits behind it, without frames, *)
(* channels, rounds or timeouts: the Chats are served one at a time in the *)
(* order they were sent; a Chat in service is ended by one response_done,  *)
(* and nothing is asked or done outside a service; a guarded call goes     *)
(* ahead on the request put last, once, and only after the user's yes to   *)
(* it; after a Cancel at most one more reply of the model is acted upon.   *)
(***************************************************************************)
EXTENDS Naturals

CONSTANTS
    FreshIds,    \* TRUE: the provider never repeats the id of a call
    Configured   \* whether a Chat may find a model / no model

VARIABLES
    turn,      \* number of Chats taken up
    phase,     \* "idle", "serving" or "closed"
    answers,   \* response_done frames sent for the Chat taken up last
    requests,  \* number of requests put to the user
    granted,   \* the requests the user said yes to
    through,   \* the requests whose call went ahead
    overrun    \* 0 until a Cancel in the service, then 1 plus the replies since

serviceVars == <<turn, phase, answers, requests, granted, through, overrun>>

Init ==
    /\ turn = 0 /\ phase = "idle" /\ answers = 0
    /\ requests = 0 /\ granted = {} /\ through = {}
    /\ overrun = 0

Consent == <<requests, granted, through>>

\* The next Chat is taken up; without a model there is nothing to serve.
TakeUp ==
    /\ phase = "idle"
    /\ turn' = turn + 1 /\ answers' = 0 /\ overrun' = 0
    /\ \/ TRUE \in Configured /\ phase' = "serving"
       \/ FALSE \in Configured /\ phase' = "idle"
    /\ UNCHANGED Consent

\* A request is put to the user.
Ask ==
    /\ phase = "serving"
    /\ requests' = requests + 1
    /\ UNCHANGED <<turn, phase, answers, granted, through, overrun>>

\* The user says yes, at any time later.
Grant ==
    /\ \E n \in 1 .. requests : granted' = granted \cup {n}
    /\ UNCHANGED <<turn, phase, answers, requests, through, overrun>>

\* The guarded call the last request was put for goes ahead; a call that is
\* itself a question to the user is put at once.
LetThrough ==
    /\ phase = "serving" /\ requests > 0
    /\ FreshIds => requests \in granted
    /\ requests \notin through
    /\ through' = through \cup {requests}
    /\ requests' \in {requests, requests + 1}
    /\ UNCHANGED <<turn, phase, answers, granted, overrun>>

\* The user's Cancel reaches the gateway during a service.
Cancel ==
    /\ phase = "serving" /\ overrun = 0
    /\ overrun' = 1
    /\ UNCHANGED <<turn, phase, answers, requests, granted, through>>

\* A reply of the model is acted upon: the service goes on, with a request to
\* the user or not, or ends.
ActOnReply ==
    /\ phase = "serving" /\ overrun < 2
    /\ overrun' = IF overrun > 0 THEN overrun + 1 ELSE 0
    /\ \/ requests' \in {requests, requests + 1} /\ UNCHANGED <<phase, answers>>
       \/ phase' = "idle" /\ answers' = answers + 1 /\ UNCHANGED requests
    /\ UNCHANGED <<turn, granted, through>>

\* The service ends without another reply.
Finish ==
    /\ phase = "serving"
    /\ phase' = "idle" /\ answers' = answers + 1
    /\ UNCHANGED <<turn, requests, granted, through, overrun>>

\* The connection ends.
Close ==
    /\ phase # "closed"
    /\ phase' = "closed"
    /\ UNCHANGED <<turn, answers, requests, granted, through, overrun>>

Next == TakeUp \/ Ask \/ Grant \/ LetThrough \/ Cancel \/ ActOnReply \/ Finish \/ Close

Spec == Init /\ [][Next]_serviceVars
=============================================================================
