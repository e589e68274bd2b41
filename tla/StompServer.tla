----------------------------- MODULE StompServer -----------------------------
(***************************************************************************)
(* The STOMP layer of the quiet-route server, from                         *)
(* src/inc/network-monitor/stomp-server.h, on top of WebSocketServer.      *)
(*                                                                         *)
(* The WebSocket layer calls the OnWs... handlers synchronously, so one    *)
(* step is a handler of WebSocketServer together with the STOMP handler it *)
(* calls.  The user's callbacks are not called there: they are posted to   *)
(* the strand context_, a FIFO executor, and run in later steps; the user  *)
(* may call the server from them, or at any other time.                    *)
(*                                                                         *)
(* A client's bytes are abstracted to what the server tells apart, the     *)
(* kinds of FrameKinds; a reading of the socket may yield any of them.     *)
(***************************************************************************)
EXTENDS WebSocketServer, Sequences, Functions

CONSTANTS
    Ids,            \* the connection ids GenerateId may return
    NoId,           \* stands for the id in a callback that has none
    MaxMessages,    \* bound: client messages waiting in context_
    MaxSends        \* bound: frames the user sends on one connection

ASSUME NoIdAssumption == NoId \notin Ids

VARIABLES
    connections_,   \* session -> its Connection, [id, status]
    sessions_,      \* connection id -> session
    context_,       \* the callbacks posted and not yet run
    owner,          \* every id generated so far -> the session it was made for
    sent,           \* the frames written to each session
    announced,      \* ids whose onClientConnect has run
    departed        \* ids whose onClientDisconnect has run

stompVars == <<connections_, sessions_, context_, owner, sent, announced, departed>>
vars == <<wsVars, stompVars>>

Status == {"kPending", "kConnected"}

(* What a client can send: bytes that do not parse, a STOMP frame with the *)
(* expected version and host or with another, a SEND frame, any other      *)
(* frame.                                                                  *)
FrameKinds == {"unparsable", "stomp", "badStomp", "send", "other"}

Callback == [cb : {"connect", "message", "disconnect"}, id : Ids]
ServerDown == [cb |-> "serverDown", id |-> NoId]
Callbacks == Callback \cup {ServerDown}

IsPartial(f, S, T) == DOMAIN f \subseteq S /\ f \in [DOMAIN f -> T]
EmptyMap == [x \in {} |-> {}]

TypeOK ==
    /\ WsTypeOK
    /\ IsPartial(connections_, Sessions, [id : Ids, status : Status])
    /\ IsPartial(sessions_, Ids, Sessions)
    /\ context_ \in Seq(Callbacks)
    /\ IsPartial(owner, Ids, Sessions)
    /\ sent \in [Sessions -> Seq({"CONNECTED", "SEND", "ERROR"})]
    /\ announced \subseteq Ids
    /\ departed \subseteq Ids

Init ==
    /\ WsInit
    /\ connections_ = EmptyMap
    /\ sessions_ = EmptyMap
    /\ context_ = <<>>
    /\ owner = EmptyMap
    /\ sent = [s \in Sessions |-> <<>>]
    /\ announced = {}
    /\ departed = {}

-----------------------------------------------------------------------------
Registered(s) == s \in DOMAIN connections_
Connected(s) == Registered(s) /\ connections_[s].status = "kConnected"
ConnectedIds == {connections_[s].id : s \in {r \in Sessions : Connected(r)}}

Extend(f, x, v) == [y \in DOMAIN f \cup {x} |-> IF y = x THEN v ELSE f[y]]
Without(f, x) == [y \in DOMAIN f \ {x} |-> f[y]]

Event(cb, id) == [cb |-> cb, id |-> id]
Post(e) == context_' = Append(context_, e)

Write(s, frame) == sent' = [sent EXCEPT ![s] = Append(@, frame)]

(* A variant that leaves the id in sessions_.                              *)
UnregisterHalf(s) ==
    /\ connections_' = Without(connections_, s)
    /\ UNCHANGED sessions_

(* Forget the connection of a session in both maps.                        *)
Unregister(s) ==
    /\ sessions_' = Without(sessions_, connections_[s].id)
    /\ connections_' = Without(connections_, s)

(* A variant that closes the session and keeps its connection.             *)
CloseKeepsEntry(s) ==
    /\ Write(s, "ERROR")
    /\ CloseSessions({s})
    /\ UNCHANGED <<connections_, sessions_>>

(* CloseConnection with an error code: an ERROR frame goes out before the  *)
(* session is closed.                                                      *)
CloseOnError(s) ==
    /\ Unregister(s)
    /\ Write(s, "ERROR")
    /\ CloseSessions({s})

(* CloseConnection with kUndefinedError.                                   *)
CloseSilently(s) ==
    /\ Unregister(s)
    /\ UNCHANGED sent
    /\ CloseSessions({s})

-----------------------------------------------------------------------------
(* The callbacks of the WebSocket layer.                                   *)

OnWsSessionConnectOk(s) ==
    \E id \in Ids \ DOMAIN owner :
        /\ sessions_' = Extend(sessions_, id, s)
        /\ connections_' = Extend(connections_, s, [id |-> id, status |-> "kPending"])
        /\ owner' = Extend(owner, id, s)
        /\ UNCHANGED <<closed_, context_, sent>>

OnWsSessionConnectError(s) ==
    /\ CloseSessions({s})
    /\ UNCHANGED <<connections_, sessions_, context_, owner, sent>>

(* A variant that does not look at the status.                             *)
HandleStompTwice(s) ==
    /\ connections_' = [connections_ EXCEPT ![s].status = "kConnected"]
    /\ Write(s, "CONNECTED")
    /\ Post(Event("connect", connections_[s].id))
    /\ UNCHANGED <<closed_, sessions_>>

(* A STOMP frame with the right headers opens a pending connection; on a   *)
(* connected one it is a protocol error.                                   *)
HandleStomp(s) ==
    \/ /\ ~Connected(s)
       /\ connections_' = [connections_ EXCEPT ![s].status = "kConnected"]
       /\ Write(s, "CONNECTED")
       /\ Post(Event("connect", connections_[s].id))
       /\ UNCHANGED <<closed_, sessions_>>
    \/ /\ Connected(s)
       /\ CloseOnError(s)
       /\ UNCHANGED context_

(* A variant that does not look at the status.                             *)
HandleSendAnyway(s) ==
    /\ Cardinality({i \in DOMAIN context_ : context_[i].cb = "message"}) < MaxMessages
    /\ Post(Event("message", connections_[s].id))
    /\ UNCHANGED <<closed_, connections_, sessions_, sent>>

HandleSend(s) ==
    \/ /\ Connected(s)
       /\ Cardinality({i \in DOMAIN context_ : context_[i].cb = "message"}) < MaxMessages
       /\ Post(Event("message", connections_[s].id))
       /\ UNCHANGED <<closed_, connections_, sessions_, sent>>
    \/ /\ ~Connected(s)
       /\ CloseSilently(s)
       /\ UNCHANGED context_

(* A variant that answers and does not close.                              *)
HandleInvalidStays(s) ==
    /\ Write(s, "ERROR")
    /\ UNCHANGED <<closed_, connections_, sessions_, context_>>

(* The frames that only ever end the connection.                           *)
HandleInvalid(s) ==
    /\ CloseOnError(s)
    /\ UNCHANGED context_

HandleUnrecognized(s) ==
    /\ CloseSessions({s})
    /\ UNCHANGED <<connections_, sessions_, context_, sent>>

OnWsSessionMessage(s, frame) ==
    /\ UNCHANGED owner
    /\ \/ ~Registered(s) /\ HandleUnrecognized(s)
       \/ Registered(s) /\ frame = "stomp" /\ HandleStomp(s)
       \/ Registered(s) /\ frame = "send" /\ HandleSend(s)
       \/ Registered(s) /\ frame \in {"unparsable", "badStomp", "other"} /\ HandleInvalid(s)

(* A variant that reads the id after the connection was erased.            *)
DisconnectAnonymous(s) ==
    /\ UNCHANGED <<closed_, owner, sent>>
    /\ IF Registered(s)
       THEN Unregister(s)
       ELSE UNCHANGED <<connections_, sessions_>>
    /\ IF Connected(s)
       THEN Post(Event("disconnect", NoId))
       ELSE UNCHANGED context_

OnWsSessionDisconnect(s) ==
    /\ UNCHANGED <<closed_, owner, sent>>
    /\ IF Registered(s)
       THEN Unregister(s)
       ELSE UNCHANGED <<connections_, sessions_>>
    /\ IF Connected(s)
       THEN Post(Event("disconnect", connections_[s].id))
       ELSE UNCHANGED context_

OnWsDisconnect ==
    /\ Post(ServerDown)
    /\ UNCHANGED <<closed_, connections_, sessions_, owner, sent>>

QuietStomp == UNCHANGED <<closed_, connections_, sessions_, context_, owner, sent>>

-----------------------------------------------------------------------------
(* What the user calls.                                                    *)

Run ==
    /\ WsRunOk \/ WsRunFails
    /\ UNCHANGED <<closed_, connections_, sessions_, sent>>

(* The message goes out only on a connected connection.  The branch for an *)
(* id whose session has no connection is the one MapsInverse rules out.    *)
Send(id) ==
    /\ id \in DOMAIN sessions_
    /\ UNCHANGED <<serverVars, stream, connections_, sessions_>>
    /\ LET s == sessions_[id]
       IN  IF Registered(s)
           THEN /\ Connected(s)
                /\ Cardinality({i \in DOMAIN sent[s] : sent[s][i] = "SEND"}) < MaxSends
                /\ Write(s, "SEND")
                /\ UNCHANGED closed_
           ELSE CloseSessions({s}) /\ UNCHANGED sent

Close(id) ==
    /\ id \in DOMAIN sessions_
    /\ UNCHANGED <<serverVars, stream>>
    /\ LET s == sessions_[id]
       IN  IF Registered(s)
           THEN CloseSilently(s)
           ELSE CloseSessions({s}) /\ UNCHANGED <<connections_, sessions_, sent>>

(* A variant that also closes the sessions that are still connecting.      *)
StopClosesAll ==
    /\ WsStop
    /\ CloseSessions({s \in Sessions : stream[s] # "absent"})
    /\ connections_' = EmptyMap
    /\ sessions_' = EmptyMap
    /\ UNCHANGED sent

Stop ==
    /\ WsStop
    /\ CloseSessions(DOMAIN connections_)
    /\ connections_' = EmptyMap
    /\ sessions_' = EmptyMap
    /\ UNCHANGED sent

UserCall ==
    /\ UNCHANGED owner
    /\ \/ Run
       \/ Stop
       \/ \E id \in Ids : Send(id) \/ Close(id)

NoCall == UNCHANGED <<wsVars, connections_, sessions_, owner, sent>>

(* The strand runs the oldest callback.                                    *)
TakeCallback ==
    /\ context_ # <<>>
    /\ context_' = Tail(context_)
    /\ LET e == Head(context_)
       IN  /\ announced' = announced \cup {i \in Ids : e = Event("connect", i)}
           /\ departed' = departed \cup {i \in Ids : e = Event("disconnect", i)}

-----------------------------------------------------------------------------
(* The handlers of the WebSocket layer, each with what it calls.           *)

Undelivered == UNCHANGED <<announced, departed>>

(* A variant that reports the client at the first read that fails.         *)
FailReadReports(s) == OnReadError(s) /\ OnWsSessionDisconnect(s) /\ Undelivered

TlsHandshake(s) == OnTlsHandshakeOk(s) /\ QuietStomp /\ Undelivered
RefuseSession(s) == OnHandshakeError(s) /\ OnWsSessionConnectError(s) /\ Undelivered
OpenSession(s) == OnHandshakeOk(s) /\ OnWsSessionConnectOk(s) /\ Undelivered
ReadFrame(s, frame) == OnRead(s) /\ OnWsSessionMessage(s, frame) /\ Undelivered
FailRead(s) == OnReadError(s) /\ QuietStomp /\ Undelivered
EndRead(s) ==
    /\ OnReadEnd(s)
    /\ IF ReportsEnd(s) THEN OnWsSessionDisconnect(s) ELSE QuietStomp
    /\ Undelivered

CompleteAccept(o) == AcceptCompletes(o) /\ QuietStomp /\ Undelivered
AcceptSession(s) == OnConnectionAccepted(s) /\ QuietStomp /\ Undelivered
EndAccept ==
    /\ OnAcceptError
    /\ IF AcceptReports THEN OnWsDisconnect ELSE QuietStomp
    /\ Undelivered

(* A posted callback is run, and the user may call the server from it.     *)
RunCallback == TakeCallback /\ (UserCall \/ NoCall)

CallFromOutside == UserCall /\ UNCHANGED context_ /\ Undelivered

SessionHandler(s) ==
    \/ TlsHandshake(s)
    \/ RefuseSession(s)
    \/ OpenSession(s)
    \/ \E frame \in FrameKinds : ReadFrame(s, frame)
    \/ FailRead(s)
    \/ EndRead(s)

AcceptorHandler ==
    \/ \E o \in {"accepted", "failed"} : CompleteAccept(o)
    \/ \E s \in Sessions : AcceptSession(s)
    \/ EndAccept

Next ==
    \/ \E s \in Sessions : SessionHandler(s)
    \/ AcceptorHandler
    \/ RunCallback
    \/ CallFromOutside

Spec == Init /\ [][Next]_vars

(* The I/O context runs every handler that is ready: posted callbacks, and *)
(* the end of a read loop whose stream is broken (the next read is aborted *)
(* at once) or being closed (the closing handshake has a timeout), and the *)
(* accept handler once the system has completed the operation.             *)
Fairness ==
    /\ WF_vars(RunCallback)
    /\ WF_vars(EndAccept)
    /\ WF_vars(\E s \in Sessions : AcceptSession(s))
    /\ \A s \in Sessions : WF_vars((stream[s] = "broken" \/ closed_[s]) /\ EndRead(s))

LiveSpec == Spec /\ Fairness

-----------------------------------------------------------------------------
(* What the server promises its user, without sessions, streams and maps:  *)
(* see ClientRegistry.  An id's client is known once CONNECTED was written *)
(* to the session the id was made for.                                     *)
WasConnected(id) ==
    /\ id \in DOMAIN owner
    /\ sent[owner[id]] # <<>>
    /\ Head(sent[owner[id]]) = "CONNECTED"

ClientState ==
    [id \in Ids |-> CASE id \in ConnectedIds -> "connected"
                      [] id \notin ConnectedIds /\ WasConnected(id) -> "gone"
                      [] OTHER -> "unknown"]

Registry == INSTANCE ClientRegistry WITH client <- ClientState, inbox <- context_

(* The server keeps that promise (lines 148-163): every step is a step of  *)
(* the registry or changes nothing of it, although a client's state is     *)
(* spread over two maps, the session and the queue of callbacks.           *)
ImplementsRegistry == Registry!Spec

-----------------------------------------------------------------------------
(* Properties.                                                             *)

(* The two maps are one bijection, kept by hand: a connection and the      *)
(* entry of its id are made and erased together (lines 414-425), so that   *)
(* Send and Close always find the connection of a session they look up.    *)
MapsInverse ==
    /\ \A s \in DOMAIN connections_ :
        /\ connections_[s].id \in DOMAIN sessions_
        /\ sessions_[connections_[s].id] = s
    /\ \A id \in DOMAIN sessions_ :
        /\ sessions_[id] \in DOMAIN connections_
        /\ connections_[sessions_[id]].id = id

(* A registered connection is on a session the server has not closed and   *)
(* whose read loop runs: were it closed, or ended, its end would never be  *)
(* reported (websocket-server.h:267) and the entry would stay for ever.    *)
RegisteredIsLive ==
    \A s \in DOMAIN connections_ : ~closed_[s] /\ stream[s] \in {"open", "broken"}

(* The user hears of a client in order: connected, then its messages, then *)
(* disconnected, each end once, although the posts come from different     *)
(* handlers and the connection may be gone before any of them runs.        *)
CallbackOrder ==
    /\ \A i, j \in DOMAIN context_ :
        i < j /\ context_[i].id = context_[j].id =>
            context_[i].cb # "disconnect" /\ context_[j].cb # "connect"
    /\ \A i \in DOMAIN context_ :
        /\ context_[i].id \notin departed
        /\ context_[i].cb = "connect" => context_[i].id \notin announced
        /\ context_[i].cb \in {"message", "disconnect"} =>
            \/ context_[i].id \in announced
            \/ \E j \in DOMAIN context_ :
                j < i /\ context_[j] = Event("connect", context_[i].id)

(* A client is reported gone only when it left by itself: its read loop    *)
(* has ended and the server never closed its session (the note of Stop,    *)
(* lines 370-371; Close reports through its own handler, lines 305-309).   *)
DepartureIsReal ==
    \A id \in Ids :
        id \in departed \/ Event("disconnect", id) \in Range(context_) =>
            /\ id \notin DOMAIN sessions_
            /\ stream[owner[id]] = "done"
            /\ ~closed_[owner[id]]

(* What a client reads: nothing before CONNECTED but an ERROR, CONNECTED   *)
(* once, and nothing after an ERROR.                                       *)
ReplyOrder ==
    \A s \in Sessions : \A i \in DOMAIN sent[s] :
        /\ sent[s][i] = "CONNECTED" => i = 1
        /\ sent[s][i] = "SEND" => sent[s][1] = "CONNECTED"
        /\ sent[s][i] = "ERROR" => i = Len(sent[s]) /\ ~Registered(s)

(* A connected client whose connection breaks is reported to the user,     *)
(* unless the server closes the session first.                             *)
BreakIsReported ==
    \A s \in Sessions : \A id \in Ids :
        (Connected(s) /\ connections_[s].id = id /\ stream[s] = "broken")
            ~> (id \in departed \/ closed_[s])

-----------------------------------------------------------------------------
(* What the header file says of the callbacks and the code does not do.    *)

(* "onClientDisconnect: Called when a connected STOMP client disconnects   *)
(* on its own or is disconnected by us as a result of a STOMP protocol     *)
(* error" (lines 155-157): a connected client that is sent an ERROR frame  *)
(* and closed is reported.                                                 *)
ProtocolErrorIsReported ==
    [][\A s \in Sessions :
        Connected(s) /\ ~Registered(s)' /\ sent'[s] # sent[s] =>
            context_' = Append(context_, Event("disconnect", connections_[s].id))]_vars
=============================================================================
