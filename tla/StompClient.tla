----------------------------- MODULE StompClient -----------------------------
(***************************************************************************)
(* The client of the network-events server: WebSocketClient                *)
(* (src/inc/network-monitor/websocket-client.h) and the STOMP layer on top *)
(* of it (src/inc/network-monitor/stomp-client.h).                         *)
(*                                                                         *)
(* As in the server, a handler is one atomic step, the WebSocket layer     *)
(* calls the STOMP layer synchronously, and the user's callbacks are       *)
(* posted to the strand context_ and run later in FIFO order.  There is    *)
(* one connection; the client is connected once.                           *)
(***************************************************************************)
EXTENDS Naturals, Sequences, FiniteSets, Functions

CONSTANTS
    Subs,           \* the subscription ids GenerateId may return
    NoSub,          \* stands for the id in a callback that has none
    Requests,       \* the request ids Send may return
    HasOnMessage,   \* whether the user gave Connect an onMessage handler
    MaxPosted       \* bound: callbacks waiting when a server frame is read

ASSUME HasOnMessageAssumption == HasOnMessage \in BOOLEAN

VARIABLES
    phase,          \* how far the connection has come
    closed_,        \* WebSocketClient's flag
    writes,         \* async_write operations outstanding
    doomed,         \* those of them started on a stream that was not open
    subscriptions_, \* the ids of the saved subscriptions
    requested,      \* every id Subscribe or Send has returned
    context_,       \* the callbacks posted and not yet run
    heard           \* the callbacks and send handlers that have been run,
                    \* but for messages

connectionVars == <<phase, closed_, writes, doomed, subscriptions_, requested>>
vars == <<connectionVars, context_, heard>>

(* "idle"       not connected yet                                          *)
(* "resolving", "connecting", "tls", "ws"   a step of Connect outstanding  *)
(* "failed"     one of these steps failed, nothing is outstanding          *)
(* "open"       an async_read is outstanding on a healthy stream           *)
(* "broken"     a read failed; the next one is outstanding and aborts      *)
(* "done"       the read loop has ended                                    *)
Connecting == {"resolving", "connecting", "tls", "ws"}
Phases == Connecting \cup {"idle", "failed", "open", "broken", "done"}

StompWrite == "STOMP"
Writes == {StompWrite} \cup Subs \cup Requests

(* The ids of GenerateId are random UUIDs, taken as different.             *)
ASSUME IdsAssumption == Subs \cap Requests = {} /\ StompWrite \notin Subs \cup Requests

Callbacks ==
    [cb : {"connect"}, ok : BOOLEAN, id : {NoSub}]
        \cup [cb : {"subscribe", "event"}, ok : BOOLEAN, id : Subs]
        \cup [cb : {"message", "disconnect"}, ok : {TRUE}, id : {NoSub}]

SendHandlers == [cb : {"send"}, ok : BOOLEAN, id : Requests]

TypeOK ==
    /\ phase \in Phases
    /\ closed_ \in BOOLEAN
    /\ writes \subseteq Writes
    /\ doomed \subseteq Subs \cup Requests
    /\ subscriptions_ \subseteq Subs
    /\ requested \subseteq Subs \cup Requests
    /\ context_ \in Seq(Callbacks)
    /\ heard \subseteq Callbacks \cup SendHandlers

Init ==
    /\ phase = "idle"
    /\ closed_ = TRUE
    /\ writes = {}
    /\ doomed = {}
    /\ subscriptions_ = {}
    /\ requested = {}
    /\ context_ = <<>>
    /\ heard = {}

Event(cb, ok, id) == [cb |-> cb, ok |-> ok, id |-> id]
Message == Event("message", TRUE, NoSub)
Post(e) == context_' = Append(context_, e)

-----------------------------------------------------------------------------
(* Setting up the connection.                                              *)

Connect ==
    /\ phase = "idle"
    /\ phase' = "resolving"
    /\ closed_' = FALSE
    /\ UNCHANGED <<writes, doomed, subscriptions_, requested, context_>>

NextStep == [resolving |-> "connecting", connecting |-> "tls", tls |-> "ws"]

(* OnResolve, OnConnect and OnTlsHandshake, on success.  None of them      *)
(* looks at closed_.                                                       *)
Proceed ==
    /\ phase \in DOMAIN NextStep
    /\ phase' = NextStep[phase]
    /\ UNCHANGED <<closed_, writes, doomed, subscriptions_, requested, context_>>

(* A variant that says nothing.                                            *)
ConnectFailsSilently ==
    /\ phase \in Connecting
    /\ phase' = "failed"
    /\ UNCHANGED <<closed_, writes, doomed, subscriptions_, requested, context_>>

(* Any of the four steps fails, by itself or by its timeout: OnWsConnect   *)
(* reports it.                                                             *)
ConnectFails ==
    /\ phase \in Connecting
    /\ phase' = "failed"
    /\ Post(Event("connect", FALSE, NoSub))
    /\ UNCHANGED <<closed_, writes, doomed, subscriptions_, requested>>

(* OnHandshake succeeds: the read loop starts and OnWsConnect writes the   *)
(* STOMP frame.                                                            *)
OnHandshake ==
    /\ phase = "ws"
    /\ phase' = "open"
    /\ writes' = writes \cup {StompWrite}
    /\ UNCHANGED <<closed_, doomed, subscriptions_, requested, context_>>

-----------------------------------------------------------------------------
(* A write ends.  It succeeds only if the stream was open when it began.   *)

(* A variant that saves a subscription for every write.                    *)
WriteSaves(w) ==
    /\ w \in writes \ doomed
    /\ writes' = writes \ {w}
    /\ subscriptions_' = subscriptions_ \cup {w}
    /\ UNCHANGED <<phase, closed_, doomed, requested, context_>>

WriteSucceeds(w) ==
    /\ w \in writes \ (doomed \cup Requests)
    /\ writes' = writes \ {w}
    /\ subscriptions_' = subscriptions_ \cup ({w} \cap Subs)
    /\ UNCHANGED <<phase, closed_, doomed, requested, context_>>

OnWsSendStompFails ==
    /\ StompWrite \in writes
    /\ writes' = writes \ {StompWrite}
    /\ Post(Event("connect", FALSE, NoSub))
    /\ UNCHANGED <<phase, closed_, doomed, subscriptions_, requested>>

(* A variant that says nothing.                                            *)
SubscribeFailsSilently(id) ==
    /\ id \in writes \cap Subs
    /\ writes' = writes \ {id}
    /\ doomed' = doomed \ {id}
    /\ UNCHANGED <<phase, closed_, subscriptions_, requested, context_>>

(* The handler of this subscription is called.  The id says whose it is:   *)
(* the code passes the handler an empty one here (line 455).               *)
OnWsSendSubscribeFails(id) ==
    /\ id \in writes \cap Subs
    /\ writes' = writes \ {id}
    /\ doomed' = doomed \ {id}
    /\ Post(Event("subscribe", FALSE, id))
    /\ UNCHANGED <<phase, closed_, subscriptions_, requested>>

(* A variant that calls the handler only on success.                       *)
SendEndsSilently(id, ok) ==
    /\ id \in writes \cap Requests
    /\ ok => id \notin doomed
    /\ writes' = writes \ {id}
    /\ doomed' = doomed \ {id}
    /\ heard' = IF ok THEN heard \cup {Event("send", ok, id)} ELSE heard
    /\ UNCHANGED <<phase, closed_, subscriptions_, requested, context_>>

(* The write of a Send ends: its handler is not posted but called at once, *)
(* whatever waits in context_.                                             *)
SendEnds(id, ok) ==
    /\ id \in writes \cap Requests
    /\ ok => id \notin doomed
    /\ writes' = writes \ {id}
    /\ doomed' = doomed \ {id}
    /\ heard' = heard \cup {Event("send", ok, id)}
    /\ UNCHANGED <<phase, closed_, subscriptions_, requested, context_>>

AnySendEnds == \E id \in Requests, ok \in BOOLEAN : SendEnds(id, ok)

-----------------------------------------------------------------------------
(* A frame is read.  The server's reply to a frame comes after the write   *)
(* of that frame has completed; otherwise any frame may come at any time.  *)

FrameKinds ==
    [kind : {"CONNECTED", "ERROR", "SEND", "unparsable", "other"}, id : {NoSub}]
        \cup [kind : {"MESSAGE", "mismatch", "RECEIPT"}, id : Subs]

(* A variant that does not look the subscription up.                       *)
ReactionUnchecked(frame) ==
    IF frame.kind = "RECEIPT" THEN <<Event("subscribe", TRUE, frame.id)>> ELSE <<>>

Reaction(frame) ==
    CASE frame.kind = "CONNECTED" -> <<Event("connect", TRUE, NoSub)>>
      [] frame.kind = "unparsable" -> <<Event("connect", FALSE, NoSub)>>
      [] frame.kind = "SEND" /\ HasOnMessage -> <<Message>>
      [] frame.kind = "RECEIPT" /\ frame.id \in subscriptions_ ->
            <<Event("subscribe", TRUE, frame.id)>>
      [] frame.kind = "MESSAGE" /\ frame.id \in subscriptions_ ->
            <<Event("event", TRUE, frame.id)>>
      [] frame.kind = "mismatch" /\ frame.id \in subscriptions_ ->
            <<Event("event", FALSE, frame.id)>>
      [] OTHER -> <<>>

OnWsMessage(frame) ==
    /\ phase = "open"
    /\ frame.kind = "CONNECTED" => StompWrite \notin writes
    /\ frame.id \notin writes
    /\ Len(context_) < MaxPosted
    /\ context_' = context_ \o Reaction(frame)
    /\ UNCHANGED connectionVars

(* A variant that reports every error.                                     *)
ReadErrorReports ==
    /\ phase = "open"
    /\ phase' = "broken"
    /\ Post(Event("disconnect", TRUE, NoSub))
    /\ UNCHANGED <<closed_, writes, doomed, subscriptions_, requested>>

(* A read fails with anything but operation_aborted, the peer's closing    *)
(* included: it is ignored and the next read is started.                   *)
OnReadError ==
    /\ phase = "open"
    /\ phase' = "broken"
    /\ UNCHANGED <<closed_, writes, doomed, subscriptions_, requested, context_>>

(* A variant that does not look at closed_.                                *)
ReadAbortedReports ==
    /\ phase = "broken" \/ (phase = "open" /\ closed_)
    /\ phase' = "done"
    /\ Post(Event("disconnect", TRUE, NoSub))
    /\ UNCHANGED <<closed_, writes, doomed, subscriptions_, requested>>

(* operation_aborted ends the loop, and is reported unless Close was       *)
(* called.                                                                 *)
OnReadAborted ==
    /\ phase = "broken" \/ (phase = "open" /\ closed_)
    /\ phase' = "done"
    /\ IF closed_ THEN UNCHANGED context_ ELSE Post(Event("disconnect", TRUE, NoSub))
    /\ UNCHANGED <<closed_, writes, doomed, subscriptions_, requested>>

-----------------------------------------------------------------------------
(* What the user calls; context_ is left to the caller, which may be a     *)
(* callback.                                                               *)

StartWrite(id) ==
    /\ id \notin requested
    /\ requested' = requested \cup {id}
    /\ writes' = writes \cup {id}
    /\ doomed' = IF phase = "open" THEN doomed ELSE doomed \cup {id}
    /\ UNCHANGED <<phase, closed_, subscriptions_>>

(* GenerateId returns some id that was not used before; all are alike.     *)
Subscribe ==
    /\ ~(Subs \subseteq requested)
    /\ StartWrite(CHOOSE id \in Subs : id \notin requested)

(* Whether the client is connected is not looked at.                       *)
Send == \E id \in Requests : StartWrite(id)

(* A write that is outstanding, a step of Connect included, goes on.       *)
Close ==
    /\ closed_' = TRUE
    /\ subscriptions_' = {}
    /\ UNCHANGED <<phase, writes, doomed, requested>>

UserCall == Subscribe \/ Send \/ Close

TakeCallback ==
    /\ context_ # <<>>
    /\ context_' = Tail(context_)
    /\ heard' = heard \cup ({Head(context_)} \ {Message})

-----------------------------------------------------------------------------
ConnectStep == Proceed \/ ConnectFails \/ OnHandshake

WriteStep ==
    \/ \E w \in Writes : WriteSucceeds(w)
    \/ OnWsSendStompFails
    \/ \E id \in Subs : OnWsSendSubscribeFails(id)

ReadStep ==
    \/ \E frame \in FrameKinds : OnWsMessage(frame)
    \/ OnReadError
    \/ OnReadAborted

(* A posted callback is run, and the user may call the client from it.     *)
RunCallback == TakeCallback /\ (UserCall \/ UNCHANGED connectionVars)

CallFromOutside == UserCall /\ UNCHANGED <<context_, heard>>

Next ==
    \/ (Connect \/ ConnectStep \/ WriteStep \/ ReadStep) /\ UNCHANGED heard
    \/ AnySendEnds
    \/ RunCallback
    \/ CallFromOutside

Spec == Init /\ [][Next]_vars

(* Every operation but one ends by itself: the name is resolved, the TCP   *)
(* connection has 5 s (line 183), the WebSocket handshake has the timeout  *)
(* of line 215, a write and the read of a stream that is broken or being   *)
(* closed end with the stream.  The TLS handshake has no timeout: line 214 *)
(* has just switched it off, and the option set next is the WebSocket's.   *)
Fairness ==
    /\ WF_vars(phase # "tls" /\ ConnectStep /\ UNCHANGED heard)
    /\ WF_vars(WriteStep /\ UNCHANGED heard)
    /\ WF_vars(AnySendEnds)
    /\ WF_vars(OnReadAborted /\ UNCHANGED heard)
    /\ WF_vars(RunCallback)

LiveSpec == Spec /\ Fairness

-----------------------------------------------------------------------------
(* Properties.                                                             *)

Told(e) == e \in heard \cup Range(context_)
Disconnected == Event("disconnect", TRUE, NoSub)

(* No subscription is lost while the client is not closed: its frame is    *)
(* being written, or it is saved, or its failure was posted, and only one  *)
(* of the three (lines 438-461).                                           *)
SubscriptionsAccounted ==
    LET failed == {id \in Subs : Told(Event("subscribe", FALSE, id))}
    IN  /\ ~closed_ => requested \cap Subs = (writes \cap Subs) \cup subscriptions_ \cup failed
        /\ failed \cap (writes \cup subscriptions_) = {}

(* What the user is told of a subscription is consistent, in whatever      *)
(* order writes end, the server replies and the client is closed: one that *)
(* failed never had a receipt or an event.                                 *)
FailedIsNeverLive ==
    \A id \in Subs : Told(Event("subscribe", FALSE, id)) =>
        \A ok \in BOOLEAN :
            ~Told(Event("subscribe", TRUE, id)) /\ ~Told(Event("event", ok, id))

(* The end of the connection is posted once the read loop is over, unless  *)
(* the client was closed, and nothing the server sent is posted after it.  *)
EndIsReported ==
    /\ phase = "done" => closed_ \/ Told(Disconnected)
    /\ Told(Disconnected) => phase = "done"
    /\ \A i, j \in DOMAIN context_ :
        i < j /\ context_[i] = Disconnected => ~context_[j].ok

(* A connection attempt never hangs, except in the TLS handshake: each     *)
(* step ends in the next one or is reported to the user.                   *)
OnlyTlsMayHang ==
    phase \in Connecting ~>
        (phase \in {"tls", "open"} \/ Event("connect", FALSE, NoSub) \in heard)

(* A subscription that cannot be sent is eventually reported, and the      *)
(* handler of every Send is called (lines 307-316), also when the client   *)
(* was not connected, or is closed before the write ends.                  *)
RequestsAreAnswered ==
    /\ \A id \in Subs : id \in writes ~>
        (id \in subscriptions_ \/ closed_ \/ Event("subscribe", FALSE, id) \in heard)
    /\ \A id \in Requests : id \in writes ~>
        \E ok \in BOOLEAN : Event("send", ok, id) \in heard
-----------------------------------------------------------------------------
(* What the user sees of the client, and that it is what was promised; see *)
(* ClientSubscriptions.                                                    *)
Opened == {"open", "broken", "done"}

Link ==
    CASE phase \in Connecting -> "trying"
      [] phase \in {"open", "broken"} -> "up"
      [] phase = "done" -> "over"
      [] phase \in {"idle", "failed"} -> phase

Fate(id) ==
    IF id \notin requested THEN "new"
    ELSE IF id \in writes THEN "asked"
    ELSE IF id \in subscriptions_ THEN "saved"
    ELSE IF Told(Event("subscribe", FALSE, id)) THEN "failed" ELSE "dropped"

Fates == [id \in Subs |-> Fate(id)]

Promise == INSTANCE ClientSubscriptions WITH
    link <- Link, closed <- closed_, subscription <- Fates,
    inbox <- context_, told <- heard \cap Callbacks

(* Whatever the order of writes, frames, errors and calls, the client is   *)
(* one that keeps these promises (lines 95-196): only what is saved has    *)
(* news, on a connection that is up; one subscription fails once and has   *)
(* no other fate then; the end is told when the read loop ends, exactly if *)
(* Close was not called, and once.                                         *)
ImplementsSubscriptions == Promise!Spec
=============================================================================
