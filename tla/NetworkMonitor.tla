---------------------------- MODULE NetworkMonitor ----------------------------
(***************************************************************************)
(* The process (src/inc/network-monitor/network-monitor.h): a StompClient  *)
(* that listens to passenger events and a StompServer that answers         *)
(* quiet-route requests, on one I/O context that one thread runs.  The     *)
(* callbacks of the two come from two strands, each FIFO; between the two  *)
(* there is no order.  This module extends StompServer, whose user it is,  *)
(* and instantiates StompClient.                                           *)
(***************************************************************************)
EXTENDS StompServer, Integers

CONSTANTS
    Subs, NoSub,    \* as in StompClient
    MaxPosted

VARIABLES
    clientPhase, clientClosed_, clientWrites, clientDoomed, subscriptions_,
    clientRequested, clientContext_, clientHeard,
    process,            \* "new" | "configured" | "failed" | "running" |
                        \* "finished" (no work left) | "stopped" |
                        \* "crashed" (by an exception)
    connectedClients_,
    lastErrorCode_

Client == INSTANCE StompClient WITH
    phase <- clientPhase, closed_ <- clientClosed_, writes <- clientWrites,
    doomed <- clientDoomed, requested <- clientRequested,
    context_ <- clientContext_, heard <- clientHeard,
    HasOnMessage <- FALSE, Requests <- {}

(* StompClient's assumption on its ids.                                    *)
ASSUME ClientIdsAssumption == "STOMP" \notin Subs

clientVars == <<clientPhase, clientClosed_, clientWrites, clientDoomed,
                subscriptions_, clientRequested, clientContext_, clientHeard>>
clientConnection == <<clientPhase, clientClosed_, clientWrites, clientDoomed,
                      subscriptions_, clientRequested>>
monitorVars == <<process, connectedClients_, lastErrorCode_>>
allVars == <<vars, clientVars, monitorVars>>

ErrorCodes ==
    {"kOk", "kUndefinedError", "kCouldNotConnectToStompClient",
     "kCouldNotParsePassengerEvent", "kCouldNotParseQuietRouteRequest",
     "kCouldNotRecordPassengerEvent", "kCouldNotSubscribeToPassengerEvents",
     "kStompClientDisconnected", "kStompServerClientDisconnected",
     "kStompServerDisconnected"}

MonitorTypeOK ==
    /\ TypeOK
    /\ Client!TypeOK
    /\ process \in
         {"new", "configured", "failed", "running", "finished", "stopped", "crashed"}
    /\ connectedClients_ \subseteq Ids
    /\ lastErrorCode_ \in ErrorCodes

MonitorInit ==
    /\ Init
    /\ Client!Init
    /\ process = "new"
    /\ connectedClients_ = {}
    /\ lastErrorCode_ = "kUndefinedError"

-----------------------------------------------------------------------------
(* Configure and Run.                                                      *)

(* A file is missing, or not downloaded, parsed or accepted as a network.  *)
ConfigureFails ==
    /\ process = "new"
    /\ process' = "failed"
    /\ UNCHANGED <<vars, clientVars, connectedClients_, lastErrorCode_>>

(* A variable of the environment is missing or is not a number, or the     *)
(* certificates cannot be loaded: nothing catches the exception.           *)
StartThrows ==
    /\ process = "new"
    /\ process' = "crashed"
    /\ UNCHANGED <<vars, clientVars, connectedClients_, lastErrorCode_>>

(* The client is connecting by the time the server is started.             *)
Configure ==
    /\ process = "new"
    /\ Client!Connect
    /\ UNCHANGED clientHeard
    /\ \/ WsRunOk /\ process' = "configured"
       \/ WsRunFails /\ process' = "failed"
    /\ QuietStomp
    /\ Undelivered
    /\ UNCHANGED <<connectedClients_, lastErrorCode_>>

RunMonitor ==
    /\ process = "configured"
    /\ process' = "running"
    /\ lastErrorCode_' = "kOk"
    /\ UNCHANGED <<vars, clientVars, connectedClients_>>

(* Stop, or the end of the time Run was given.                             *)
StopMonitor ==
    /\ process = "running"
    /\ process' = "stopped"
    /\ UNCHANGED <<vars, clientVars, connectedClients_, lastErrorCode_>>

ClientHasWork ==
    \/ clientPhase \in Client!Connecting \cup {"open", "broken"}
    \/ clientWrites # {}
    \/ clientContext_ # <<>>

ServerHasWork ==
    \/ Outstanding > 0
    \/ \E s \in Sessions : stream[s] \in {"tls", "ws", "open", "broken"}
    \/ context_ # <<>>

RunReturns ==
    /\ process = "running"
    /\ ~ClientHasWork /\ ~ServerHasWork
    /\ process' = "finished"
    /\ UNCHANGED <<vars, clientVars, connectedClients_, lastErrorCode_>>

(* A frame that is read ends with the colon of a header, so that StompFrame *)
(* throws, in a handler that ioc_.run() calls: nothing catches this either. *)
ReadThrows ==
    /\ process = "running"
    /\ clientPhase = "open" \/ \E s \in Sessions : stream[s] = "open" /\ Registered(s)
    /\ process' = "crashed"
    /\ UNCHANGED <<vars, clientVars, connectedClients_, lastErrorCode_>>

(* What main returns when it returns (main.cpp:44-54).                     *)
ExitCode ==
    CASE process = "failed" -> -1
      [] process # "failed" /\ lastErrorCode_ = "kOk" -> 0
      [] OTHER -> -2

-----------------------------------------------------------------------------
(* The callbacks of the client.                                            *)

ServerIdle == UNCHANGED vars
ClientIdle == UNCHANGED clientVars
Record(code) == lastErrorCode_' = code

(* Variants: the server is not stopped; only its acceptor is.              *)
ShutDownClient == Client!Close /\ ServerIdle
ShutDownAcceptor == Client!Close /\ WsStop /\ QuietStomp /\ Undelivered

(* Close the client and stop the server.                                   *)
ShutDown ==
    /\ Client!Close
    /\ Stop
    /\ UNCHANGED <<owner, context_>>
    /\ Undelivered

(* Subscribe always returns an id; with Subs used up (a bound) nothing is  *)
(* subscribed.                                                             *)
SubscribeToEvents ==
    \/ Client!Subscribe
    \/ clientRequested = Subs /\ UNCHANGED clientConnection

OnNetworkEventsConnect(ok) ==
    /\ UNCHANGED connectedClients_
    /\ \/ ~ok /\ ShutDown /\ Record("kCouldNotConnectToStompClient")
       \/ ok /\ SubscribeToEvents /\ ServerIdle /\ Record("kOk")

(* A variant that connects again.                                          *)
ReconnectOnDisconnect ==
    /\ Record("kStompClientDisconnected")
    /\ clientPhase' = "resolving"
    /\ clientClosed_' = FALSE
    /\ UNCHANGED <<clientWrites, clientDoomed, subscriptions_, clientRequested>>
    /\ UNCHANGED connectedClients_
    /\ ServerIdle

OnNetworkEventsDisconnect ==
    /\ Record("kStompClientDisconnected")
    /\ UNCHANGED <<clientConnection, connectedClients_>>
    /\ ServerIdle

(* Whatever the result, the last assignment is kOk.                        *)
OnSubscribe(ok) ==
    /\ Record("kOk")
    /\ UNCHANGED <<clientConnection, connectedClients_>>
    /\ ServerIdle

(* The message is a passenger event of a known station, or not.  The error *)
(* code of the client is not looked at.                                    *)
OnNetworkEventsMessage(ok) ==
    /\ \E code \in {"kOk", "kCouldNotParsePassengerEvent", "kCouldNotRecordPassengerEvent"} :
            Record(code)
    /\ UNCHANGED <<clientConnection, connectedClients_>>
    /\ ServerIdle

ClientCallback ==
    /\ process = "running"
    /\ Client!TakeCallback
    /\ LET e == Head(clientContext_)
       IN  \/ e.cb = "connect" /\ OnNetworkEventsConnect(e.ok)
           \/ e.cb = "disconnect" /\ OnNetworkEventsDisconnect
           \/ e.cb = "subscribe" /\ OnSubscribe(e.ok)
           \/ e.cb = "event" /\ OnNetworkEventsMessage(e.ok)
    /\ UNCHANGED process

-----------------------------------------------------------------------------
(* The callbacks of the server.                                            *)

(* A variant that lists the client without its id.                         *)
ConnectListsNoId(id) ==
    /\ NoCall
    /\ connectedClients_' = connectedClients_ \cup {NoId}
    /\ Record("kOk")

OnQuietRouteClientConnect(id) ==
    /\ NoCall
    /\ connectedClients_' = connectedClients_ \cup {id}
    /\ Record("kOk")

(* A variant that does not close the connection.                           *)
CloseForgotten(id) == NoCall

(* Close and Send do nothing for an id that is not registered any more.    *)
CloseClient(id) ==
    /\ IF id \in DOMAIN sessions_ THEN Close(id) ELSE NoCall
    /\ UNCHANGED owner

Reply(id) ==
    /\ IF id \in DOMAIN sessions_ THEN Send(id) ELSE NoCall
    /\ UNCHANGED owner

(* The destination is wrong, the request cannot be parsed, or it is        *)
(* answered (also when the client has left, and with an empty route when   *)
(* the stations are unknown).                                              *)
OnQuietRouteClientMessage(id) ==
    \/ /\ CloseClient(id)
       /\ connectedClients_' = connectedClients_ \ {id}
       /\ lastErrorCode_' \in {lastErrorCode_, "kCouldNotParseQuietRouteRequest"}
    \/ /\ Reply(id)
       /\ UNCHANGED connectedClients_
       /\ Record("kOk")

OnQuietRouteClientDisconnect(id) ==
    /\ NoCall
    /\ connectedClients_' = connectedClients_ \ {id}
    /\ Record("kStompServerClientDisconnected")

OnQuietRouteDisconnect ==
    /\ NoCall
    /\ UNCHANGED connectedClients_
    /\ Record("kStompServerDisconnected")

ServerCallback ==
    /\ process = "running"
    /\ TakeCallback
    /\ LET e == Head(context_)
       IN  \/ e.cb = "connect" /\ OnQuietRouteClientConnect(e.id)
           \/ e.cb = "message" /\ OnQuietRouteClientMessage(e.id)
           \/ e.cb = "disconnect" /\ OnQuietRouteClientDisconnect(e.id)
           \/ e.cb = "serverDown" /\ OnQuietRouteDisconnect
    /\ ClientIdle
    /\ UNCHANGED process

-----------------------------------------------------------------------------
ClientHandler ==
    /\ process = "running"
    /\ Client!ConnectStep \/ Client!WriteStep \/ Client!ReadStep
    /\ UNCHANGED clientHeard
    /\ ServerIdle
    /\ UNCHANGED monitorVars

SessionRuns(s) ==
    process = "running" /\ SessionHandler(s) /\ ClientIdle /\ UNCHANGED monitorVars

AcceptorRuns ==
    process = "running" /\ AcceptorHandler /\ ClientIdle /\ UNCHANGED monitorVars

MonitorNext ==
    \/ ConfigureFails \/ StartThrows \/ Configure
    \/ RunMonitor \/ StopMonitor \/ RunReturns \/ ReadThrows
    \/ ClientHandler \/ ClientCallback
    \/ \E s \in Sessions : SessionRuns(s)
    \/ AcceptorRuns
    \/ ServerCallback

MonitorSpec == MonitorInit /\ [][MonitorNext]_allVars

(* As in the two components: every handler that is ready runs, an          *)
(* operation ends unless it waits for the peer, and Run returns when       *)
(* nothing is left.  A session's handshakes have timeouts.                 *)
SessionEnds(s) ==
    /\ process = "running"
    /\ \/ TlsHandshake(s) \/ RefuseSession(s) \/ OpenSession(s)
       \/ (stream[s] = "broken" \/ closed_[s]) /\ EndRead(s)
    /\ ClientIdle
    /\ UNCHANGED monitorVars

ClientEnds ==
    /\ process = "running"
    /\ \/ clientPhase # "tls" /\ Client!ConnectStep
       \/ Client!OnReadAborted
    /\ UNCHANGED clientHeard
    /\ ServerIdle
    /\ UNCHANGED monitorVars

ClientWrites ==
    process = "running" /\ Client!WriteStep /\ UNCHANGED clientHeard
        /\ ServerIdle /\ UNCHANGED monitorVars

AcceptsEnd ==
    process = "running" /\ (EndAccept \/ \E s \in Sessions : AcceptSession(s))
        /\ ClientIdle /\ UNCHANGED monitorVars

MonitorFairness ==
    /\ WF_allVars(RunReturns)
    /\ WF_allVars(ClientCallback)
    /\ WF_allVars(ServerCallback)
    /\ WF_allVars(ClientEnds)
    /\ WF_allVars(ClientWrites)
    /\ WF_allVars(AcceptsEnd)
    /\ \A s \in Sessions : WF_allVars(SessionEnds(s))

MonitorLiveSpec == MonitorSpec /\ MonitorFairness

-----------------------------------------------------------------------------
(* Properties.                                                             *)

(* The monitor is a user both components allow: it connects its client     *)
(* once, before Run, and calls either of them from callbacks of the other  *)
(* (lines 189-232, 364-544), so that what the server and the client        *)
(* guarantee holds in the process.                                         *)
ComponentsKeepTheirSpecs == Spec /\ Client!Spec

(* Once its callback has run, a connected client is in the list, although  *)
(* the list and the server's maps are updated in different steps.          *)
ListedAfterNews ==
    \A id \in ConnectedIds :
        Event("connect", id) \notin Range(context_) => id \in connectedClients_

(* A client that was taken off the list does not come back: its connect    *)
(* callback never runs after its message or disconnect callback did.       *)
NeverRelisted ==
    [][\A id \in Ids : id \in announced /\ id \notin connectedClients_ =>
            id \notin connectedClients_']_allVars

(* Run does not run out of work while a client is connected or the server  *)
(* listens: it was stopped, or its accept loop has ended and said so.  If  *)
(* the client never was connected, and nobody else, main does not return 0.*)
FinishedMeansDown ==
    process = "finished" =>
        /\ ConnectedIds = {}
        /\ stopped_ \/ reported
        /\ clientPhase \in {"failed", "done"}
        /\ Client!Event("connect", TRUE, NoSub) \notin clientHeard /\ announced = {} =>
            ExitCode = -2

(* A failed connection to the network events shuts the process down: what  *)
(* is still outstanding ends and Run returns, unless it is stopped or      *)
(* crashes first, or a session got through its handshake after the server  *)
(* was stopped.                                                            *)
FailureEndsRun ==
    Client!Event("connect", FALSE, NoSub) \in clientHeard ~>
        \/ process \in {"finished", "stopped", "crashed"}
        \/ \E s \in Sessions : stream[s] = "open" /\ ~closed_[s]

-----------------------------------------------------------------------------
(* What the comments say and the code does not do.                         *)

(* "Get the latest recorder error" (network-monitor.h:278): a subscription *)
(* failure is recorded as kCouldNotSubscribeToPassengerEvents (line 419).  *)
SubscribeFailureIsRecorded ==
    [][\A id \in Subs :
        LET failure == Client!Event("subscribe", FALSE, id)
        IN  failure \notin clientHeard /\ failure \in clientHeard' =>
                lastErrorCode_' = "kCouldNotSubscribeToPassengerEvents"]_allVars
=============================================================================
