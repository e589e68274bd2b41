---------------------------- MODULE MonitorProofs ----------------------------
(***************************************************************************)
(* Proofs about the process: it uses its server and its client as they     *)
(* expect, so that what is proved of each of them holds in it, and the     *)
(* list of connected clients and the end of Run follow from that.          *)
(***************************************************************************)
EXTENDS NetworkMonitor, StompServerProofs

ClientP == INSTANCE StompClientProofs WITH
    phase <- clientPhase, closed_ <- clientClosed_, writes <- clientWrites,
    doomed <- clientDoomed, requested <- clientRequested,
    context_ <- clientContext_, heard <- clientHeard,
    HasOnMessage <- FALSE, Requests <- {}

(* Both instances of the client are the same text.                         *)
LEMMA SameClient ==
    /\ Client!Init <=> ClientP!Init
    /\ Client!Next <=> ClientP!Next
    /\ UNCHANGED Client!vars <=> UNCHANGED ClientP!vars
BY
DEF Client!Init, ClientP!Init, Client!vars, ClientP!vars,
    Client!connectionVars, ClientP!connectionVars, Client!Next, ClientP!Next,
    Client!Connect, ClientP!Connect, Client!ConnectStep, ClientP!ConnectStep,
    Client!Proceed, ClientP!Proceed, Client!NextStep, ClientP!NextStep,
    Client!ConnectFails, ClientP!ConnectFails, Client!Connecting, ClientP!Connecting,
    Client!Post, ClientP!Post, Client!Event, ClientP!Event,
    Client!OnHandshake, ClientP!OnHandshake, Client!StompWrite, ClientP!StompWrite,
    Client!Writes, ClientP!Writes, Client!WriteStep, ClientP!WriteStep,
    Client!WriteSucceeds, ClientP!WriteSucceeds,
    Client!OnWsSendStompFails, ClientP!OnWsSendStompFails,
    Client!OnWsSendSubscribeFails, ClientP!OnWsSendSubscribeFails,
    Client!AnySendEnds, ClientP!AnySendEnds, Client!SendEnds, ClientP!SendEnds,
    Client!ReadStep, ClientP!ReadStep, Client!FrameKinds, ClientP!FrameKinds,
    Client!OnWsMessage, ClientP!OnWsMessage, Client!Reaction, ClientP!Reaction,
    Client!Message, ClientP!Message, Client!OnReadError, ClientP!OnReadError,
    Client!OnReadAborted, ClientP!OnReadAborted, Client!RunCallback, ClientP!RunCallback,
    Client!TakeCallback, ClientP!TakeCallback, Client!UserCall, ClientP!UserCall,
    Client!CallFromOutside, ClientP!CallFromOutside, Client!Subscribe, ClientP!Subscribe,
    Client!StartWrite, ClientP!StartWrite, Client!Send, ClientP!Send,
    Client!Close, ClientP!Close

LEMMA SameClientSpec == Client!Spec => ClientP!Spec
<1>1. Client!Init => ClientP!Init
  BY SameClient
<1>2. [Client!Next]_Client!vars => [ClientP!Next]_ClientP!vars
  BY SameClient
<1> QED  BY <1>1, <1>2, PTL DEF Client!Spec, ClientP!Spec

LEMMA ClientAssumptions == FALSE \in BOOLEAN /\ Subs \cap {} = {} /\ "STOMP" \notin Subs \cup {}
BY ClientIdsAssumption

-----------------------------------------------------------------------------
(* Every step of the process is a step of the server, or leaves it alone.  *)

LEMMA StopIsCall ==
    ASSUME ShutDown
    PROVE  Next
BY DEF ShutDown, Next, CallFromOutside, UserCall

LEMMA ServerCallbackStep ==
    ASSUME Struct, ServerCallback
    PROVE  Next
<1>1. TakeCallback
  BY DEF ServerCallback
<1>2. UserCall \/ NoCall
  <2>1. ASSUME NEW id, CloseClient(id)
        PROVE  UserCall \/ NoCall
    <3>1. CASE id \in DOMAIN sessions_
      <4>1. id \in Ids
        BY <3>1 DEF Struct, TypeOK, IsPartial
      <4> QED  BY <2>1, <3>1, <4>1 DEF CloseClient, UserCall
    <3>2. CASE id \notin DOMAIN sessions_
      BY <2>1, <3>2 DEF CloseClient
    <3> QED  BY <3>1, <3>2
  <2>2. ASSUME NEW id, Reply(id)
        PROVE  UserCall \/ NoCall
    <3>1. CASE id \in DOMAIN sessions_
      <4>1. id \in Ids
        BY <3>1 DEF Struct, TypeOK, IsPartial
      <4> QED  BY <2>2, <3>1, <4>1 DEF Reply, UserCall
    <3>2. CASE id \notin DOMAIN sessions_
      BY <2>2, <3>2 DEF Reply
    <3> QED  BY <3>1, <3>2
  <2> QED
    BY <2>1, <2>2
    DEF ServerCallback, OnQuietRouteClientConnect, OnQuietRouteClientMessage,
        OnQuietRouteClientDisconnect, OnQuietRouteDisconnect
<1> QED  BY <1>1, <1>2 DEF Next, RunCallback

LEMMA ServerSteps == Struct /\ [MonitorNext]_allVars => [Next]_vars
<1> SUFFICES ASSUME Struct, [MonitorNext]_allVars PROVE [Next]_vars
  OBVIOUS
<1>1. CASE \/ ConfigureFails \/ StartThrows \/ RunMonitor \/ StopMonitor \/ RunReturns \/ ReadThrows
           \/ ClientHandler \/ UNCHANGED allVars
  BY <1>1 DEF ConfigureFails, StartThrows, RunMonitor, StopMonitor, RunReturns, ReadThrows,
              ClientHandler, ServerIdle, allVars
<1>2. CASE Configure
  <2>1. CallFromOutside
    BY <1>2 DEF Configure, CallFromOutside, UserCall, Run, QuietStomp, Undelivered
  <2> QED  BY <2>1 DEF Next
<1>3. CASE ClientCallback
  BY <1>3, StopIsCall
  DEF ClientCallback, OnNetworkEventsConnect, OnNetworkEventsDisconnect, OnSubscribe,
      OnNetworkEventsMessage, ServerIdle
<1>4. CASE \E s \in Sessions : SessionRuns(s)
  BY <1>4 DEF SessionRuns, Next
<1>5. CASE AcceptorRuns
  BY <1>5 DEF AcceptorRuns, Next
<1>6. CASE ServerCallback
  BY <1>6, ServerCallbackStep
<1> QED  BY <1>1, <1>2, <1>3, <1>4, <1>5, <1>6 DEF MonitorNext

LEMMA ClientSteps == [MonitorNext]_allVars => [Client!Next]_Client!vars
<1> SUFFICES ASSUME [MonitorNext]_allVars PROVE [Client!Next]_Client!vars
  OBVIOUS
<1>1. CASE UNCHANGED clientVars
  BY <1>1 DEF clientVars, Client!vars, Client!connectionVars
<1>2. CASE Configure
  BY <1>2 DEF Configure, Client!Next
<1>3. CASE ClientHandler
  BY <1>3 DEF ClientHandler, Client!Next
<1>4. CASE ClientCallback
  <2>1. Client!UserCall \/ UNCHANGED Client!connectionVars
    BY <1>4
    DEF ClientCallback, OnNetworkEventsConnect, OnNetworkEventsDisconnect, OnSubscribe,
        OnNetworkEventsMessage, ShutDown, SubscribeToEvents, clientConnection,
        Client!UserCall, Client!connectionVars
  <2> QED  BY <1>4, <2>1 DEF ClientCallback, Client!Next, Client!RunCallback
<1>5. Configure \/ ClientHandler \/ ClientCallback \/ UNCHANGED clientVars
  BY DEF MonitorNext, ConfigureFails, StartThrows, RunMonitor, StopMonitor, RunReturns, ReadThrows,
         SessionRuns, AcceptorRuns, ServerCallback, ClientIdle, allVars
<1> QED  BY <1>1, <1>2, <1>3, <1>4, <1>5

(* The process keeps to what its two components expect of a user, so that  *)
(* all that is proved of them holds in it (network-monitor.h:189-232,      *)
(* 364-544).                                                               *)
THEOREM ProcessKeepsSpecs == MonitorSpec => ComponentsKeepTheirSpecs
<1>1. MonitorInit => Init /\ Client!Init /\ Struct
  BY InitStruct DEF MonitorInit
<1>2. Struct /\ [MonitorNext]_allVars => [Next]_vars /\ Struct' /\ [Client!Next]_Client!vars
  BY ServerSteps, ClientSteps, StepStruct
<1> QED  BY <1>1, <1>2, PTL DEF MonitorSpec, ComponentsKeepTheirSpecs, Spec, Client!Spec

(* What is known of the server and the client, in the process.             *)
ComponentFacts == Struct /\ Queue /\ Replies /\ NeverSilentlyDeaf /\ ClientP!Inv

LEMMA ComponentInvariants == MonitorSpec => []ComponentFacts
<1>1. ClientP!Spec => []ClientP!Inv
  BY ClientAssumptions, ClientP!ClientInvariant DEF ClientP!StompWrite
<1>2. Struct /\ Queue /\ Replies /\ NeverSilentlyDeaf /\ ClientP!Inv => ComponentFacts
  BY DEF ComponentFacts
<1> QED
  BY <1>1, <1>2, ProcessKeepsSpecs, SameClientSpec, StructInvariant, QueueInvariant,
     RepliesInvariant, NeverDeafInSilence, PTL
  DEF ComponentsKeepTheirSpecs

-----------------------------------------------------------------------------
(* The list of clients.                                                    *)

Listed == \A id \in ConnectedIds : id \in announced => id \in connectedClients_

(* A client becomes connected in the step that posts its callback.         *)
LEMMA NewClientIsPosted ==
    ASSUME Struct, Struct', Replies, Replies', [Next]_vars, NEW id \in Ids,
           id \notin ConnectedIds, id \in ConnectedIds'
    PROVE  context_' = Append(context_, Event("connect", id))
<1>1. [Registry!Next]_Registry!vars
  BY StepImplements
<1>2. ClientState[id] # "connected" /\ ClientState'[id] = "connected"
  BY StateOf, StateAfter
<1>3. ClientState = [i \in Ids |-> ClientState[i]]
  BY StateOf
<1>4. Registry!Arrive(id)
  BY <1>1, <1>2, <1>3
  DEF Registry!Next, Registry!vars, Registry!Arrive, Registry!Speak, Registry!Leave,
      Registry!GoDown, Registry!Deliver, Registry!Dismiss
<1> QED  BY <1>4 DEF Registry!Arrive, Registry!Tell, Registry!Event, Event

LEMMA ConnectedHasSession ==
    ASSUME Struct, NEW id \in ConnectedIds
    PROVE  id \in Ids /\ id \in DOMAIN sessions_
BY DEF Struct, TypeOK, IsPartial, Maps, MapsInverse, ConnectedIds, Connected, Registered

LEMMA StepListed ==
    ASSUME ComponentFacts, ComponentFacts', [MonitorNext]_allVars, Listed
    PROVE  Listed'
<1>0. Struct /\ Struct' /\ Queue /\ Queue' /\ Replies /\ Replies' /\ [Next]_vars
  BY ServerSteps DEF ComponentFacts
<1> SUFFICES ASSUME NEW id \in ConnectedIds', id \in announced'
             PROVE  id \in connectedClients_'
  BY DEF Listed
<1>1. id \in Ids /\ id \in DOMAIN sessions_'
  BY <1>0
  DEF Struct, TypeOK, IsPartial, Maps, MapsInverse, ConnectedIds, Connected, Registered
<1>2. id \in ConnectedIds
  <2>1. SUFFICES ASSUME id \notin ConnectedIds PROVE FALSE
    OBVIOUS
  <2>2. context_' = Append(context_, Event("connect", id))
    BY <1>0, <1>1, <2>1, NewClientIsPosted
  <2>3. context_ \in Seq(Callbacks) /\ context_' \in Seq(Callbacks)
    BY <1>0 DEF Struct, TypeOK
  <2>4. PICK n \in DOMAIN context_' : context_'[n] = Event("connect", id)
    BY <2>2, <2>3
  <2> QED  BY <1>0, <2>4 DEF Queue, CallbackOrder, Event
<1>3. CASE ServerCallback
  <2>1. PICK e \in Callbacks : e = Head(context_) /\ context_ # <<>> /\ e = context_[1]
    BY <1>0, <1>3 DEF ServerCallback, TakeCallback, Struct, TypeOK
  <2>2. 1 \in DOMAIN context_
    BY <1>0, <2>1 DEF Struct, TypeOK
  <2>3. announced' = announced \cup {i \in Ids : e = Event("connect", i)}
    BY <1>3, <2>1 DEF ServerCallback, TakeCallback
  <2>4. CASE e.cb = "connect"
    <3>1. e = Event("connect", e.id)
      BY <2>1, <2>4 DEF Event, Callbacks, Callback, ServerDown
    <3>2. connectedClients_' = connectedClients_ \cup {e.id}
      BY <1>3, <2>1, <2>4 DEF ServerCallback, OnQuietRouteClientConnect
    <3> QED  BY <1>2, <2>3, <3>1, <3>2 DEF Listed, Event
  <2>5. CASE e.cb # "connect"
    <3>1. id \in connectedClients_
      BY <1>2, <2>3, <2>5 DEF Listed, Event
    <3>2. CASE e.cb = "message"
      <4>1. \/ CloseClient(e.id) /\ connectedClients_' = connectedClients_ \ {e.id}
            \/ UNCHANGED connectedClients_
        BY <1>3, <2>1, <3>2 DEF ServerCallback, OnQuietRouteClientMessage
      <4>2. ASSUME CloseClient(e.id) PROVE e.id \notin DOMAIN sessions_'
        <5>1. CASE e.id \in DOMAIN sessions_
          <6>1. PICK s \in DOMAIN connections_ : s = sessions_[e.id] /\ connections_[s].id = e.id
            BY <1>0, <5>1 DEF Struct, Maps, MapsInverse
          <6>2. Unregister(s)
            BY <4>2, <5>1, <6>1 DEF CloseClient, Close, Registered, CloseSilently
          <6> QED  BY <6>1, <6>2 DEF Unregister, Without
        <5>2. CASE e.id \notin DOMAIN sessions_
          BY <4>2, <5>2 DEF CloseClient, NoCall
        <5> QED  BY <5>1, <5>2
      <4> QED  BY <1>1, <3>1, <4>1, <4>2
    <3>3. CASE e.cb = "disconnect"
      <4>1. e = Event("disconnect", e.id) /\ e.id \in Ids
        BY <2>1, <3>3 DEF Event, Callbacks, Callback, ServerDown
      <4>2. Ended(e.id)
        BY <2>1, <2>2, <4>1 DEF Ended, Waiting
      <4>3. e.id # id
        BY <1>0, <1>2, <4>1, <4>2, ConnectedHasSession DEF Queue, EndedIsOver
      <4>4. connectedClients_' = connectedClients_ \ {e.id}
        BY <1>3, <2>1, <3>3 DEF ServerCallback, OnQuietRouteClientDisconnect
      <4> QED  BY <3>1, <4>3, <4>4
    <3>4. CASE e.cb = "serverDown"
      BY <1>3, <2>1, <3>1, <3>4 DEF ServerCallback, OnQuietRouteDisconnect
    <3> QED
      BY <1>3, <2>1, <2>5, <3>2, <3>3, <3>4 DEF ServerCallback
  <2> QED  BY <2>4, <2>5
<1>4. CASE ~ServerCallback
  <2>1. UNCHANGED <<announced, connectedClients_>>
    <3>1. CASE ClientCallback
      BY <3>1
      DEF ClientCallback, OnNetworkEventsConnect, OnNetworkEventsDisconnect, OnSubscribe,
          OnNetworkEventsMessage, ShutDown, ServerIdle, Undelivered, vars, stompVars
    <3>2. CASE \E s \in Sessions : SessionRuns(s)
      BY <3>2
      DEF SessionRuns, SessionHandler, TlsHandshake, RefuseSession, OpenSession, ReadFrame,
          FailRead, EndRead, Undelivered, monitorVars
    <3>3. CASE AcceptorRuns
      BY <3>3
      DEF AcceptorRuns, AcceptorHandler, CompleteAccept, AcceptSession, EndAccept, Undelivered,
          monitorVars
    <3> QED
      BY <1>4, <3>1, <3>2, <3>3
      DEF MonitorNext, ConfigureFails, StartThrows, Configure, RunMonitor, StopMonitor, RunReturns,
          ReadThrows, ClientHandler, ServerIdle, Undelivered, monitorVars, vars, stompVars, allVars
  <2> QED  BY <1>2, <2>1 DEF Listed
<1> QED  BY <1>3, <1>4

(* A connected client is in the list once its connect callback has run     *)
(* (network-monitor.h:437-544).                                            *)
THEOREM ClientsAreListed == MonitorSpec => []ListedAfterNews
<1>1. MonitorInit => Listed
  BY DEF MonitorInit, Init, Listed
<1>2. ComponentFacts /\ Listed => ListedAfterNews
  <2> SUFFICES ASSUME ComponentFacts, Listed, NEW id \in ConnectedIds,
                      Event("connect", id) \notin Range(context_)
               PROVE  id \in connectedClients_
    BY DEF ListedAfterNews
  <2>1. PICK s \in DOMAIN connections_ : Connected(s) /\ connections_[s].id = id /\ id \in Ids
    BY ConnectedHasSession DEF ComponentFacts, ConnectedIds, Connected, Registered
  <2>2. Introduced(id)
    BY <2>1 DEF ComponentFacts, Queue, NewsMatchesStatus
  <2>3. id \in announced
    BY <2>2 DEF Introduced, Waiting, Range
  <2> QED  BY <2>3 DEF Listed
<1> QED  BY <1>1, <1>2, ComponentInvariants, StepListed, PTL DEF MonitorSpec

(* A client taken off the list is never put on it again                    *)
(* (network-monitor.h:437-544).                                            *)
THEOREM ClientsAreNotRelisted == MonitorSpec => NeverRelisted
<1>1. ASSUME ComponentFacts, [MonitorNext]_allVars
      PROVE  [\A id \in Ids : id \in announced /\ id \notin connectedClients_ =>
                id \notin connectedClients_']_allVars
  <2> SUFFICES ASSUME NEW id \in Ids, id \in announced, id \notin connectedClients_,
                      id \in connectedClients_'
               PROVE  FALSE
    OBVIOUS
  <2>1. ServerCallback /\ Head(context_).cb = "connect" /\ Head(context_).id = id
    BY <1>1
    DEF MonitorNext, ConfigureFails, StartThrows, Configure, RunMonitor, StopMonitor, RunReturns,
        ReadThrows, ClientHandler, ClientCallback, OnNetworkEventsConnect,
        OnNetworkEventsDisconnect, OnSubscribe, OnNetworkEventsMessage, SessionRuns, AcceptorRuns,
        ServerCallback, OnQuietRouteClientConnect, OnQuietRouteClientMessage,
        OnQuietRouteClientDisconnect, OnQuietRouteDisconnect, monitorVars, allVars
  <2>2. 1 \in DOMAIN context_ /\ context_[1] = Head(context_)
    BY <1>1, <2>1 DEF ServerCallback, TakeCallback, ComponentFacts, Struct, TypeOK
  <2> QED  BY <1>1, <2>1, <2>2 DEF ComponentFacts, Queue, CallbackOrder
<1> QED  BY <1>1, ComponentInvariants, PTL DEF MonitorSpec, NeverRelisted

-----------------------------------------------------------------------------
(* The end of Run.                                                         *)

NotConnected == Client!Event("connect", FALSE, NoSub)
LostConnection == Client!Event("disconnect", TRUE, NoSub)

(* Nobody was ever connected, on either side.                              *)
Unheard == Client!Event("connect", TRUE, NoSub) \notin clientHeard /\ announced = {}

(* Run has begun, the acceptor was started, and whatever ends the client   *)
(* is recorded; as long as nobody was connected nothing else is.           *)
EndIsRecorded ==
    /\ process \in {"new", "configured"} => clientHeard = {} /\ announced = {}
    /\ process \in {"configured", "running"} =>
        clientPhase # "idle" /\ (acceptor_ = "listening" \/ stopped_)
    /\ clientClosed_ => clientPhase = "idle" \/ NotConnected \in clientHeard
    /\ Unheard => clientRequested = {}
    /\ Unheard /\ clientHeard \cap {NotConnected, LostConnection} # {} => lastErrorCode_ # "kOk"

LEMMA ClientFacts ==
    ASSUME ComponentFacts
    PROVE  /\ clientPhase \in Client!Connecting \cup {"idle", "failed", "open", "broken", "done"}
           /\ clientContext_ \in Seq(ClientP!Callbacks)
           /\ clientPhase = "failed" =>
                NotConnected \in clientHeard \cup Range(clientContext_)
           /\ clientPhase = "done" =>
                clientClosed_ \/ LostConnection \in clientHeard \cup Range(clientContext_)
           /\ clientRequested = {} => \A e \in Range(clientContext_) : e.cb \notin {"subscribe", "event"}
<1>1. /\ clientPhase \in Client!Connecting \cup {"idle", "failed", "open", "broken", "done"}
      /\ clientContext_ \in Seq(ClientP!Callbacks)
  BY DEF ComponentFacts, ClientP!Inv, ClientP!TypeOK, ClientP!Phases, ClientP!Connecting,
         Client!Connecting
<1>2. /\ clientPhase = "failed" => NotConnected \in clientHeard \cup Range(clientContext_)
      /\ clientPhase = "done" =>
            clientClosed_ \/ LostConnection \in clientHeard \cup Range(clientContext_)
  BY DEF ComponentFacts, ClientP!Inv, ClientP!EndIsTold, ClientP!Told, ClientP!NotConnected,
         ClientP!Disconnected, ClientP!Event, ClientP!Range, Client!Event, NotConnected,
         LostConnection, Range
<1>3. ASSUME clientRequested = {}, NEW e \in Range(clientContext_)
      PROVE  e.cb \notin {"subscribe", "event"}
  <2>1. e \in ClientP!Callbacks
    BY <1>1 DEF Range
  <2>2. SUFFICES ASSUME e.cb \in {"subscribe", "event"} PROVE FALSE
    OBVIOUS
  <2>3. e.id \in Subs /\ e.ok \in BOOLEAN /\ e = ClientP!Event(e.cb, e.ok, e.id)
    BY <2>1, <2>2 DEF ClientP!Callbacks, ClientP!Event
  <2>4. ClientP!Told(e)
    BY DEF ClientP!Told, ClientP!Range, Range
  <2>5. ClientP!Failed(e.id) \/ ClientP!Live(e.id)
    BY <2>2, <2>3, <2>4 DEF ClientP!Failed, ClientP!Live
  <2> QED  BY <1>3, <2>3, <2>5 DEF ComponentFacts, ClientP!Inv, ClientP!Accounts
<1> QED  BY <1>1, <1>2, <1>3

(* The only news a client without subscriptions has of itself.             *)
LEMMA ClientCallbackRecords ==
    ASSUME ComponentFacts, EndIsRecorded, ClientCallback, Unheard'
    PROVE  /\ clientHeard' \cap {NotConnected, LostConnection} # {} => lastErrorCode_' # "kOk"
           /\ clientRequested' = {}
<1>1. PICK e \in ClientP!Callbacks :
          /\ e = Head(clientContext_) /\ e \in Range(clientContext_)
          /\ clientHeard' = clientHeard \cup ({e} \ {Client!Message})
  BY ClientFacts DEF ClientCallback, Client!TakeCallback, Range
<1>2. Unheard /\ clientRequested = {}
  <2>1. announced' = {} => announced = {}
    BY DEF ClientCallback, OnNetworkEventsConnect, OnNetworkEventsDisconnect, OnSubscribe,
           OnNetworkEventsMessage, ShutDown, ServerIdle, Undelivered, vars, stompVars
  <2> QED  BY <1>1, <2>1 DEF Unheard, EndIsRecorded
<1>3. e.cb \notin {"subscribe", "event"}
  BY <1>1, <1>2, ClientFacts
<1>4. CASE e.cb = "connect"
  <2>1. e = Client!Event("connect", e.ok, NoSub) /\ e # Client!Message
    <3>1. e \in [cb : {"connect"}, ok : BOOLEAN, id : {NoSub}]
      BY <1>1, <1>4 DEF ClientP!Callbacks
    <3> QED  BY <3>1 DEF Client!Event, Client!Message
  <2>2. ~e.ok
    BY <1>1, <2>1 DEF Unheard, ClientP!Callbacks
  <2>3. ShutDown /\ Record("kCouldNotConnectToStompClient")
    BY <1>1, <1>4, <2>2 DEF ClientCallback, OnNetworkEventsConnect
  <2> QED  BY <1>2, <2>3 DEF ShutDown, Client!Close, Record
<1>5. CASE e.cb = "disconnect"
  BY <1>1, <1>2, <1>5
  DEF ClientCallback, OnNetworkEventsDisconnect, clientConnection, Record
<1> QED  BY <1>1, <1>3, <1>4, <1>5 DEF ClientCallback

(* Nor has the server anything to say but that it is down.                 *)
LEMMA ServerCallbackRecords ==
    ASSUME ComponentFacts, ServerCallback, Unheard'
    PROVE  lastErrorCode_' # "kOk"
<1>1. PICK e \in Callbacks :
          /\ e = context_[1] /\ e = Head(context_) /\ 1 \in DOMAIN context_
          /\ DOMAIN context_ \subseteq Nat \ {0}
          /\ announced' = announced \cup {i \in Ids : e = Event("connect", i)}
  BY DEF ServerCallback, TakeCallback, ComponentFacts, Struct, TypeOK
<1>2. announced = {}
  BY <1>1 DEF Unheard
<1>3. e.cb # "connect"
  BY <1>1 DEF Unheard, Callbacks, Callback, ServerDown, Event
<1>4. e.cb \notin {"message", "disconnect"}
  BY <1>1, <1>2 DEF ComponentFacts, Queue, CallbackOrder
<1> QED
  BY <1>1, <1>3, <1>4 DEF ServerCallback, OnQuietRouteDisconnect, Record

LEMMA StepEndIsRecorded ==
    ASSUME ComponentFacts, ComponentFacts', EndIsRecorded, [MonitorNext]_allVars
    PROVE  EndIsRecorded'
<1>1. CASE \/ ConfigureFails \/ StartThrows \/ RunMonitor \/ StopMonitor \/ RunReturns \/ ReadThrows
           \/ UNCHANGED allVars
  <2>1. UNCHANGED <<clientHeard, announced, clientPhase, clientClosed_, clientRequested, acceptor_,
                    stopped_>>
    BY <1>1
    DEF ConfigureFails, StartThrows, RunMonitor, StopMonitor, RunReturns, ReadThrows, allVars,
        clientVars, vars, wsVars, serverVars, stompVars
  <2>2. /\ process' \in {"new", "configured"} => process' = process
        /\ process' = "running" => process \in {"configured", "running"}
        /\ lastErrorCode_' = lastErrorCode_ \/ process = "configured"
    BY <1>1
    DEF ConfigureFails, StartThrows, RunMonitor, StopMonitor, RunReturns, ReadThrows, allVars,
        monitorVars
  <2> QED  BY <2>1, <2>2 DEF EndIsRecorded, Unheard
<1>2. CASE Configure
  BY <1>2
  DEF Configure, Client!Connect, WsRunOk, WsRunFails, Undelivered, EndIsRecorded, Unheard
<1>3. CASE ClientHandler
  <2>1. /\ clientClosed_' = clientClosed_ /\ clientRequested' = clientRequested
        /\ clientPhase # "idle" => clientPhase' # "idle"
        /\ UNCHANGED <<process, clientHeard, announced, acceptor_, stopped_, lastErrorCode_>>
    <3>1. UNCHANGED <<process, clientHeard, announced, acceptor_, stopped_, lastErrorCode_>>
      BY <1>3 DEF ClientHandler, ServerIdle, monitorVars, vars, wsVars, serverVars, stompVars
    <3>2. CASE Client!Proceed
      <4>1. \A p \in DOMAIN Client!NextStep : Client!NextStep[p] # "idle"
        BY DEF Client!NextStep
      <4> QED  BY <3>1, <3>2, <4>1 DEF Client!Proceed
    <3>3. CASE ~Client!Proceed
      BY <1>3, <3>1, <3>3
      DEF ClientHandler, Client!ConnectStep, Client!ConnectFails, Client!OnHandshake,
          Client!WriteStep, Client!WriteSucceeds, Client!OnWsSendStompFails,
          Client!OnWsSendSubscribeFails, Client!ReadStep, Client!OnWsMessage,
          Client!connectionVars, Client!OnReadError, Client!OnReadAborted
    <3> QED  BY <3>2, <3>3
  <2> QED  BY <1>3, <2>1 DEF EndIsRecorded, Unheard, ClientHandler
<1>4. CASE ClientCallback
  <2>1. clientHeard \subseteq clientHeard' /\ process = "running" /\ process' = "running"
    BY <1>4 DEF ClientCallback, Client!TakeCallback
  <2>2. clientPhase' = clientPhase /\ (stopped_' \/ UNCHANGED <<acceptor_, stopped_>>)
    BY <1>4
    DEF ClientCallback, OnNetworkEventsConnect, OnNetworkEventsDisconnect, OnSubscribe,
        OnNetworkEventsMessage, ShutDown, SubscribeToEvents, Client!Subscribe, Client!StartWrite,
        Client!Close, Stop, WsStop, ServerIdle, clientConnection, vars, wsVars, serverVars
  <2>3. clientClosed_' => clientClosed_ \/ NotConnected \in clientHeard'
    <3>1. CASE Head(clientContext_).cb = "connect" /\ ~Head(clientContext_).ok
      <4>1. Head(clientContext_) \in ClientP!Callbacks
        BY <1>4, ClientFacts DEF ClientCallback, Client!TakeCallback
      <4>2. Head(clientContext_) = NotConnected /\ NotConnected # Client!Message
        BY <3>1, <4>1 DEF ClientP!Callbacks, NotConnected, Client!Event, Client!Message
      <4> QED  BY <1>4, <4>2 DEF ClientCallback, Client!TakeCallback
    <3>2. CASE ~(Head(clientContext_).cb = "connect" /\ ~Head(clientContext_).ok)
      BY <1>4, <3>2
      DEF ClientCallback, OnNetworkEventsConnect, OnNetworkEventsDisconnect, OnSubscribe,
          OnNetworkEventsMessage, SubscribeToEvents, Client!Subscribe, Client!StartWrite,
          clientConnection
    <3> QED  BY <3>1, <3>2
  <2> QED  BY <1>4, <2>1, <2>2, <2>3, ClientCallbackRecords DEF EndIsRecorded
<1>5. CASE (\E s \in Sessions : SessionRuns(s)) \/ AcceptorRuns
  <2>1. /\ UNCHANGED <<process, clientHeard, clientPhase, clientClosed_, clientRequested,
                       lastErrorCode_>>
        /\ process = "running"
    BY <1>5 DEF SessionRuns, AcceptorRuns, ClientIdle, clientVars, monitorVars
  <2>2. UNCHANGED <<acceptor_, stopped_, announced>>
    BY <1>5
    DEF SessionRuns, SessionHandler, TlsHandshake, RefuseSession, OpenSession, ReadFrame, FailRead,
        EndRead, OnTlsHandshakeOk, OnHandshakeError, OnHandshakeOk, OnRead, OnReadError, OnReadEnd,
        Advance, AcceptorRuns, AcceptorHandler, CompleteAccept, AcceptSession, EndAccept,
        AcceptCompletes, OnConnectionAccepted, OnAcceptError, serverVars, Undelivered
  <2> QED  BY <2>1, <2>2 DEF EndIsRecorded, Unheard
<1>6. CASE ServerCallback
  <2>1. /\ UNCHANGED <<process, clientHeard, clientPhase, clientClosed_, clientRequested>>
        /\ process = "running" /\ announced \subseteq announced'
    BY <1>6 DEF ServerCallback, TakeCallback, ClientIdle, clientVars
  <2>2. UNCHANGED <<acceptor_, stopped_>>
    BY <1>6
    DEF ServerCallback, OnQuietRouteClientConnect, OnQuietRouteClientMessage, CloseClient, Reply,
        OnQuietRouteClientDisconnect, OnQuietRouteDisconnect, NoCall, Send, Close, wsVars,
        serverVars
  <2>3. Unheard' => Unheard
    BY <2>1 DEF Unheard
  <2> QED  BY <1>6, <2>1, <2>2, <2>3, ServerCallbackRecords DEF EndIsRecorded
<1> QED  BY <1>1, <1>2, <1>3, <1>4, <1>5, <1>6 DEF MonitorNext

LEMMA StepFinished ==
    ASSUME ComponentFacts, EndIsRecorded, FinishedMeansDown, [MonitorNext]_allVars
    PROVE  FinishedMeansDown'
<1>1. CASE RunReturns
  <2>1. /\ process = "running" /\ process' = "finished" /\ ~ClientHasWork /\ ~ServerHasWork
        /\ UNCHANGED <<vars, clientVars, lastErrorCode_>>
    BY <1>1 DEF RunReturns
  <2>2. ConnectedIds = {}
    BY <2>1
    DEF ServerHasWork, ConnectedIds, Connected, Registered, ComponentFacts, Struct, Maps,
        RegisteredIsLive
  <2>3. stopped_ \/ reported
    BY <2>1 DEF ServerHasWork, EndIsRecorded, ComponentFacts, NeverSilentlyDeaf
  <2>4. clientPhase \in {"failed", "done"} /\ clientContext_ = <<>>
    BY <2>1, ClientFacts DEF ClientHasWork, EndIsRecorded
  <2>5. NotConnected \in clientHeard \/ LostConnection \in clientHeard
    <3>1. Range(clientContext_) = {}
      BY <2>4 DEF Range
    <3> QED  BY <2>4, <3>1, ClientFacts DEF EndIsRecorded
  <2>6. Unheard => lastErrorCode_ # "kOk"
    BY <2>5 DEF EndIsRecorded
  <2>7. /\ ConnectedIds' = ConnectedIds
        /\ UNCHANGED <<stopped_, reported, clientPhase, clientHeard, announced, lastErrorCode_>>
    BY <2>1
    DEF ConnectedIds, Connected, Registered, vars, wsVars, serverVars, stompVars, clientVars
  <2>8. Unheard' => ExitCode' = -2
    BY <2>1, <2>6, <2>7 DEF Unheard, ExitCode
  <2> QED  BY <2>2, <2>3, <2>4, <2>7, <2>8 DEF FinishedMeansDown, Unheard
<1>2. CASE process' = "finished" /\ ~RunReturns
  <2>1. UNCHANGED allVars
    BY <1>2
    DEF MonitorNext, ConfigureFails, StartThrows, Configure, RunMonitor, StopMonitor, ReadThrows,
        ClientHandler, ClientCallback, SessionRuns, AcceptorRuns, ServerCallback, monitorVars
  <2> QED
    BY <2>1
    DEF FinishedMeansDown, ExitCode, ConnectedIds, Connected, Registered, allVars, vars, wsVars,
        serverVars, stompVars, clientVars, monitorVars
<1>3. CASE process' # "finished"
  BY <1>3 DEF FinishedMeansDown
<1> QED  BY <1>1, <1>2, <1>3

(* When Run returns for want of work, nobody is connected, the server does *)
(* not listen, the client is down, and main does not return 0 if nobody    *)
(* ever was connected (network-monitor.h:239-267, main.cpp:44-54).         *)
THEOREM RunEndsDown == MonitorSpec => []FinishedMeansDown
<1>1. MonitorInit => EndIsRecorded /\ FinishedMeansDown
  BY DEF MonitorInit, Init, Client!Init, EndIsRecorded, Unheard, FinishedMeansDown
<1>2. /\ ComponentFacts /\ ComponentFacts' /\ EndIsRecorded /\ [MonitorNext]_allVars =>
            EndIsRecorded'
      /\ ComponentFacts /\ EndIsRecorded /\ FinishedMeansDown /\ [MonitorNext]_allVars =>
            FinishedMeansDown'
  BY StepEndIsRecorded, StepFinished
<1> QED  BY <1>1, <1>2, ComponentInvariants, PTL DEF MonitorSpec

-----------------------------------------------------------------------------
OwnTypes ==
    /\ process \in
         {"new", "configured", "failed", "running", "finished", "stopped", "crashed"}
    /\ connectedClients_ \subseteq Ids
    /\ lastErrorCode_ \in ErrorCodes

LEMMA StepOwnTypes ==
    ASSUME Struct, OwnTypes, [MonitorNext]_allVars
    PROVE  OwnTypes'
<1>1. CASE ServerCallback
  <2>1. PICK e \in Callbacks : e = Head(context_)
    BY <1>1 DEF ServerCallback, TakeCallback, Struct, TypeOK
  <2>2. e.cb = "connect" => e.id \in Ids
    BY DEF Callbacks, Callback, ServerDown
  <2> QED
    BY <1>1, <2>1, <2>2
    DEF ServerCallback, OnQuietRouteClientConnect, OnQuietRouteClientMessage,
        OnQuietRouteClientDisconnect, OnQuietRouteDisconnect, Record, OwnTypes, ErrorCodes
<1>2. CASE ClientCallback
  BY <1>2
  DEF ClientCallback, OnNetworkEventsConnect, OnNetworkEventsDisconnect, OnSubscribe,
      OnNetworkEventsMessage, Record, OwnTypes, ErrorCodes
<1>3. CASE ~ServerCallback /\ ~ClientCallback
  BY <1>3
  DEF MonitorNext, ConfigureFails, StartThrows, Configure, RunMonitor, StopMonitor, RunReturns,
      ReadThrows, ClientHandler, SessionRuns, AcceptorRuns, monitorVars, allVars, OwnTypes,
      ErrorCodes
<1> QED  BY <1>1, <1>2, <1>3

(* The state of the process is of the type its members have.               *)
THEOREM MonitorTypes == MonitorSpec => []MonitorTypeOK
<1>1. MonitorInit => OwnTypes
  BY DEF MonitorInit, OwnTypes, ErrorCodes
<1>2. ComponentFacts /\ OwnTypes /\ [MonitorNext]_allVars => OwnTypes'
  BY StepOwnTypes DEF ComponentFacts
<1>3. ComponentFacts /\ OwnTypes => MonitorTypeOK
  BY DEF ComponentFacts, Struct, ClientP!Inv, ClientP!TypeOK, Client!TypeOK, ClientP!Phases,
         Client!Phases, ClientP!Connecting, Client!Connecting, ClientP!Writes, Client!Writes,
         ClientP!StompWrite, Client!StompWrite, ClientP!Callbacks, Client!Callbacks,
         ClientP!SendHandlers, Client!SendHandlers, OwnTypes, MonitorTypeOK
<1> QED  BY <1>1, <1>2, <1>3, ComponentInvariants, PTL DEF MonitorSpec
=============================================================================
