-------------------------- MODULE StompServerProofs --------------------------
(***************************************************************************)
(* Proofs about StompServer, for every number of sessions, ids, runs and   *)
(* messages.  Struct is the inductive invariant about the two maps and the *)
(* sessions behind them; it is what makes the lookups of Send, Close and   *)
(* the session handlers safe.  Queue and Replies, the invariants of what   *)
(* is told, rest on it, and the refinement on all three.                   *)
(***************************************************************************)
EXTENDS StompServer, TLAPS

(* A registered id belongs to the session it was generated for, and to no  *)
(* other: ids are unique.                                                  *)
OwnersMatch ==
    \A s \in DOMAIN connections_ :
        /\ connections_[s].id \in DOMAIN owner
        /\ owner[connections_[s].id] = s

(* The server only closes sessions whose handshakes are over.              *)
ClosedIsKnown == \A s \in Sessions : closed_[s] => s \in Known

Maps == MapsInverse /\ RegisteredIsLive /\ OwnersMatch /\ ClosedIsKnown
Struct == TypeOK /\ Maps

-----------------------------------------------------------------------------
(* Maps with an entry added or removed, as the server's two maps are.      *)

LEMMA ExtendPartial ==
    ASSUME NEW S, NEW T, NEW f, IsPartial(f, S, T), NEW x \in S, NEW v \in T
    PROVE  IsPartial(Extend(f, x, v), S, T)
BY DEF IsPartial, Extend

LEMMA WithoutPartial ==
    ASSUME NEW S, NEW T, NEW f, IsPartial(f, S, T), NEW x
    PROVE  IsPartial(Without(f, x), S, T)
BY DEF IsPartial, Without

LEMMA EmptyPartial ==
    ASSUME NEW S, NEW T
    PROVE  IsPartial(EmptyMap, S, T)
BY DEF IsPartial, EmptyMap

-----------------------------------------------------------------------------
(* What the steps do to the maps and the sessions behind them.             *)

(* A step that leaves both maps and owner alone keeps the invariant if it  *)
(* closes no registered session, lets its stream at most break, and closes *)
(* known sessions only.                                                    *)
LEMMA QuietKeepsMaps ==
    ASSUME Struct, UNCHANGED <<connections_, sessions_, owner>>,
           \A s \in DOMAIN connections_ :
               ~closed_'[s] /\ stream'[s] \in {"open", "broken"},
           ClosedIsKnown'
    PROVE  Maps'
BY DEF Struct, Maps, MapsInverse, RegisteredIsLive, OwnersMatch

(* A step that unregisters one session keeps it if it treats the others so. *)
LEMMA UnregisterKeepsMaps ==
    ASSUME Struct, NEW s \in DOMAIN connections_, Unregister(s), UNCHANGED owner,
           \A r \in DOMAIN connections_ \ {s} :
               ~closed_'[r] /\ stream'[r] \in {"open", "broken"},
           ClosedIsKnown'
    PROVE  /\ Maps'
           /\ IsPartial(connections_, Sessions, [id : Ids, status : Status])'
           /\ IsPartial(sessions_, Ids, Sessions)'
<1> DEFINE id == connections_[s].id
<1>1. /\ connections_' = Without(connections_, s)
      /\ sessions_' = Without(sessions_, id)
  BY DEF Unregister
<1>2. /\ DOMAIN connections_' = DOMAIN connections_ \ {s}
      /\ \A r \in DOMAIN connections_' : connections_'[r] = connections_[r]
  BY <1>1 DEF Without
<1>3. /\ DOMAIN sessions_' = DOMAIN sessions_ \ {id}
      /\ \A i \in DOMAIN sessions_' : sessions_'[i] = sessions_[i]
  BY <1>1 DEF Without
<1>4. \A r \in DOMAIN connections_' : connections_[r].id # id
  BY <1>2 DEF Struct, Maps, MapsInverse
<1>5. \A i \in DOMAIN sessions_' : sessions_[i] # s
  BY <1>3 DEF Struct, Maps, MapsInverse
<1>6. MapsInverse'
  BY <1>2, <1>3, <1>4, <1>5 DEF Struct, Maps, MapsInverse
<1>7. RegisteredIsLive' /\ OwnersMatch'
  BY <1>2 DEF Struct, Maps, RegisteredIsLive, OwnersMatch
<1>8. /\ IsPartial(connections_, Sessions, [id : Ids, status : Status])'
      /\ IsPartial(sessions_, Ids, Sessions)'
  BY <1>1, WithoutPartial DEF Struct, TypeOK
<1> QED  BY <1>6, <1>7, <1>8 DEF Maps

(* OnWsSessionConnect registers a session that is not yet registered,      *)
(* because only an open or broken one is, under an id never used before.   *)
LEMMA RegisterKeepsMaps ==
    ASSUME Struct, NEW s \in Sessions, OnHandshakeOk(s), OnWsSessionConnectOk(s)
    PROVE  /\ Maps'
           /\ IsPartial(connections_, Sessions, [id : Ids, status : Status])'
           /\ IsPartial(sessions_, Ids, Sessions)'
           /\ IsPartial(owner, Ids, Sessions)'
<1>1. PICK id \in Ids \ DOMAIN owner :
          /\ sessions_' = Extend(sessions_, id, s)
          /\ connections_' = Extend(connections_, s, [id |-> id, status |-> "kPending"])
          /\ owner' = Extend(owner, id, s)
          /\ UNCHANGED <<closed_, context_, sent>>
  BY DEF OnWsSessionConnectOk
<1>2. /\ stream[s] = "ws"
      /\ stream' = [stream EXCEPT ![s] = "open"]
      /\ stream \in [Sessions -> Phases]
  BY DEF OnHandshakeOk, Advance, Struct, TypeOK, WsTypeOK
<1>3. s \notin DOMAIN connections_ /\ ~closed_[s]
  BY <1>2 DEF Struct, Maps, RegisteredIsLive, ClosedIsKnown, Known
<1>4. id \notin DOMAIN sessions_
  BY <1>1 DEF Struct, Maps, MapsInverse, OwnersMatch
<1>5. /\ DOMAIN connections_' = DOMAIN connections_ \cup {s}
      /\ connections_'[s] = [id |-> id, status |-> "kPending"]
      /\ \A r \in DOMAIN connections_ : connections_'[r] = connections_[r]
  BY <1>1, <1>3 DEF Extend
<1>6. /\ DOMAIN sessions_' = DOMAIN sessions_ \cup {id}
      /\ sessions_'[id] = s
      /\ \A i \in DOMAIN sessions_ : sessions_'[i] = sessions_[i]
  BY <1>1, <1>4 DEF Extend
<1>7. /\ DOMAIN owner' = DOMAIN owner \cup {id}
      /\ owner'[id] = s
      /\ \A i \in DOMAIN owner : owner'[i] = owner[i]
  BY <1>1 DEF Extend
<1>8. MapsInverse'
  BY <1>3, <1>4, <1>5, <1>6 DEF Struct, Maps, MapsInverse
<1>9. RegisteredIsLive' /\ ClosedIsKnown'
  BY <1>1, <1>2, <1>3, <1>5 DEF Struct, Maps, RegisteredIsLive, ClosedIsKnown, Known
<1>10. OwnersMatch'
  BY <1>1, <1>5, <1>7 DEF Struct, Maps, OwnersMatch
<1>11. [id |-> id, status |-> "kPending"] \in [id : Ids, status : Status]
  BY <1>1 DEF Status
<1>12. /\ IsPartial(connections_, Sessions, [id : Ids, status : Status])'
       /\ IsPartial(sessions_, Ids, Sessions)'
       /\ IsPartial(owner, Ids, Sessions)'
  BY <1>1, <1>11, ExtendPartial DEF Struct, TypeOK
<1> QED  BY <1>8, <1>9, <1>10, <1>12 DEF Maps

LEMMA CloseFacts ==
    ASSUME Struct, NEW S, CloseSessions(S)
    PROVE  /\ closed_' \in [Sessions -> BOOLEAN]
           /\ \A r \in Sessions : r \in S => closed_'[r]
           /\ \A r \in Sessions : r \notin S /\ ~closed_[r] => ~closed_'[r]
           /\ \A r \in Sessions : closed_'[r] => r \in S \/ closed_[r]
BY DEF Struct, TypeOK, WsTypeOK, CloseSessions

(* A stream that moves forward, as the handlers of a session move it.      *)
LEMMA AdvanceFacts ==
    ASSUME Struct, NEW s \in Sessions, NEW from, NEW to \in Phases, Advance(s, from, to)
    PROVE  /\ stream' \in [Sessions -> Phases]
           /\ stream[s] \in from /\ stream'[s] = to
           /\ \A r \in Sessions \ {s} : stream'[r] = stream[r]
           /\ UNCHANGED serverVars
BY DEF Struct, TypeOK, WsTypeOK, Advance

-----------------------------------------------------------------------------
(* Type correctness and the maps, action by action.                        *)

LEMMA TlsHandshakeStep ==
    ASSUME Struct, NEW s \in Sessions, TlsHandshake(s)
    PROVE  Struct'
<1>1. /\ stream' \in [Sessions -> Phases]
      /\ stream[s] = "tls" /\ stream'[s] = "ws"
      /\ \A r \in Sessions \ {s} : stream'[r] = stream[r]
      /\ UNCHANGED serverVars
  BY AdvanceFacts DEF TlsHandshake, OnTlsHandshakeOk, Phases
<1>2. UNCHANGED <<closed_, connections_, sessions_, context_, owner, sent, announced, departed>>
  BY DEF TlsHandshake, QuietStomp, Undelivered
<1>3. TypeOK'
  BY <1>1, <1>2 DEF Struct, TypeOK, WsTypeOK, serverVars, IsPartial
<1>4. ClosedIsKnown'
  BY <1>1, <1>2 DEF Struct, Maps, ClosedIsKnown, Known
<1>5. \A r \in DOMAIN connections_ : ~closed_'[r] /\ stream'[r] \in {"open", "broken"}
  BY <1>1, <1>2 DEF Struct, Maps, RegisteredIsLive, TypeOK, IsPartial
<1> QED  BY <1>2, <1>3, <1>4, <1>5, QuietKeepsMaps DEF Struct

LEMMA FailReadStep ==
    ASSUME Struct, NEW s \in Sessions, FailRead(s)
    PROVE  Struct'
<1>1. /\ stream' \in [Sessions -> Phases]
      /\ stream[s] = "open" /\ stream'[s] = "broken"
      /\ \A r \in Sessions \ {s} : stream'[r] = stream[r]
      /\ UNCHANGED serverVars
  BY AdvanceFacts DEF FailRead, OnReadError, Phases
<1>2. UNCHANGED <<closed_, connections_, sessions_, context_, owner, sent, announced, departed>>
  BY DEF FailRead, QuietStomp, Undelivered
<1>3. TypeOK'
  BY <1>1, <1>2 DEF Struct, TypeOK, WsTypeOK, serverVars, IsPartial
<1>4. ClosedIsKnown'
  BY <1>1, <1>2 DEF Struct, Maps, ClosedIsKnown, Known
<1>5. \A r \in DOMAIN connections_ : ~closed_'[r] /\ stream'[r] \in {"open", "broken"}
  BY <1>1, <1>2 DEF Struct, Maps, RegisteredIsLive, TypeOK, IsPartial
<1> QED  BY <1>2, <1>3, <1>4, <1>5, QuietKeepsMaps DEF Struct

LEMMA RefuseSessionStep ==
    ASSUME Struct, NEW s \in Sessions, RefuseSession(s)
    PROVE  Struct'
<1>1. /\ stream' \in [Sessions -> Phases]
      /\ stream[s] \in {"tls", "ws"} /\ stream'[s] = "refused"
      /\ \A r \in Sessions \ {s} : stream'[r] = stream[r]
      /\ UNCHANGED serverVars
  BY AdvanceFacts DEF RefuseSession, OnHandshakeError, Phases
<1>2. CloseSessions({s})
      /\ UNCHANGED <<connections_, sessions_, context_, owner, sent, announced, departed>>
  BY DEF RefuseSession, OnWsSessionConnectError, Undelivered
<1>3. TypeOK'
  BY <1>1, <1>2, CloseFacts DEF Struct, TypeOK, WsTypeOK, serverVars, IsPartial
<1>4. ClosedIsKnown'
  BY <1>1, <1>2, CloseFacts DEF Struct, Maps, ClosedIsKnown, Known
<1>5. s \notin DOMAIN connections_
  BY <1>1 DEF Struct, Maps, RegisteredIsLive
<1>6. \A r \in DOMAIN connections_ : ~closed_'[r] /\ stream'[r] \in {"open", "broken"}
  BY <1>1, <1>2, <1>5, CloseFacts DEF Struct, Maps, RegisteredIsLive, TypeOK, IsPartial
<1> QED  BY <1>2, <1>3, <1>4, <1>6, QuietKeepsMaps DEF Struct

LEMMA OpenSessionStep ==
    ASSUME Struct, NEW s \in Sessions, OpenSession(s)
    PROVE  Struct'
<1>1. OnHandshakeOk(s) /\ OnWsSessionConnectOk(s) /\ Undelivered
  BY DEF OpenSession
<1>2. stream' \in [Sessions -> Phases] /\ UNCHANGED serverVars
  BY <1>1, AdvanceFacts DEF OnHandshakeOk, Phases
<1>3. UNCHANGED <<closed_, context_, sent, announced, departed>>
  BY <1>1 DEF OnWsSessionConnectOk, Undelivered
<1>4. TypeOK'
  BY <1>1, <1>2, <1>3, RegisterKeepsMaps DEF Struct, TypeOK, WsTypeOK, serverVars
<1> QED  BY <1>1, <1>4, RegisterKeepsMaps DEF Struct

LEMMA EndReadStep ==
    ASSUME Struct, NEW s \in Sessions, EndRead(s)
    PROVE  Struct'
<1>1. /\ stream' \in [Sessions -> Phases]
      /\ stream[s] \in {"open", "broken"} /\ stream'[s] = "done"
      /\ \A r \in Sessions \ {s} : stream'[r] = stream[r]
      /\ UNCHANGED serverVars
  BY AdvanceFacts DEF EndRead, OnReadEnd, Phases
<1>2. UNCHANGED <<closed_, owner, sent, announced, departed>>
  BY DEF EndRead, OnWsSessionDisconnect, QuietStomp, Undelivered
<1>3. ClosedIsKnown'
  BY <1>1, <1>2 DEF Struct, Maps, ClosedIsKnown, Known
<1>4. WsTypeOK'
  BY <1>1, <1>2 DEF Struct, TypeOK, WsTypeOK, serverVars
<1>5. CASE Registered(s)
  <2>1. ~closed_[s]
    BY <1>5 DEF Registered, Struct, Maps, RegisteredIsLive
  <2>2. OnWsSessionDisconnect(s)
    BY <2>1 DEF EndRead, ReportsEnd
  <2>3. Unregister(s)
    BY <1>5, <2>2 DEF OnWsSessionDisconnect
  <2>4. connections_[s].id \in Ids
    BY <1>5 DEF Registered, Struct, TypeOK, IsPartial
  <2>5. context_' \in Seq(Callbacks)
    <3>1. Event("disconnect", connections_[s].id) \in Callbacks
      BY <2>4 DEF Event, Callbacks, Callback
    <3> QED  BY <2>2, <3>1 DEF OnWsSessionDisconnect, Post, Struct, TypeOK
  <2>6. \A r \in DOMAIN connections_ \ {s} : ~closed_'[r] /\ stream'[r] \in {"open", "broken"}
    BY <1>1, <1>2 DEF Struct, Maps, RegisteredIsLive, TypeOK, IsPartial
  <2>7. /\ Maps'
        /\ IsPartial(connections_, Sessions, [id : Ids, status : Status])'
        /\ IsPartial(sessions_, Ids, Sessions)'
    BY <1>2, <1>3, <1>5, <2>3, <2>6, UnregisterKeepsMaps DEF Registered
  <2> QED  BY <1>2, <1>4, <2>5, <2>7 DEF Struct, TypeOK, IsPartial
<1>6. CASE ~Registered(s)
  <2>1. UNCHANGED <<connections_, sessions_, context_>>
    BY <1>6 DEF EndRead, OnWsSessionDisconnect, QuietStomp, Connected
  <2>2. \A r \in DOMAIN connections_ : ~closed_'[r] /\ stream'[r] \in {"open", "broken"}
    BY <1>1, <1>2, <1>6 DEF Registered, Struct, Maps, RegisteredIsLive, TypeOK, IsPartial
  <2>3. Maps'
    BY <1>2, <1>3, <2>1, <2>2, QuietKeepsMaps
  <2> QED  BY <1>2, <1>4, <2>1, <2>3 DEF Struct, TypeOK, IsPartial
<1> QED  BY <1>5, <1>6

(* The callbacks the server posts.                                         *)
LEMMA PostType ==
    ASSUME Struct, NEW s \in DOMAIN connections_, NEW cb \in {"connect", "message", "disconnect"},
           Post(Event(cb, connections_[s].id))
    PROVE  context_' \in Seq(Callbacks)
<1>1. Event(cb, connections_[s].id) \in Callbacks
  BY DEF Event, Callbacks, Callback, Struct, TypeOK, IsPartial
<1> QED  BY <1>1 DEF Post, Struct, TypeOK

LEMMA WriteType ==
    ASSUME Struct, NEW s \in Sessions, NEW frame \in {"CONNECTED", "SEND", "ERROR"},
           Write(s, frame)
    PROVE  sent' \in [Sessions -> Seq({"CONNECTED", "SEND", "ERROR"})]
<1>1. Append(sent[s], frame) \in Seq({"CONNECTED", "SEND", "ERROR"})
  BY DEF Struct, TypeOK
<1> QED  BY <1>1 DEF Write, Struct, TypeOK

(* CloseConnection, as the handlers and the user call it.                  *)
LEMMA CloseConnectionStep ==
    ASSUME Struct, NEW s \in DOMAIN connections_, CloseOnError(s) \/ CloseSilently(s),
           UNCHANGED <<stream, owner>>
    PROVE  /\ Maps'
           /\ IsPartial(connections_, Sessions, [id : Ids, status : Status])'
           /\ IsPartial(sessions_, Ids, Sessions)'
           /\ sent' \in [Sessions -> Seq({"CONNECTED", "SEND", "ERROR"})]
           /\ closed_' \in [Sessions -> BOOLEAN]
<1>1. Unregister(s) /\ CloseSessions({s})
  BY DEF CloseOnError, CloseSilently
<1>2. /\ stream[s] \in {"open", "broken"}
      /\ DOMAIN connections_ \subseteq Sessions
  BY DEF Struct, Maps, RegisteredIsLive, TypeOK, IsPartial
<1>3. ClosedIsKnown'
  BY <1>1, <1>2, CloseFacts DEF Struct, Maps, ClosedIsKnown, Known
<1>4. \A r \in DOMAIN connections_ \ {s} : ~closed_'[r] /\ stream'[r] \in {"open", "broken"}
  BY <1>1, <1>2, CloseFacts DEF Struct, Maps, RegisteredIsLive
<1>5. sent' \in [Sessions -> Seq({"CONNECTED", "SEND", "ERROR"})]
  BY <1>2, WriteType DEF CloseOnError, CloseSilently, Struct, TypeOK
<1> QED  BY <1>1, <1>3, <1>4, <1>5, UnregisterKeepsMaps, CloseFacts

LEMMA ReadFrameStep ==
    ASSUME Struct, NEW s \in Sessions, NEW frame \in FrameKinds, ReadFrame(s, frame)
    PROVE  Struct'
<1>1. /\ stream[s] = "open"
      /\ UNCHANGED <<serverVars, stream, owner, announced, departed>>
  BY DEF ReadFrame, OnRead, OnWsSessionMessage, Undelivered
<1>2. SUFFICES /\ Maps'
               /\ IsPartial(connections_, Sessions, [id : Ids, status : Status])'
               /\ IsPartial(sessions_, Ids, Sessions)'
               /\ context_' \in Seq(Callbacks)
               /\ sent' \in [Sessions -> Seq({"CONNECTED", "SEND", "ERROR"})]
               /\ closed_' \in [Sessions -> BOOLEAN]
  BY <1>1 DEF Struct, TypeOK, WsTypeOK, serverVars, IsPartial
<1>3. CASE ~Registered(s) /\ HandleUnrecognized(s)
  <2>1. /\ CloseSessions({s})
        /\ UNCHANGED <<connections_, sessions_, context_, sent>>
    BY <1>3 DEF HandleUnrecognized
  <2>2. \A r \in DOMAIN connections_ : ~closed_'[r] /\ stream'[r] \in {"open", "broken"}
    BY <1>1, <1>3, <2>1, CloseFacts DEF Registered, Struct, Maps, RegisteredIsLive, TypeOK, IsPartial
  <2>3. ClosedIsKnown'
    BY <1>1, <2>1, CloseFacts DEF Struct, Maps, ClosedIsKnown, Known
  <2> QED  BY <1>1, <2>1, <2>2, <2>3, QuietKeepsMaps, CloseFacts DEF Struct, TypeOK, IsPartial
<1>4. CASE Registered(s) /\ HandleStomp(s)
  <2>1. CASE ~Connected(s)
    <3>1. /\ connections_' = [connections_ EXCEPT ![s].status = "kConnected"]
          /\ Write(s, "CONNECTED")
          /\ Post(Event("connect", connections_[s].id))
          /\ UNCHANGED <<closed_, sessions_>>
      BY <1>4, <2>1 DEF HandleStomp
    <3>2. /\ DOMAIN connections_' = DOMAIN connections_
          /\ connections_'[s].id = connections_[s].id
          /\ connections_'[s] \in [id : Ids, status : Status]
          /\ \A r \in DOMAIN connections_ \ {s} : connections_'[r] = connections_[r]
      BY <1>4, <3>1 DEF Registered, Struct, TypeOK, IsPartial, Status
    <3>3. Maps'
      BY <1>1, <3>1, <3>2
      DEF Struct, Maps, MapsInverse, RegisteredIsLive, OwnersMatch, ClosedIsKnown, Known
    <3>4. /\ IsPartial(connections_, Sessions, [id : Ids, status : Status])'
          /\ IsPartial(sessions_, Ids, Sessions)'
      BY <1>4, <3>1, <3>2 DEF Registered, Struct, TypeOK, IsPartial
    <3> QED  BY <1>4, <3>1, <3>3, <3>4, PostType, WriteType DEF Registered, Struct, TypeOK, WsTypeOK
  <2>2. CASE Connected(s)
    BY <1>1, <1>4, <2>2, CloseConnectionStep DEF HandleStomp, Registered, Struct, TypeOK
  <2> QED  BY <2>1, <2>2
<1>5. CASE Registered(s) /\ HandleSend(s)
  <2>1. CASE Connected(s)
    <3>1. /\ Post(Event("message", connections_[s].id))
          /\ UNCHANGED <<closed_, connections_, sessions_, sent>>
      BY <1>5, <2>1 DEF HandleSend
    <3>2. Maps'
      BY <1>1, <3>1, QuietKeepsMaps
      DEF Struct, Maps, RegisteredIsLive, ClosedIsKnown, Known
    <3> QED  BY <1>5, <3>1, <3>2, PostType DEF Registered, Struct, TypeOK, WsTypeOK, IsPartial
  <2>2. CASE ~Connected(s)
    BY <1>1, <1>5, <2>2, CloseConnectionStep DEF HandleSend, Registered, Struct, TypeOK
  <2> QED  BY <2>1, <2>2
<1>6. CASE Registered(s) /\ HandleInvalid(s)
  BY <1>1, <1>6, CloseConnectionStep DEF HandleInvalid, Registered, Struct, TypeOK
<1> QED  BY <1>3, <1>4, <1>5, <1>6 DEF ReadFrame, OnWsSessionMessage

LEMMA AcceptorHandlerStep ==
    ASSUME Struct, AcceptorHandler
    PROVE  Struct'
<1>1. CASE \E o \in {"accepted", "failed"} : CompleteAccept(o)
  <2>1. PICK o \in {"accepted", "failed"} : CompleteAccept(o)
    BY <1>1
  <2>2. /\ accepts["waiting"] > 0
        /\ accepts' = [accepts EXCEPT !["waiting"] = @ - 1, ![o] = @ + 1]
        /\ UNCHANGED <<acceptor_, stopped_, reported, runs, stream>>
        /\ UNCHANGED <<closed_, stompVars>>
    BY <2>1 DEF CompleteAccept, AcceptCompletes, QuietStomp, Undelivered, stompVars
  <2>3. accepts' \in [Outcomes -> Nat]
    BY <2>2 DEF Struct, TypeOK, WsTypeOK, Outcomes
  <2>4. TypeOK'
    BY <2>2, <2>3 DEF Struct, TypeOK, WsTypeOK, IsPartial, stompVars
  <2> QED
    BY <2>2, <2>4, QuietKeepsMaps
    DEF Struct, Maps, RegisteredIsLive, ClosedIsKnown, Known, stompVars
<1>2. CASE \E s \in Sessions : AcceptSession(s)
  <2>1. PICK s \in Sessions : AcceptSession(s)
    BY <1>2
  <2> DEFINE next == IF acceptor_ = "listening" THEN "waiting" ELSE "failed"
  <2>2. /\ accepts["accepted"] > 0
        /\ stream[s] = "absent"
        /\ stream' = [stream EXCEPT ![s] = "tls"]
        /\ accepts' = [accepts EXCEPT !["accepted"] = @ - 1, ![next] = @ + 1]
        /\ UNCHANGED <<acceptor_, stopped_, reported, runs>>
        /\ UNCHANGED <<closed_, stompVars>>
    BY <2>1 DEF AcceptSession, OnConnectionAccepted, QuietStomp, Undelivered, stompVars
  <2>3. accepts' \in [Outcomes -> Nat] /\ stream' \in [Sessions -> Phases]
    BY <2>2 DEF Struct, TypeOK, WsTypeOK, Outcomes, Phases
  <2>4. TypeOK'
    BY <2>2, <2>3 DEF Struct, TypeOK, WsTypeOK, IsPartial, stompVars
  <2>5. \A r \in Sessions : r # s => stream'[r] = stream[r]
    BY <2>2 DEF Struct, TypeOK, WsTypeOK
  <2>6. s \notin DOMAIN connections_ /\ ~closed_[s]
    BY <2>2 DEF Struct, Maps, RegisteredIsLive, ClosedIsKnown, Known
  <2>7. ClosedIsKnown'
    BY <2>2, <2>5, <2>6 DEF Struct, Maps, ClosedIsKnown, Known
  <2>8. \A r \in DOMAIN connections_ : ~closed_'[r] /\ stream'[r] \in {"open", "broken"}
    BY <2>2, <2>5, <2>6 DEF Struct, Maps, RegisteredIsLive, TypeOK, IsPartial
  <2> QED  BY <2>2, <2>4, <2>7, <2>8, QuietKeepsMaps DEF Struct, stompVars
<1>3. CASE EndAccept
  <2>1. /\ accepts["failed"] > 0
        /\ accepts' = [accepts EXCEPT !["failed"] = @ - 1]
        /\ reported' = (reported \/ AcceptReports)
        /\ UNCHANGED <<acceptor_, stopped_, runs, stream>>
        /\ UNCHANGED <<closed_, connections_, sessions_, owner, sent, announced, departed>>
        /\ context_' = context_ \/ Post(ServerDown)
    BY <1>3 DEF EndAccept, OnAcceptError, OnWsDisconnect, QuietStomp, Undelivered
  <2>2. accepts' \in [Outcomes -> Nat] /\ reported' \in BOOLEAN
    BY <2>1 DEF Struct, TypeOK, WsTypeOK, Outcomes, AcceptReports
  <2>3. context_' \in Seq(Callbacks)
    BY <2>1 DEF Post, Callbacks, Struct, TypeOK
  <2>4. TypeOK'
    BY <2>1, <2>2, <2>3 DEF Struct, TypeOK, WsTypeOK, IsPartial
  <2> QED
    BY <2>1, <2>4, QuietKeepsMaps DEF Struct, Maps, RegisteredIsLive, ClosedIsKnown, Known
<1> QED  BY <1>1, <1>2, <1>3 DEF AcceptorHandler

(* What a call of the user does, whatever happens to the callback queue.   *)
LEMMA UserCallStep ==
    ASSUME Struct, UserCall
    PROVE  /\ Maps'
           /\ WsTypeOK'
           /\ IsPartial(connections_, Sessions, [id : Ids, status : Status])'
           /\ IsPartial(sessions_, Ids, Sessions)'
           /\ IsPartial(owner, Ids, Sessions)'
           /\ sent' \in [Sessions -> Seq({"CONNECTED", "SEND", "ERROR"})]
<1>0. UNCHANGED owner
  BY DEF UserCall
<1>1. CASE Run
  <2>1. /\ UNCHANGED <<stream, closed_, connections_, sessions_, sent>>
        /\ WsRunOk \/ WsRunFails
    BY <1>1 DEF Run, WsRunOk, WsRunFails
  <2>2. WsTypeOK'
    <3>1. accepts' \in [Outcomes -> Nat] /\ runs' \in Nat
      BY <2>1 DEF WsRunOk, WsRunFails, Struct, TypeOK, WsTypeOK, Outcomes
    <3>2. acceptor_' \in {"closed", "open", "listening"}
      BY <2>1 DEF WsRunOk, WsRunFails, Struct, TypeOK, WsTypeOK
    <3>3. stopped_' \in BOOLEAN /\ reported' \in BOOLEAN
      BY <2>1, Zenon DEF WsRunOk, WsRunFails, Struct, TypeOK, WsTypeOK
    <3> QED  BY <2>1, <3>1, <3>2, <3>3 DEF Struct, TypeOK, WsTypeOK
  <2> QED
    BY <1>0, <2>1, <2>2, QuietKeepsMaps
    DEF Struct, TypeOK, IsPartial, Maps, RegisteredIsLive, ClosedIsKnown, Known
<1>2. CASE Stop
  <2>1. /\ connections_' = EmptyMap /\ sessions_' = EmptyMap
        /\ WsStop /\ CloseSessions(DOMAIN connections_)
        /\ UNCHANGED <<stream, sent>>
    BY <1>2 DEF Stop, WsStop
  <2>2. WsTypeOK'
    <3>1. accepts' \in [Outcomes -> Nat]
      BY <2>1 DEF WsStop, Struct, TypeOK, WsTypeOK, Outcomes
    <3> QED  BY <2>1, <3>1, CloseFacts DEF WsStop, Struct, TypeOK, WsTypeOK
  <2>3. DOMAIN connections_' = {} /\ DOMAIN sessions_' = {}
    BY <2>1 DEF EmptyMap
  <2>4. \A s \in Sessions : closed_'[s] => s \in DOMAIN connections_ \/ closed_[s]
    BY <2>1, CloseFacts
  <2>5. ClosedIsKnown'
    BY <2>1, <2>4 DEF Struct, Maps, RegisteredIsLive, ClosedIsKnown, Known
  <2>6. Maps'
    BY <2>3, <2>5 DEF Maps, MapsInverse, RegisteredIsLive, OwnersMatch
  <2> QED  BY <1>0, <2>1, <2>2, <2>6, EmptyPartial DEF Struct, TypeOK
<1>3. ASSUME NEW id \in Ids, Send(id)
      PROVE  /\ Maps'
             /\ WsTypeOK'
             /\ UNCHANGED <<connections_, sessions_>>
             /\ sent' \in [Sessions -> Seq({"CONNECTED", "SEND", "ERROR"})]
  <2> DEFINE s == sessions_[id]
  <2>1. s \in DOMAIN connections_ /\ s \in Sessions
    BY <1>3 DEF Send, Struct, Maps, MapsInverse, TypeOK, IsPartial
  <2>2. /\ Write(s, "SEND")
        /\ UNCHANGED <<serverVars, stream, closed_, connections_, sessions_>>
    BY <1>3, <2>1 DEF Send, Registered
  <2>3. WsTypeOK'
    BY <2>2 DEF Struct, TypeOK, WsTypeOK, serverVars
  <2>4. Maps'
    BY <1>0, <2>2, QuietKeepsMaps DEF Struct, Maps, RegisteredIsLive, ClosedIsKnown, Known
  <2> QED  BY <2>1, <2>2, <2>3, <2>4, WriteType
<1>4. ASSUME NEW id \in Ids, Close(id)
      PROVE  /\ Maps'
             /\ WsTypeOK'
             /\ IsPartial(connections_, Sessions, [id : Ids, status : Status])'
             /\ IsPartial(sessions_, Ids, Sessions)'
             /\ sent' \in [Sessions -> Seq({"CONNECTED", "SEND", "ERROR"})]
  <2> DEFINE s == sessions_[id]
  <2>1. s \in DOMAIN connections_
    BY <1>4 DEF Close, Struct, Maps, MapsInverse
  <2>2. CloseSilently(s) /\ UNCHANGED <<serverVars, stream>>
    BY <1>4, <2>1 DEF Close, Registered
  <2>3. closed_' \in [Sessions -> BOOLEAN]
    BY <1>0, <2>1, <2>2, CloseConnectionStep
  <2>4. WsTypeOK'
    BY <2>2, <2>3 DEF Struct, TypeOK, WsTypeOK, serverVars
  <2> QED  BY <1>0, <2>1, <2>2, <2>4, CloseConnectionStep
<1>5. CASE \E id \in Ids : Send(id) \/ Close(id)
  BY <1>0, <1>3, <1>4, <1>5 DEF Struct, TypeOK, IsPartial
<1>6. IsPartial(owner, Ids, Sessions)'
  BY <1>0 DEF Struct, TypeOK, IsPartial
<1> QED  BY <1>1, <1>2, <1>5, <1>6 DEF UserCall

LEMMA TakeCallbackType ==
    ASSUME Struct, TakeCallback
    PROVE  /\ context_' \in Seq(Callbacks)
           /\ announced' \subseteq Ids
           /\ departed' \subseteq Ids
BY DEF TakeCallback, Struct, TypeOK

-----------------------------------------------------------------------------
LEMMA InitStruct == Init => Struct
<1> SUFFICES ASSUME Init PROVE Struct
  OBVIOUS
<1>1. DOMAIN connections_ = {} /\ DOMAIN sessions_ = {}
  BY DEF Init, EmptyMap
<1>2. WsTypeOK /\ ClosedIsKnown
  BY DEF Init, WsInit, WsTypeOK, ClosedIsKnown, Outcomes, Phases
<1>3. TypeOK
  BY <1>2, EmptyPartial DEF Init, TypeOK
<1> QED
  BY <1>1, <1>2, <1>3
  DEF Struct, Maps, MapsInverse, RegisteredIsLive, OwnersMatch

LEMMA StepStruct == Struct /\ [Next]_vars => Struct'
<1> SUFFICES ASSUME Struct, [Next]_vars PROVE Struct'
  OBVIOUS
<1>1. CASE \E s \in Sessions : SessionHandler(s)
  BY <1>1, TlsHandshakeStep, RefuseSessionStep, OpenSessionStep, ReadFrameStep,
     FailReadStep, EndReadStep
  DEF SessionHandler
<1>2. CASE AcceptorHandler
  BY <1>2, AcceptorHandlerStep
<1>3. CASE RunCallback
  <2>1. CASE UserCall
    BY <1>3, <2>1, UserCallStep, TakeCallbackType DEF RunCallback, Struct, TypeOK
  <2>2. CASE NoCall
    BY <1>3, <2>2, TakeCallbackType
    DEF RunCallback, NoCall, wsVars, Struct, TypeOK, WsTypeOK, IsPartial, Maps,
        MapsInverse, RegisteredIsLive, OwnersMatch, ClosedIsKnown, Known
  <2> QED  BY <1>3, <2>1, <2>2 DEF RunCallback
<1>4. CASE CallFromOutside
  BY <1>4, UserCallStep DEF CallFromOutside, Undelivered, Struct, TypeOK
<1>5. CASE UNCHANGED vars
  BY <1>5
  DEF vars, wsVars, stompVars, Struct, TypeOK, WsTypeOK, IsPartial, Maps,
      MapsInverse, RegisteredIsLive, OwnersMatch, ClosedIsKnown, Known
<1> QED  BY <1>1, <1>2, <1>3, <1>4, <1>5 DEF Next

(* Whatever the handlers, callbacks and calls of StompServer do and in     *)
(* whatever order, the maps, the sessions and the generated ids keep the   *)
(* invariant that CloseConnection and the lookups of Send and Close use.   *)
THEOREM StructInvariant == Spec => []Struct
BY InitStruct, StepStruct, PTL DEF Spec

(* Every variable keeps its type: the maps never hold an id or a session   *)
(* that was not given to them, and what is posted is a proper callback.    *)
THEOREM TypeCorrect == Spec => []TypeOK
<1>1. Struct => TypeOK
  BY DEF Struct
<1> QED  BY <1>1, StructInvariant, PTL

(* The two maps of the server (stomp-server.h:414-425) are always inverse  *)
(* to each other, whatever frames arrive and whenever the user closes a    *)
(* client or stops the server.                                             *)
THEOREM MapsStayInverse == Spec => []MapsInverse
<1>1. Struct => MapsInverse
  BY DEF Struct, Maps
<1> QED  BY <1>1, StructInvariant, PTL

(* The server never forgets to unregister a session it closes or whose     *)
(* read loop ends, so no entry of the maps outlives its session.           *)
THEOREM RegisteredStaysLive == Spec => []RegisteredIsLive
<1>1. Struct => RegisteredIsLive
  BY DEF Struct, Maps
<1> QED  BY <1>1, StructInvariant, PTL

-----------------------------------------------------------------------------
(***************************************************************************)
(* The WebSocket layer under StompServer: the accept loop is never lost    *)
(* without a word, and every step of the STOMP layer is one the layer      *)
(* below allows its user.                                                  *)
(***************************************************************************)
(* The flag of Stop is never set while the acceptor listens, so the end of *)
(* a loop is always reported then.                                         *)
ListeningIsNotStopped == acceptor_ = "listening" => ~stopped_

AcceptInv == WsTypeOK /\ ListeningIsNotStopped /\ NeverSilentlyDeaf

LEMMA InitAccept == Init => AcceptInv
<1>1. Init => WsTypeOK
  BY InitStruct DEF Struct, TypeOK
<1>2. Init => ListeningIsNotStopped /\ NeverSilentlyDeaf
  BY DEF Init, WsInit, ListeningIsNotStopped, NeverSilentlyDeaf
<1> QED  BY <1>1, <1>2 DEF AcceptInv

(* What a step may do to the acceptor: every step of StompServer does one  *)
(* of these things to it.                                                  *)
AcceptorMoves ==
    \/ WsRunOk
    \/ WsRunFails
    \/ WsStop
    \/ \E o \in {"accepted", "failed"} : AcceptCompletes(o)
    \/ \E s \in Sessions : OnConnectionAccepted(s)
    \/ OnAcceptError
    \/ UNCHANGED serverVars

LEMMA AcceptorMovesKeep ==
    ASSUME AcceptInv, AcceptorMoves
    PROVE  ListeningIsNotStopped' /\ NeverSilentlyDeaf'
<1> USE DEF AcceptInv, ListeningIsNotStopped, NeverSilentlyDeaf
<1>0. /\ accepts["waiting"] \in Nat /\ accepts["accepted"] \in Nat /\ accepts["failed"] \in Nat
      /\ accepts \in [Outcomes -> Nat]
  BY DEF WsTypeOK, Outcomes
<1>1. CASE WsRunOk
  <2>1. /\ accepts'["waiting"] = accepts["waiting"] + 1
        /\ accepts'["accepted"] = accepts["accepted"] /\ accepts'["failed"] = accepts["failed"]
    BY <1>0, <1>1 DEF WsRunOk, Outcomes
  <2>2. Outstanding' > 0
    BY <1>0, <2>1 DEF Outstanding
  <2> QED  BY <1>1, <2>2 DEF WsRunOk
<1>2. CASE WsRunFails
  BY <1>2 DEF WsRunFails, Outstanding
<1>3. CASE WsStop
  BY <1>3 DEF WsStop
<1>4. CASE \E o \in {"accepted", "failed"} : AcceptCompletes(o)
  <2>1. PICK o \in {"accepted", "failed"} : AcceptCompletes(o)
    BY <1>4
  <2>2. /\ UNCHANGED <<acceptor_, stopped_, reported>>
        /\ accepts' = [accepts EXCEPT !["waiting"] = @ - 1, ![o] = @ + 1]
    BY <2>1 DEF AcceptCompletes
  <2>3. Outstanding' = Outstanding
    BY <1>0, <2>2 DEF Outstanding, Outcomes
  <2> QED  BY <2>2, <2>3
<1>5. CASE \E s \in Sessions : OnConnectionAccepted(s)
  <2> DEFINE next == IF acceptor_ = "listening" THEN "waiting" ELSE "failed"
  <2>1. /\ UNCHANGED <<acceptor_, stopped_, reported>>
        /\ accepts' = [accepts EXCEPT !["accepted"] = @ - 1, ![next] = @ + 1]
    BY <1>5 DEF OnConnectionAccepted
  <2>2. Outstanding' = Outstanding
    BY <1>0, <2>1 DEF Outstanding, Outcomes
  <2> QED  BY <2>1, <2>2
<1>6. CASE OnAcceptError
  BY <1>6 DEF OnAcceptError, AcceptReports
<1>7. CASE UNCHANGED serverVars
  BY <1>7 DEF serverVars, Outstanding
<1> QED  BY <1>1, <1>2, <1>3, <1>4, <1>5, <1>6, <1>7 DEF AcceptorMoves

LEMMA EveryStepMovesAcceptor ==
    ASSUME [Next]_vars
    PROVE  AcceptorMoves
<1> USE DEF AcceptorMoves
<1>1. CASE \E s \in Sessions : SessionHandler(s)
  <2>1. UNCHANGED serverVars
    BY <1>1
    DEF SessionHandler, TlsHandshake, RefuseSession, OpenSession, ReadFrame, FailRead, EndRead,
        OnTlsHandshakeOk, OnHandshakeError, OnHandshakeOk, OnRead, OnReadError, OnReadEnd, Advance
  <2> QED  BY <2>1
<1>2. CASE AcceptorHandler
  BY <1>2 DEF AcceptorHandler, CompleteAccept, AcceptSession, EndAccept
<1>3. ASSUME UserCall PROVE AcceptorMoves
  BY <1>3 DEF UserCall, Run, Stop, Send, Close
<1>4. CASE RunCallback
  BY <1>3, <1>4 DEF RunCallback, NoCall, wsVars, serverVars
<1>5. CASE CallFromOutside
  BY <1>3, <1>5 DEF CallFromOutside
<1>6. CASE UNCHANGED vars
  BY <1>6 DEF vars, wsVars, serverVars
<1> QED  BY <1>1, <1>2, <1>4, <1>5, <1>6 DEF Next

(* A listening server accepts, or the user was told that it does not: no   *)
(* order of Run, Stop and late completions of accept operations makes it   *)
(* deaf in silence (websocket-server.h:384-518).                           *)
THEOREM NeverDeafInSilence == Spec => []NeverSilentlyDeaf
<1>1. TypeOK => WsTypeOK
  BY DEF TypeOK
<1>2. Spec => []WsTypeOK
  BY <1>1, TypeCorrect, PTL
<1>3. AcceptInv /\ WsTypeOK' /\ [Next]_vars => AcceptInv'
  BY AcceptorMovesKeep, EveryStepMovesAcceptor DEF AcceptInv
<1>4. AcceptInv => NeverSilentlyDeaf
  BY DEF AcceptInv
<1> QED  BY <1>2, <1>3, <1>4, InitAccept, PTL DEF Spec

-----------------------------------------------------------------------------
(* The STOMP layer as a user of the WebSocket layer.                       *)

(* A step closes some sessions that the STOMP layer has been given.        *)
LEMMA ClosesKnown ==
    ASSUME Struct, NEW S \in SUBSET Sessions, CloseSessions(S),
           \A s \in S : stream'[s] \in {"refused", "open", "broken", "done"}
    PROVE  AnyCloses
<1>1. S \in SUBSET Known'
  BY DEF Known
<1> QED  BY <1>1 DEF AnyCloses

LEMMA ClosesNothing ==
    ASSUME Struct, UNCHANGED closed_
    PROVE  AnyCloses
<1>1. CloseSessions({})
  BY DEF CloseSessions, Struct, TypeOK, WsTypeOK
<1> QED  BY <1>1, ClosesKnown

LEMMA UserCloses ==
    ASSUME Struct, UserCall
    PROVE  AnyCloses /\ (AcceptorStep \/ UNCHANGED <<serverVars, stream>>)
<1>0. /\ DOMAIN connections_ \in SUBSET Sessions
      /\ \A s \in DOMAIN connections_ : stream[s] \in {"open", "broken"}
  BY DEF Struct, TypeOK, IsPartial, Maps, RegisteredIsLive
<1>1. CASE Run
  BY <1>1, ClosesNothing DEF Run, AcceptorStep
<1>2. CASE Stop
  <2>1. CloseSessions(DOMAIN connections_) /\ WsStop /\ UNCHANGED stream
    BY <1>2 DEF Stop, WsStop
  <2> QED  BY <1>0, <2>1, ClosesKnown DEF AcceptorStep
<1>3. ASSUME NEW id \in Ids, Send(id) \/ Close(id)
      PROVE  AnyCloses /\ UNCHANGED <<serverVars, stream>>
  <2>1. sessions_[id] \in DOMAIN connections_ /\ Registered(sessions_[id])
    BY <1>3 DEF Send, Close, Registered, Struct, Maps, MapsInverse
  <2>2. /\ UNCHANGED <<serverVars, stream>>
        /\ UNCHANGED closed_ \/ CloseSessions({sessions_[id]})
    BY <1>3, <2>1 DEF Send, Close, CloseSilently
  <2> QED  BY <1>0, <2>1, <2>2, ClosesKnown, ClosesNothing
<1> QED  BY <1>1, <1>2, <1>3 DEF UserCall

LEMMA SessionCloses ==
    ASSUME Struct, NEW s \in Sessions, SessionHandler(s)
    PROVE  AnyCloses /\ SessionStep(s)
<1> USE DEF SessionStep
<1>1. CASE TlsHandshake(s)
  BY <1>1, ClosesNothing DEF TlsHandshake, QuietStomp
<1>2. CASE RefuseSession(s)
  <2>1. OnHandshakeError(s) /\ CloseSessions({s}) /\ stream'[s] = "refused"
    BY <1>2 DEF RefuseSession, OnWsSessionConnectError, OnHandshakeError, Advance,
                Struct, TypeOK, WsTypeOK
  <2> QED  BY <2>1, ClosesKnown
<1>3. CASE OpenSession(s)
  BY <1>3, ClosesNothing DEF OpenSession, OnWsSessionConnectOk
<1>4. CASE \E frame \in FrameKinds : ReadFrame(s, frame)
  <2>1. OnRead(s) /\ stream'[s] = "open" /\ (UNCHANGED closed_ \/ CloseSessions({s}))
    BY <1>4 DEF ReadFrame, OnRead, OnWsSessionMessage, HandleUnrecognized, HandleStomp, HandleSend,
                HandleInvalid, CloseOnError, CloseSilently
  <2> QED  BY <2>1, ClosesKnown, ClosesNothing
<1>5. CASE FailRead(s)
  BY <1>5, ClosesNothing DEF FailRead, QuietStomp
<1>6. CASE EndRead(s)
  BY <1>6, ClosesNothing DEF EndRead, QuietStomp, OnWsSessionDisconnect
<1> QED  BY <1>1, <1>2, <1>3, <1>4, <1>5, <1>6 DEF SessionHandler

LEMMA StepIsWsStep == Struct /\ [Next]_vars => [WsNext]_wsVars
<1> SUFFICES ASSUME Struct, [Next]_vars PROVE [WsNext]_wsVars
  OBVIOUS
<1>1. CASE \E s \in Sessions : SessionHandler(s)
  BY <1>1, SessionCloses DEF WsNext
<1>2. CASE AcceptorHandler
  <2>1. AcceptorStep /\ UNCHANGED closed_
    BY <1>2 DEF AcceptorHandler, CompleteAccept, AcceptSession, EndAccept, AcceptorStep,
                QuietStomp, OnWsDisconnect
  <2> QED  BY <2>1, ClosesNothing DEF WsNext
<1>3. CASE RunCallback
  BY <1>3, UserCloses DEF RunCallback, NoCall, WsNext
<1>4. CASE CallFromOutside
  BY <1>4, UserCloses DEF CallFromOutside, WsNext
<1>5. CASE UNCHANGED vars
  BY <1>5 DEF vars
<1> QED  BY <1>1, <1>2, <1>3, <1>4, <1>5 DEF Next

(* StompServer implements WebSocketServer with a user that closes only     *)
(* sessions it was given by onSessionConnect: no handler and no call of    *)
(* the STOMP layer closes a session that is still in its handshakes.       *)
THEOREM UsesWebSocketLegally == Spec => WsSpec
<1>1. Init => WsInit
  BY DEF Init
<1> QED  BY <1>1, StepIsWsStep, StructInvariant, PTL DEF Spec, WsSpec

-----------------------------------------------------------------------------
(* What the server tells its user and its clients: the order of the        *)
(* callbacks in the queue, that only real departures are told, what is     *)
(* written to a session, and that the server implements ClientRegistry.    *)

(* A callback that is posted and not yet run.                              *)
Waiting(cb, id) == \E i \in DOMAIN context_ : context_[i] = Event(cb, id)

(* Nothing was or will be said of an id.                                   *)
Silent(id) ==
    /\ id \notin announced
    /\ id \notin departed
    /\ \A i \in DOMAIN context_ : context_[i].id # id

Introduced(id) == id \in announced \/ Waiting("connect", id)
Ended(id) == id \in departed \/ Waiting("disconnect", id)

(* Nothing is said of an id before it is generated, or while its           *)
(* connection is pending; a connected client has been introduced.          *)
NewsMatchesStatus ==
    /\ \A id \in Ids \ DOMAIN owner : Silent(id)
    /\ \A s \in DOMAIN connections_, id \in Ids : connections_[s].id = id =>
        IF Connected(s) THEN Introduced(id) ELSE Silent(id)

(* Whoever is said to have left had a session that ended by itself.        *)
EndedIsOver ==
    \A id \in Ids : Ended(id) =>
        /\ id \in DOMAIN owner
        /\ id \notin DOMAIN sessions_
        /\ stream[owner[id]] = "done"
        /\ ~closed_[owner[id]]

Queue == NewsMatchesStatus /\ EndedIsOver /\ CallbackOrder

-----------------------------------------------------------------------------
(* The order of the queue when a callback is posted or run.                *)

LEMMA AppendFacts ==
    ASSUME Struct, NEW e, Post(e)
    PROVE  /\ Len(context_) \in Nat
           /\ DOMAIN context_ = 1 .. Len(context_)
           /\ DOMAIN context_' = 1 .. Len(context_) + 1
           /\ context_'[Len(context_) + 1] = e
           /\ \A i \in DOMAIN context_ : context_'[i] = context_[i]
BY DEF Post, Struct, TypeOK

LEMMA PostKeepsOrder ==
    ASSUME Struct, CallbackOrder, Undelivered,
           NEW id \in Ids, NEW cb \in {"connect", "message", "disconnect"}, Post(Event(cb, id)),
           cb = "connect" => Silent(id),
           cb # "connect" => Introduced(id) /\ ~Ended(id)
    PROVE  CallbackOrder'
<1> DEFINE n == Len(context_) + 1
<1>1. /\ Len(context_) \in Nat
      /\ DOMAIN context_ = 1 .. Len(context_)
      /\ DOMAIN context_' = 1 .. n
      /\ context_'[n].cb = cb /\ context_'[n].id = id
      /\ \A i \in DOMAIN context_ : context_'[i] = context_[i]
  BY AppendFacts DEF Event
<1>2. \A i \in DOMAIN context_ :
        /\ context_[i] \in Callbacks
        /\ context_[i].id = id /\ context_[i].cb = "disconnect" => context_[i] = Event("disconnect", id)
  BY DEF Struct, TypeOK, Callbacks, Callback, ServerDown, Event
<1>3. UNCHANGED <<announced, departed>>
  BY DEF Undelivered
<1>4. ASSUME NEW i \in DOMAIN context_', NEW j \in DOMAIN context_', i < j,
             context_'[i].id = context_'[j].id
      PROVE  context_'[i].cb # "disconnect" /\ context_'[j].cb # "connect"
  <2>1. i \in DOMAIN context_ /\ context_'[i] = context_[i]
    BY <1>1, <1>4
  <2>2. CASE j \in DOMAIN context_
    BY <1>1, <1>4, <2>1, <2>2 DEF CallbackOrder
  <2>3. CASE j = n
    BY <1>1, <1>2, <1>4, <2>1, <2>3 DEF Silent, Ended, Waiting
  <2> QED  BY <1>1, <2>2, <2>3
<1>5. ASSUME NEW i \in DOMAIN context_'
      PROVE  /\ context_'[i].id \notin departed
             /\ context_'[i].cb = "connect" => context_'[i].id \notin announced
             /\ context_'[i].cb \in {"message", "disconnect"} =>
                  \/ context_'[i].id \in announced
                  \/ \E j \in DOMAIN context_' :
                        j < i /\ context_'[j] = Event("connect", context_'[i].id)
  <2>1. CASE i \in DOMAIN context_
    BY <1>1, <2>1 DEF CallbackOrder
  <2>2. CASE i = n
    <3>1. context_'[i].id \notin departed
      BY <1>1, <2>2 DEF Silent, Ended
    <3>2. cb # "connect" =>
            id \in announced \/ \E j \in DOMAIN context_ : context_[j] = Event("connect", id)
      BY DEF Introduced, Waiting
    <3> QED  BY <1>1, <2>2, <3>1, <3>2 DEF Silent
  <2> QED  BY <1>1, <2>1, <2>2
<1> QED  BY <1>3, <1>4, <1>5 DEF CallbackOrder

LEMMA PostDownKeepsOrder ==
    ASSUME Struct, CallbackOrder, Undelivered, Post(ServerDown)
    PROVE  CallbackOrder'
<1> DEFINE n == Len(context_) + 1
<1>1. /\ Len(context_) \in Nat
      /\ DOMAIN context_ = 1 .. Len(context_)
      /\ DOMAIN context_' = 1 .. n
      /\ context_'[n].cb = "serverDown" /\ context_'[n].id = NoId
      /\ \A i \in DOMAIN context_ : context_'[i] = context_[i]
  BY AppendFacts DEF ServerDown
<1>2. \A i \in DOMAIN context_ : context_[i].id = NoId => context_[i].cb = "serverDown"
  BY NoIdAssumption DEF Struct, TypeOK, Callbacks, Callback, ServerDown
<1>3. UNCHANGED <<announced, departed>> /\ NoId \notin departed
  BY NoIdAssumption DEF Undelivered, Struct, TypeOK
<1>4. ASSUME NEW i \in DOMAIN context_', NEW j \in DOMAIN context_', i < j,
             context_'[i].id = context_'[j].id
      PROVE  context_'[i].cb # "disconnect" /\ context_'[j].cb # "connect"
  <2>1. i \in DOMAIN context_ /\ context_'[i] = context_[i]
    BY <1>1, <1>4
  <2>2. CASE j \in DOMAIN context_
    BY <1>1, <1>4, <2>1, <2>2 DEF CallbackOrder
  <2>3. CASE j = n
    BY <1>1, <1>2, <1>4, <2>1, <2>3
  <2> QED  BY <1>1, <2>2, <2>3
<1>5. ASSUME NEW i \in DOMAIN context_'
      PROVE  /\ context_'[i].id \notin departed
             /\ context_'[i].cb = "connect" => context_'[i].id \notin announced
             /\ context_'[i].cb \in {"message", "disconnect"} =>
                  \/ context_'[i].id \in announced
                  \/ \E j \in DOMAIN context_' :
                        j < i /\ context_'[j] = Event("connect", context_'[i].id)
  <2>1. CASE i \in DOMAIN context_
    BY <1>1, <2>1 DEF CallbackOrder
  <2>2. CASE i = n
    BY <1>1, <1>3, <2>2
  <2> QED  BY <1>1, <2>1, <2>2
<1> QED  BY <1>3, <1>4, <1>5 DEF CallbackOrder

LEMMA TakeFacts ==
    ASSUME Struct, TakeCallback
    PROVE  /\ Len(context_) \in Nat /\ Len(context_) > 0
           /\ DOMAIN context_ = 1 .. Len(context_)
           /\ DOMAIN context_' = 1 .. Len(context_) - 1
           /\ \A i \in DOMAIN context_' : i + 1 \in DOMAIN context_ /\ context_'[i] = context_[i + 1]
           /\ announced' = announced \cup {i \in Ids : context_[1] = Event("connect", i)}
           /\ departed' = departed \cup {i \in Ids : context_[1] = Event("disconnect", i)}
BY DEF TakeCallback, Struct, TypeOK

LEMMA TakeKeepsOrder ==
    ASSUME Struct, CallbackOrder, TakeCallback
    PROVE  CallbackOrder'
<1>1. /\ Len(context_) \in Nat /\ Len(context_) > 0
      /\ DOMAIN context_ = 1 .. Len(context_)
      /\ DOMAIN context_' = 1 .. Len(context_) - 1
      /\ \A i \in DOMAIN context_' : i + 1 \in DOMAIN context_ /\ context_'[i] = context_[i + 1]
      /\ announced' = announced \cup {i \in Ids : context_[1] = Event("connect", i)}
      /\ departed' = departed \cup {i \in Ids : context_[1] = Event("disconnect", i)}
  BY TakeFacts
<1>2. ASSUME NEW i \in DOMAIN context_', NEW j \in DOMAIN context_', i < j,
             context_'[i].id = context_'[j].id
      PROVE  context_'[i].cb # "disconnect" /\ context_'[j].cb # "connect"
  BY <1>1, <1>2 DEF CallbackOrder
<1>3. ASSUME NEW i \in DOMAIN context_'
      PROVE  /\ context_'[i].id \notin departed'
             /\ context_'[i].cb = "connect" => context_'[i].id \notin announced'
             /\ context_'[i].cb \in {"message", "disconnect"} =>
                  \/ context_'[i].id \in announced'
                  \/ \E j \in DOMAIN context_' :
                        j < i /\ context_'[j] = Event("connect", context_'[i].id)
  <2> DEFINE id == context_'[i].id
  <2>1. /\ i + 1 \in DOMAIN context_ /\ context_'[i] = context_[i + 1] /\ i \in Nat /\ 1 < i + 1
        /\ 1 \in DOMAIN context_
    BY <1>1
  <2>2. context_[1].id = id => context_[1].cb # "disconnect" /\ context_[i + 1].cb # "connect"
    BY <2>1 DEF CallbackOrder
  <2>3. id \notin departed'
    <3>1. id \notin departed
      BY <2>1 DEF CallbackOrder
    <3>2. context_[1] # Event("disconnect", id)
      BY <2>2 DEF Event
    <3> QED  BY <1>1, <3>1, <3>2
  <2>4. context_'[i].cb = "connect" => id \notin announced'
    <3>1. context_'[i].cb = "connect" => id \notin announced
      BY <2>1 DEF CallbackOrder
    <3>2. context_'[i].cb = "connect" => context_[1] # Event("connect", id)
      BY <2>1, <2>2 DEF Event
    <3> QED  BY <1>1, <3>1, <3>2
  <2>5. ASSUME context_'[i].cb \in {"message", "disconnect"}, id \notin announced'
        PROVE  \E j \in DOMAIN context_' : j < i /\ context_'[j] = Event("connect", id)
    <3>1. PICK j \in DOMAIN context_ : j < i + 1 /\ context_[j] = Event("connect", id)
      BY <1>1, <2>1, <2>5 DEF CallbackOrder
    <3>2. id \in Ids
      BY <2>1, <2>5 DEF Struct, TypeOK, Callbacks, Callback, ServerDown
    <3>3. j # 1
      BY <1>1, <2>5, <3>1, <3>2
    <3>4. j - 1 \in DOMAIN context_' /\ j - 1 < i /\ context_'[j - 1] = context_[j]
      BY <1>1, <2>1, <3>1, <3>3
    <3> QED  BY <3>1, <3>4
  <2> QED  BY <2>3, <2>4, <2>5
<1> QED  BY <1>2, <1>3 DEF CallbackOrder
-----------------------------------------------------------------------------
(* What was said of an id, after the queue has changed.                    *)

LEMMA PostNews ==
    ASSUME Struct, Undelivered,
           NEW id \in Ids, NEW cb \in {"connect", "message", "disconnect"}, Post(Event(cb, id))
    PROVE  \A i \in Ids :
              /\ Introduced(i) => Introduced(i)'
              /\ i # id => (Silent(i) => Silent(i)') /\ (Ended(i)' => Ended(i))
              /\ cb # "disconnect" => (Ended(i)' => Ended(i))
              /\ cb = "connect" => Introduced(id)'
<1> DEFINE n == Len(context_) + 1
<1>1. /\ n \in DOMAIN context_'
      /\ \A j \in DOMAIN context_' : j \in DOMAIN context_ \/ j = n
      /\ \A j \in DOMAIN context_ : j \in DOMAIN context_' /\ context_'[j] = context_[j]
      /\ context_'[n] = Event(cb, id) /\ context_'[n].id = id /\ context_'[n].cb = cb
  BY AppendFacts DEF Event
<1>2. UNCHANGED <<announced, departed>>
  BY DEF Undelivered
<1> SUFFICES ASSUME NEW i \in Ids
             PROVE  /\ Introduced(i) => Introduced(i)'
                    /\ i # id => (Silent(i) => Silent(i)') /\ (Ended(i)' => Ended(i))
                    /\ cb # "disconnect" => (Ended(i)' => Ended(i))
                    /\ cb = "connect" => Introduced(id)'
  OBVIOUS
<1>3. Introduced(i) => Introduced(i)'
  BY <1>1, <1>2 DEF Introduced, Waiting
<1>4. i # id => (Silent(i) => Silent(i)')
  BY <1>1, <1>2 DEF Silent
<1>5. i # id \/ cb # "disconnect" => (Ended(i)' => Ended(i))
  <2>1. i # id \/ cb # "disconnect" => context_'[n] # Event("disconnect", i)
    BY <1>1 DEF Event
  <2> QED  BY <1>1, <1>2, <2>1 DEF Ended, Waiting
<1>6. cb = "connect" => Introduced(id)'
  BY <1>1 DEF Introduced, Waiting
<1> QED  BY <1>3, <1>4, <1>5, <1>6

LEMMA PostDownNews ==
    ASSUME Struct, Undelivered, Post(ServerDown)
    PROVE  \A i \in Ids :
              /\ Introduced(i) => Introduced(i)'
              /\ Silent(i) => Silent(i)'
              /\ Ended(i)' => Ended(i)
<1> DEFINE n == Len(context_) + 1
<1>1. /\ n \in DOMAIN context_'
      /\ \A j \in DOMAIN context_' : j \in DOMAIN context_ \/ j = n
      /\ \A j \in DOMAIN context_ : j \in DOMAIN context_' /\ context_'[j] = context_[j]
      /\ context_'[n].id = NoId /\ context_'[n].cb = "serverDown"
  BY AppendFacts DEF ServerDown
<1>2. UNCHANGED <<announced, departed>>
  BY DEF Undelivered
<1> SUFFICES ASSUME NEW i \in Ids
             PROVE  /\ Introduced(i) => Introduced(i)'
                    /\ Silent(i) => Silent(i)'
                    /\ Ended(i)' => Ended(i)
  OBVIOUS
<1>3. Introduced(i) => Introduced(i)'
  BY <1>1, <1>2 DEF Introduced, Waiting
<1>4. Silent(i) => Silent(i)'
  BY <1>1, <1>2, NoIdAssumption DEF Silent
<1>5. Ended(i)' => Ended(i)
  <2>1. context_'[n] # Event("disconnect", i)
    BY <1>1 DEF Event
  <2> QED  BY <1>1, <1>2, <2>1 DEF Ended, Waiting
<1> QED  BY <1>3, <1>4, <1>5

LEMMA TakeNews ==
    ASSUME Struct, TakeCallback
    PROVE  \A i \in Ids :
              /\ Introduced(i) => Introduced(i)'
              /\ Silent(i) => Silent(i)'
              /\ Ended(i)' => Ended(i)
<1>1. /\ 1 \in DOMAIN context_
      /\ \A j \in DOMAIN context_' : j + 1 \in DOMAIN context_ /\ context_'[j] = context_[j + 1]
      /\ \A j \in DOMAIN context_ : j # 1 => j - 1 \in DOMAIN context_' /\ context_'[j - 1] = context_[j]
      /\ announced' = announced \cup {i \in Ids : context_[1] = Event("connect", i)}
      /\ departed' = departed \cup {i \in Ids : context_[1] = Event("disconnect", i)}
  BY TakeFacts
<1> SUFFICES ASSUME NEW i \in Ids
             PROVE  /\ Introduced(i) => Introduced(i)'
                    /\ Silent(i) => Silent(i)'
                    /\ Ended(i)' => Ended(i)
  OBVIOUS
<1>2. Introduced(i) => Introduced(i)'
  <2>1. ASSUME NEW j \in DOMAIN context_, context_[j] = Event("connect", i)
        PROVE  Introduced(i)'
    BY <1>1, <2>1 DEF Introduced, Waiting
  <2> QED  BY <1>1, <2>1 DEF Introduced, Waiting
<1>3. Silent(i) => Silent(i)'
  BY <1>1 DEF Silent, Event
<1>4. Ended(i)' => Ended(i)
  BY <1>1 DEF Ended, Waiting
<1> QED  BY <1>2, <1>3, <1>4

LEMMA SameNews ==
    ASSUME UNCHANGED <<context_, announced, departed>>
    PROVE  /\ CallbackOrder => CallbackOrder'
           /\ \A i \in Ids :
                /\ Introduced(i) => Introduced(i)'
                /\ Silent(i) => Silent(i)'
                /\ Ended(i)' => Ended(i)
BY DEF CallbackOrder, Introduced, Silent, Ended, Waiting

-----------------------------------------------------------------------------
(* Connections and sessions, after a step that makes no connection and     *)
(* opens none.                                                             *)

OnlyForgets ==
    /\ \A s \in DOMAIN connections_' :
        s \in DOMAIN connections_ /\ connections_'[s] = connections_[s]
    /\ DOMAIN sessions_' \subseteq DOMAIN sessions_
    /\ owner' = owner

OverStaysOver ==
    \A s \in Sessions : stream[s] = "done" /\ ~closed_[s] => stream'[s] = "done" /\ ~closed_'[s]

LEMMA NewsKept ==
    ASSUME Struct, NewsMatchesStatus, OnlyForgets,
           \A i \in Ids : Introduced(i) => Introduced(i)',
           \A i \in Ids \ DOMAIN owner : Silent(i) => Silent(i)',
           \A s \in DOMAIN connections_', i \in Ids :
               connections_[s].id = i /\ ~Connected(s) /\ Silent(i) => Silent(i)'
    PROVE  NewsMatchesStatus'
<1>1. \A i \in Ids \ DOMAIN owner' : Silent(i)'
  BY DEF NewsMatchesStatus, OnlyForgets
<1>2. ASSUME NEW s \in DOMAIN connections_', NEW id \in Ids, connections_'[s].id = id
      PROVE  IF Connected(s)' THEN Introduced(id)' ELSE Silent(id)'
  <2>1. /\ s \in DOMAIN connections_ /\ connections_'[s] = connections_[s]
        /\ Connected(s)' <=> Connected(s)
    BY <1>2 DEF OnlyForgets, Connected, Registered
  <2>2. IF Connected(s) THEN Introduced(id) ELSE Silent(id)
    BY <1>2, <2>1 DEF NewsMatchesStatus
  <2> QED  BY <1>2, <2>1, <2>2
<1> QED  BY <1>1, <1>2 DEF NewsMatchesStatus

LEMMA EndedKept ==
    ASSUME Struct, EndedIsOver, OnlyForgets, OverStaysOver,
           NEW id \in Ids, Ended(id)
    PROVE  /\ id \in DOMAIN owner'
           /\ id \notin DOMAIN sessions_'
           /\ stream'[owner'[id]] = "done"
           /\ ~closed_'[owner'[id]]
<1>1. /\ id \in DOMAIN owner /\ id \notin DOMAIN sessions_
      /\ stream[owner[id]] = "done" /\ ~closed_[owner[id]]
      /\ owner[id] \in Sessions
  BY DEF EndedIsOver, Struct, TypeOK, IsPartial
<1> QED  BY <1>1 DEF OnlyForgets, OverStaysOver

(* A step that only forgets connections and tells nothing new of anyone.   *)
LEMMA QuietKeepsQueue ==
    ASSUME Struct, Queue, OnlyForgets, OverStaysOver, CallbackOrder',
           \A i \in Ids :
              /\ Introduced(i) => Introduced(i)'
              /\ Silent(i) => Silent(i)'
              /\ Ended(i)' => Ended(i)
    PROVE  Queue'
<1>1. NewsMatchesStatus'
  BY NewsKept DEF Queue
<1>2. EndedIsOver'
  BY EndedKept DEF Queue, EndedIsOver
<1> QED  BY <1>1, <1>2 DEF Queue

-----------------------------------------------------------------------------
(* The queue, action by action.                                            *)

LEMMA UnregisterForgets ==
    ASSUME Struct, NEW s \in DOMAIN connections_, Unregister(s), UNCHANGED owner
    PROVE  OnlyForgets /\ connections_[s].id \notin DOMAIN sessions_'
BY DEF Unregister, Without, OnlyForgets

LEMMA SameForgets ==
    ASSUME UNCHANGED <<connections_, sessions_, owner>>
    PROVE  OnlyForgets
BY DEF OnlyForgets

(* CloseConnection, or the closing of a session that is not known.         *)
LEMMA CloseForgets ==
    ASSUME Struct, NEW s \in Sessions, stream[s] # "done", UNCHANGED stream, CloseSessions({s})
    PROVE  OverStaysOver
BY CloseFacts DEF OverStaysOver

LEMMA UserForgets ==
    ASSUME Struct, UserCall
    PROVE  OnlyForgets /\ OverStaysOver
<1>0. UNCHANGED owner
  BY DEF UserCall
<1>1. \A s \in DOMAIN connections_ : s \in Sessions /\ stream[s] \in {"open", "broken"}
  BY DEF Struct, TypeOK, IsPartial, Maps, RegisteredIsLive
<1>2. CASE Run
  BY <1>0, <1>2, SameForgets DEF Run, WsRunOk, WsRunFails, OverStaysOver
<1>3. CASE Stop
  <2>1. CloseSessions(DOMAIN connections_) /\ UNCHANGED stream
        /\ connections_' = EmptyMap /\ sessions_' = EmptyMap
    BY <1>3 DEF Stop, WsStop
  <2> QED  BY <1>0, <1>1, <2>1, CloseFacts DEF OnlyForgets, OverStaysOver, EmptyMap
<1>4. ASSUME NEW id \in Ids, Send(id)
      PROVE  OnlyForgets /\ OverStaysOver
  <2>1. Registered(sessions_[id])
    BY <1>4 DEF Send, Registered, Struct, Maps, MapsInverse
  <2> QED  BY <1>0, <1>4, <2>1, SameForgets DEF Send, OverStaysOver
<1>5. ASSUME NEW id \in Ids, Close(id)
      PROVE  OnlyForgets /\ OverStaysOver
  <2>1. sessions_[id] \in DOMAIN connections_
    BY <1>5 DEF Close, Struct, Maps, MapsInverse
  <2>2. CloseSilently(sessions_[id]) /\ UNCHANGED stream
    BY <1>5, <2>1 DEF Close, Registered
  <2> QED  BY <1>0, <1>1, <2>1, <2>2, UnregisterForgets, CloseForgets DEF CloseSilently
<1> QED  BY <1>2, <1>3, <1>4, <1>5 DEF UserCall

(* A stream moves and nobody else hears of it.                             *)
LEMMA SilentMoves ==
    ASSUME Struct, Queue, NEW s \in Sessions, TlsHandshake(s) \/ RefuseSession(s) \/ FailRead(s)
    PROVE  Queue'
<1>1. PICK from \in SUBSET Phases, to \in Phases : "done" \notin from /\ Advance(s, from, to)
  BY DEF TlsHandshake, RefuseSession, FailRead, OnTlsHandshakeOk, OnHandshakeError, OnReadError,
         Phases
<1>2. /\ UNCHANGED <<connections_, sessions_, context_, owner, announced, departed>>
      /\ UNCHANGED closed_ \/ CloseSessions({s})
  BY DEF TlsHandshake, RefuseSession, FailRead, QuietStomp, OnWsSessionConnectError, Undelivered
<1>3. stream[s] # "done" /\ \A r \in Sessions \ {s} : stream'[r] = stream[r]
  BY <1>1, AdvanceFacts
<1>4. OverStaysOver
  BY <1>2, <1>3, CloseFacts DEF OverStaysOver
<1> QED  BY <1>2, <1>4, SameForgets, SameNews, QuietKeepsQueue DEF Queue

(* The id of the new connection was never heard of.                        *)
LEMMA OpenSessionQueue ==
    ASSUME Struct, Queue, NEW s \in Sessions, OpenSession(s)
    PROVE  Queue'
<1>1. PICK new \in Ids \ DOMAIN owner :
          /\ sessions_' = Extend(sessions_, new, s)
          /\ connections_' = Extend(connections_, s, [id |-> new, status |-> "kPending"])
          /\ owner' = Extend(owner, new, s)
  BY DEF OpenSession, OnWsSessionConnectOk
<1>2. UNCHANGED <<closed_, context_, announced, departed>>
  BY DEF OpenSession, OnWsSessionConnectOk, Undelivered
<1>3. /\ stream[s] = "ws"
      /\ \A r \in Sessions \ {s} : stream'[r] = stream[r]
  BY AdvanceFacts DEF OpenSession, OnHandshakeOk, Phases
<1>4. s \notin DOMAIN connections_
  BY <1>3 DEF Struct, Maps, RegisteredIsLive
<1>5. NewsMatchesStatus'
  <2>1. \A i \in Ids \ DOMAIN owner' : Silent(i)'
    BY <1>1, <1>2 DEF Extend, Queue, NewsMatchesStatus, Silent
  <2>2. ASSUME NEW r \in DOMAIN connections_', NEW id \in Ids, connections_'[r].id = id
        PROVE  IF Connected(r)' THEN Introduced(id)' ELSE Silent(id)'
    <3>1. CASE r = s
      <4>1. ~Connected(r)' /\ id = new
        BY <1>1, <2>2, <3>1 DEF Extend, Connected
      <4> QED  BY <1>2, <4>1 DEF Queue, NewsMatchesStatus, Silent
    <3>2. CASE r # s
      <4>1. r \in DOMAIN connections_ /\ connections_'[r] = connections_[r]
        BY <1>1, <3>2 DEF Extend
      <4>2. Connected(r)' <=> Connected(r)
        BY <2>2, <4>1 DEF Connected, Registered
      <4>3. IF Connected(r) THEN Introduced(id) ELSE Silent(id)
        BY <2>2, <4>1 DEF Queue, NewsMatchesStatus
      <4> QED  BY <1>2, <4>2, <4>3, SameNews
    <3> QED  BY <3>1, <3>2
  <2> QED  BY <2>1, <2>2 DEF NewsMatchesStatus
<1>6. EndedIsOver'
  <2> SUFFICES ASSUME NEW id \in Ids, Ended(id)'
               PROVE  /\ id \in DOMAIN owner'
                      /\ id \notin DOMAIN sessions_'
                      /\ stream'[owner'[id]] = "done"
                      /\ ~closed_'[owner'[id]]
    BY DEF EndedIsOver
  <2>1. Ended(id)
    BY <1>2, SameNews
  <2>2. /\ id \in DOMAIN owner /\ id \notin DOMAIN sessions_
        /\ stream[owner[id]] = "done" /\ ~closed_[owner[id]]
        /\ owner[id] \in Sessions
    BY <2>1 DEF Queue, EndedIsOver, Struct, TypeOK, IsPartial
  <2>3. id # new /\ owner[id] # s
    BY <1>3, <2>2
  <2> QED  BY <1>1, <1>2, <1>3, <2>2, <2>3 DEF Extend
<1> QED  BY <1>2, <1>5, <1>6, SameNews DEF Queue

(* A pending connection becomes a connected one, and is introduced.        *)
LEMMA AcceptClientQueue ==
    ASSUME Struct, Queue, NEW s \in DOMAIN connections_, ~Connected(s),
           connections_' = [connections_ EXCEPT ![s].status = "kConnected"],
           Post(Event("connect", connections_[s].id)),
           UNCHANGED <<stream, closed_, sessions_, owner>>, Undelivered
    PROVE  Queue'
<1> DEFINE new == connections_[s].id
<1>1. new \in Ids /\ Silent(new) /\ new \in DOMAIN owner
  BY DEF Queue, NewsMatchesStatus, Struct, TypeOK, IsPartial, Maps, OwnersMatch
<1>2. /\ DOMAIN connections_' = DOMAIN connections_
      /\ connections_'[s].id = new /\ connections_'[s].status = "kConnected"
      /\ \A r \in DOMAIN connections_ \ {s} :
            connections_'[r] = connections_[r] /\ connections_[r].id # new
  BY DEF Struct, TypeOK, IsPartial, Maps, MapsInverse
<1>3. PICK id \in Ids : id = new
  BY <1>1
<1>4. Post(Event("connect", id)) /\ Silent(id)
  BY <1>1, <1>3
<1>5. CallbackOrder'
  BY <1>4, PostKeepsOrder DEF Queue
<1>6. /\ \A i \in Ids : (Introduced(i) => Introduced(i)') /\ (Ended(i)' => Ended(i))
      /\ \A i \in Ids \ {id} : Silent(i) => Silent(i)'
      /\ Introduced(id)'
  BY <1>4, PostNews
<1>7. NewsMatchesStatus'
  <2>1. \A i \in Ids \ DOMAIN owner' : Silent(i)'
    BY <1>1, <1>3, <1>6 DEF Queue, NewsMatchesStatus
  <2>2. ASSUME NEW r \in DOMAIN connections_', NEW i \in Ids, connections_'[r].id = i
        PROVE  IF Connected(r)' THEN Introduced(i)' ELSE Silent(i)'
    <3>1. CASE r = s
      <4>1. Connected(r)' /\ i = id
        BY <1>2, <1>3, <2>2, <3>1 DEF Connected, Registered
      <4> QED  BY <1>6, <4>1
    <3>2. CASE r # s
      <4>1. r \in DOMAIN connections_ /\ connections_[r].id = i /\ i # id
        BY <1>2, <1>3, <2>2, <3>2
      <4>2. Connected(r)' <=> Connected(r)
        BY <1>2, <3>2, <4>1 DEF Connected, Registered
      <4>3. IF Connected(r) THEN Introduced(i) ELSE Silent(i)
        BY <4>1 DEF Queue, NewsMatchesStatus
      <4> QED  BY <1>6, <4>1, <4>2, <4>3
    <3> QED  BY <3>1, <3>2
  <2> QED  BY <2>1, <2>2 DEF NewsMatchesStatus
<1>8. EndedIsOver'
  BY <1>6 DEF Queue, EndedIsOver
<1> QED  BY <1>5, <1>7, <1>8 DEF Queue

(* A connected client is told to have spoken or to have left.              *)
LEMMA ConnectedNews ==
    ASSUME Struct, Queue, NEW s \in DOMAIN connections_, Connected(s),
           NEW cb \in {"message", "disconnect"}, Post(Event(cb, connections_[s].id)),
           OnlyForgets, OverStaysOver, Undelivered,
           cb = "disconnect" =>
               /\ connections_[s].id \notin DOMAIN sessions_'
               /\ stream'[s] = "done"
               /\ ~closed_'[s]
    PROVE  Queue'
<1>1. /\ connections_[s].id \in Ids
      /\ connections_[s].id \in DOMAIN sessions_
      /\ connections_[s].id \in DOMAIN owner
      /\ owner[connections_[s].id] = s
      /\ \A r \in DOMAIN connections_ : connections_[r].id = connections_[s].id => r = s
  BY DEF Struct, TypeOK, IsPartial, Maps, OwnersMatch, MapsInverse
<1>2. PICK id \in Ids : id = connections_[s].id
  BY <1>1
<1>3. Introduced(id) /\ ~Ended(id)
  BY <1>1, <1>2 DEF Queue, NewsMatchesStatus, EndedIsOver
<1>4. Post(Event(cb, id))
  BY <1>2
<1>5. CallbackOrder'
  BY <1>3, <1>4, PostKeepsOrder DEF Queue
<1>6. \A i \in Ids :
        /\ Introduced(i) => Introduced(i)'
        /\ i # id => (Silent(i) => Silent(i)') /\ (Ended(i)' => Ended(i))
        /\ cb # "disconnect" => (Ended(i)' => Ended(i))
  BY <1>4, PostNews
<1>7. NewsMatchesStatus'
  <2>1. \A i \in Ids \ DOMAIN owner : Silent(i) => Silent(i)'
    BY <1>1, <1>2, <1>6
  <2>2. ASSUME NEW r \in DOMAIN connections_', NEW i \in Ids,
               connections_[r].id = i, ~Connected(r), Silent(i)
        PROVE  Silent(i)'
    <3>1. i # id
      BY <1>1, <1>2, <2>2 DEF OnlyForgets
    <3> QED  BY <1>6, <2>2, <3>1
  <2> QED  BY <1>6, <2>1, <2>2, NewsKept DEF Queue
<1>8. EndedIsOver'
  <2> SUFFICES ASSUME NEW i \in Ids, Ended(i)'
               PROVE  /\ i \in DOMAIN owner'
                      /\ i \notin DOMAIN sessions_'
                      /\ stream'[owner'[i]] = "done"
                      /\ ~closed_'[owner'[i]]
    BY DEF EndedIsOver
  <2>1. CASE Ended(i)
    BY <2>1, EndedKept DEF Queue
  <2>2. CASE ~Ended(i)
    BY <1>1, <1>2, <1>6, <2>2 DEF OnlyForgets
  <2> QED  BY <2>1, <2>2
<1> QED  BY <1>5, <1>7, <1>8 DEF Queue

LEMMA ReadFrameQueue ==
    ASSUME Struct, Queue, NEW s \in Sessions, NEW frame \in FrameKinds, ReadFrame(s, frame)
    PROVE  Queue'
<1>1. /\ stream[s] = "open"
      /\ UNCHANGED <<stream, owner>> /\ Undelivered
  BY DEF ReadFrame, OnRead, OnWsSessionMessage
<1>2. ASSUME Registered(s), CloseOnError(s) \/ CloseSilently(s), UNCHANGED context_
      PROVE  Queue'
  <2>1. Unregister(s) /\ CloseSessions({s})
    BY <1>2 DEF CloseOnError, CloseSilently
  <2>2. OnlyForgets /\ OverStaysOver
    BY <1>1, <1>2, <2>1, UnregisterForgets, CloseForgets DEF Registered
  <2> QED  BY <1>1, <1>2, <2>2, SameNews, QuietKeepsQueue DEF Undelivered, Queue
<1>3. CASE ~Registered(s) /\ HandleUnrecognized(s)
  <2>1. OnlyForgets /\ OverStaysOver /\ UNCHANGED context_
    BY <1>1, <1>3, SameForgets, CloseForgets DEF HandleUnrecognized
  <2> QED  BY <1>1, <2>1, SameNews, QuietKeepsQueue DEF Undelivered, Queue
<1>4. CASE Registered(s) /\ HandleStomp(s)
  <2>1. CASE ~Connected(s)
    BY <1>1, <1>4, <2>1, AcceptClientQueue DEF HandleStomp, Registered
  <2>2. CASE Connected(s)
    BY <1>2, <1>4, <2>2 DEF HandleStomp
  <2> QED  BY <2>1, <2>2
<1>5. CASE Registered(s) /\ HandleSend(s)
  <2>1. CASE Connected(s)
    <3>1. /\ Post(Event("message", connections_[s].id))
          /\ UNCHANGED <<closed_, connections_, sessions_>>
      BY <1>5, <2>1 DEF HandleSend
    <3>2. OnlyForgets /\ OverStaysOver
      BY <1>1, <3>1, SameForgets DEF OverStaysOver
    <3> QED  BY <1>1, <1>5, <2>1, <3>1, <3>2, ConnectedNews DEF Registered
  <2>2. CASE ~Connected(s)
    BY <1>2, <1>5, <2>2 DEF HandleSend
  <2> QED  BY <2>1, <2>2
<1>6. CASE Registered(s) /\ HandleInvalid(s)
  BY <1>2, <1>6 DEF HandleInvalid
<1> QED  BY <1>3, <1>4, <1>5, <1>6 DEF ReadFrame, OnWsSessionMessage

LEMMA EndReadQueue ==
    ASSUME Struct, Queue, NEW s \in Sessions, EndRead(s)
    PROVE  Queue'
<1>1. /\ stream[s] \in {"open", "broken"} /\ stream'[s] = "done"
      /\ \A r \in Sessions \ {s} : stream'[r] = stream[r]
  BY AdvanceFacts DEF EndRead, OnReadEnd, Phases
<1>2. UNCHANGED <<closed_, owner>> /\ Undelivered
  BY DEF EndRead, OnWsSessionDisconnect, QuietStomp
<1>3. OverStaysOver
  BY <1>1, <1>2 DEF OverStaysOver
<1>4. CASE Registered(s)
  <2>1. ~closed_[s]
    BY <1>4 DEF Registered, Struct, Maps, RegisteredIsLive
  <2>2. OnWsSessionDisconnect(s) /\ Unregister(s)
    BY <1>4, <2>1 DEF EndRead, ReportsEnd, OnWsSessionDisconnect
  <2>3. OnlyForgets /\ connections_[s].id \notin DOMAIN sessions_'
    BY <1>2, <1>4, <2>2, UnregisterForgets DEF Registered
  <2>4. CASE Connected(s)
    BY <1>1, <1>2, <1>3, <1>4, <2>1, <2>2, <2>3, <2>4, ConnectedNews
    DEF OnWsSessionDisconnect, Registered
  <2>5. CASE ~Connected(s)
    BY <1>2, <1>3, <2>2, <2>3, <2>5, SameNews, QuietKeepsQueue
    DEF OnWsSessionDisconnect, Undelivered, Queue
  <2> QED  BY <2>4, <2>5
<1>5. CASE ~Registered(s)
  <2>1. UNCHANGED <<connections_, sessions_, context_>>
    BY <1>5 DEF EndRead, OnWsSessionDisconnect, QuietStomp, Connected
  <2> QED
    BY <1>2, <1>3, <2>1, SameForgets, SameNews, QuietKeepsQueue DEF Undelivered, Queue
<1> QED  BY <1>4, <1>5

LEMMA AcceptorQueue ==
    ASSUME Struct, Queue, AcceptorHandler
    PROVE  Queue'
<1>1. /\ UNCHANGED <<connections_, sessions_, owner, closed_>> /\ Undelivered
      /\ UNCHANGED context_ \/ Post(ServerDown)
  BY DEF AcceptorHandler, CompleteAccept, AcceptSession, EndAccept, QuietStomp, OnWsDisconnect
<1>2. OverStaysOver
  <2>1. UNCHANGED stream \/ \E s \in Sessions :
            stream[s] = "absent" /\ stream' = [stream EXCEPT ![s] = "tls"]
    BY DEF AcceptorHandler, CompleteAccept, AcceptSession, EndAccept, AcceptCompletes,
           OnConnectionAccepted, OnAcceptError
  <2> QED  BY <1>1, <2>1 DEF OverStaysOver, Struct, TypeOK, WsTypeOK
<1>3. CASE UNCHANGED context_
  BY <1>1, <1>2, <1>3, SameForgets, SameNews, QuietKeepsQueue DEF Undelivered, Queue
<1>4. CASE Post(ServerDown)
  BY <1>1, <1>2, <1>4, SameForgets, PostDownKeepsOrder, PostDownNews, QuietKeepsQueue DEF Queue
<1> QED  BY <1>1, <1>3, <1>4

-----------------------------------------------------------------------------
LEMMA InitQueue == Init => Queue
BY DEF Init, EmptyMap, Queue, NewsMatchesStatus, Silent, EndedIsOver, Ended, Waiting, CallbackOrder

LEMMA StepQueue == Struct /\ Queue /\ [Next]_vars => Queue'
<1> SUFFICES ASSUME Struct, Queue, [Next]_vars PROVE Queue'
  OBVIOUS
<1>1. CASE \E s \in Sessions : SessionHandler(s)
  BY <1>1, SilentMoves, OpenSessionQueue, ReadFrameQueue, EndReadQueue DEF SessionHandler
<1>2. CASE AcceptorHandler
  BY <1>2, AcceptorQueue
<1>3. CASE RunCallback
  <2>1. TakeCallback
    BY <1>3 DEF RunCallback
  <2>2. OnlyForgets /\ OverStaysOver
    BY <1>3, UserForgets, SameForgets DEF RunCallback, NoCall, wsVars, OverStaysOver
  <2> QED  BY <2>1, <2>2, TakeKeepsOrder, TakeNews, QuietKeepsQueue DEF Queue
<1>4. CASE CallFromOutside
  BY <1>4, UserForgets, SameNews, QuietKeepsQueue DEF CallFromOutside, Undelivered, Queue
<1>5. CASE UNCHANGED vars
  <2>1. OnlyForgets /\ OverStaysOver /\ UNCHANGED <<context_, announced, departed>>
    BY <1>5, SameForgets DEF vars, wsVars, stompVars, OverStaysOver
  <2> QED  BY <2>1, SameNews, QuietKeepsQueue DEF Queue
<1> QED  BY <1>1, <1>2, <1>3, <1>4, <1>5 DEF Next

(* The inductive invariant that the next two theorems are read from: what  *)
(* is in the queue fits the status of the connections and of the sessions. *)
THEOREM QueueInvariant == Spec => []Queue
BY StructInvariant, InitQueue, StepQueue, PTL DEF Spec

(* The user is told of a client in order - connected, its messages, gone - *)
(* whatever handlers post in between (stomp-server.h:457-548, 595-713).    *)
THEOREM CallbacksInOrder == Spec => []CallbackOrder
<1>1. Queue => CallbackOrder
  BY DEF Queue
<1> QED  BY <1>1, QueueInvariant, PTL

(* Only clients whose read loop ended by itself are told to have left:     *)
(* never one that the user closed, that was stopped or that broke the      *)
(* protocol (websocket-server.h:258-273, stomp-server.h:518-548).          *)
THEOREM DeparturesAreReal == Spec => []DepartureIsReal
<1>1. Struct /\ Queue => DepartureIsReal
  <2> SUFFICES ASSUME Struct, Queue, NEW id \in Ids,
                      id \in departed \/ Event("disconnect", id) \in Range(context_)
               PROVE  /\ id \notin DOMAIN sessions_
                      /\ stream[owner[id]] = "done"
                      /\ ~closed_[owner[id]]
    BY DEF DepartureIsReal
  <2>1. Ended(id)
    BY DEF Range, Ended, Waiting
  <2> QED  BY <2>1 DEF Queue, EndedIsOver
<1> QED  BY <1>1, StructInvariant, QueueInvariant, PTL

-----------------------------------------------------------------------------
(***************************************************************************)
(* What StompServer writes to its clients, and ClientRegistry.             *)
(***************************************************************************)
Unopened == {"absent", "tls", "ws", "refused"}
Opened == {"open", "broken", "done"}

FirstIsConnected(s) == sent[s] # <<>> /\ Head(sent[s]) = "CONNECTED"

(* Only an opened session has an id, and it has one; nothing is written to *)
(* it before it is connected, and CONNECTED first.                         *)
OwnersAreOpened ==
    /\ \A id \in DOMAIN owner : stream[owner[id]] \in Opened
    /\ \A id, other \in DOMAIN owner : owner[id] = owner[other] => id = other

SentMatchesStatus ==
    /\ \A s \in Sessions : stream[s] \in Unopened => sent[s] = <<>>
    /\ \A s \in DOMAIN connections_ : IF Connected(s) THEN FirstIsConnected(s) ELSE sent[s] = <<>>

Replies == OwnersAreOpened /\ SentMatchesStatus /\ ReplyOrder

-----------------------------------------------------------------------------
(* A session that was opened never is anything else again.                 *)
StaysOpened == \A s \in Sessions : stream[s] \in Opened => stream'[s] \in Opened

LEMMA StepStaysOpened ==
    ASSUME Struct, [Next]_vars
    PROVE  StaysOpened
<1>1. ASSUME NEW s \in Sessions, SessionHandler(s)
      PROVE  StaysOpened
  <2>1. CASE UNCHANGED stream
    BY <2>1 DEF StaysOpened
  <2>2. CASE \E from \in SUBSET Phases, to \in Phases :
                (to \in Opened \/ from \cap Opened = {}) /\ Advance(s, from, to)
    <3>1. PICK from \in SUBSET Phases, to \in Phases :
                (to \in Opened \/ from \cap Opened = {}) /\ Advance(s, from, to)
      BY <2>2
    <3>2. /\ stream[s] \in from /\ stream'[s] = to
          /\ \A r \in Sessions \ {s} : stream'[r] = stream[r]
      BY <3>1, AdvanceFacts
    <3> QED  BY <3>1, <3>2 DEF StaysOpened
  <2>3. UNCHANGED stream \/ \E from \in SUBSET Phases, to \in Phases :
                (to \in Opened \/ from \cap Opened = {}) /\ Advance(s, from, to)
    BY <1>1
    DEF SessionHandler, TlsHandshake, RefuseSession, OpenSession, ReadFrame, FailRead, EndRead,
        OnTlsHandshakeOk, OnHandshakeError, OnHandshakeOk, OnRead, OnReadError, OnReadEnd,
        Opened, Phases
  <2> QED  BY <2>1, <2>2, <2>3
<1>2. CASE AcceptorHandler
  <2>1. UNCHANGED stream \/ \E s \in Sessions :
            stream[s] = "absent" /\ stream' = [stream EXCEPT ![s] = "tls"]
    BY <1>2 DEF AcceptorHandler, CompleteAccept, AcceptSession, EndAccept, AcceptCompletes,
           OnConnectionAccepted, OnAcceptError
  <2> QED  BY <2>1 DEF StaysOpened, Opened, Struct, TypeOK, WsTypeOK
<1>3. ASSUME UserCall
      PROVE  UNCHANGED stream
  BY <1>3 DEF UserCall, Run, Stop, Send, Close, WsRunOk, WsRunFails, WsStop
<1>4. CASE RunCallback \/ CallFromOutside \/ UNCHANGED vars
  <2>1. UNCHANGED stream
    BY <1>3, <1>4 DEF RunCallback, NoCall, CallFromOutside, vars, wsVars
  <2> QED  BY <2>1 DEF StaysOpened
<1> QED  BY <1>1, <1>2, <1>4 DEF Next

-----------------------------------------------------------------------------
(* The replies, after a step that makes no connection and opens none.      *)

LEMMA WriteFacts ==
    ASSUME Struct, NEW s \in Sessions, NEW frame \in {"CONNECTED", "SEND", "ERROR"},
           Write(s, frame)
    PROVE  /\ \A r \in Sessions \ {s} : sent'[r] = sent[r]
           /\ Len(sent[s]) \in Nat
           /\ DOMAIN sent[s] = 1 .. Len(sent[s])
           /\ Len(sent'[s]) = Len(sent[s]) + 1
           /\ DOMAIN sent'[s] = 1 .. Len(sent[s]) + 1
           /\ sent'[s][Len(sent[s]) + 1] = frame
           /\ \A i \in DOMAIN sent[s] : sent'[s][i] = sent[s][i]
           /\ sent'[s] # <<>>
           /\ sent[s] = <<>> <=> Len(sent[s]) = 0
           /\ sent[s] # <<>> => Head(sent[s]) = sent[s][1]
           /\ Head(sent'[s]) = sent'[s][1]
<1>1. sent[s] \in Seq({"CONNECTED", "SEND", "ERROR"}) /\ sent'[s] = Append(sent[s], frame)
  BY DEF Write, Struct, TypeOK
<1>2. \A r \in Sessions \ {s} : sent'[r] = sent[r]
  BY DEF Write, Struct, TypeOK
<1> QED  BY <1>1, <1>2

LEMMA OwnersKept ==
    ASSUME Struct, OwnersAreOpened, StaysOpened, UNCHANGED owner
    PROVE  OwnersAreOpened'
BY DEF OwnersAreOpened, StaysOpened, Struct, TypeOK, IsPartial

(* A step that only forgets connections and writes nothing.                *)
LEMMA QuietKeepsReplies ==
    ASSUME Struct, Struct', Replies, StaysOpened, OnlyForgets, UNCHANGED sent
    PROVE  Replies'
<1>1. OwnersAreOpened'
  BY OwnersKept DEF OnlyForgets, Replies
<1>2. SentMatchesStatus'
  <2>1. ASSUME NEW s \in Sessions, stream'[s] \in Unopened
        PROVE  sent'[s] = <<>>
    BY <2>1 DEF StaysOpened, Replies, SentMatchesStatus, Opened, Unopened, Struct, TypeOK, WsTypeOK,
                Phases
  <2>2. ASSUME NEW s \in DOMAIN connections_'
        PROVE  IF Connected(s)' THEN FirstIsConnected(s)' ELSE sent'[s] = <<>>
    <3>1. s \in DOMAIN connections_ /\ (Connected(s)' <=> Connected(s))
      BY <2>2 DEF OnlyForgets, Connected, Registered
    <3>2. FirstIsConnected(s)' <=> FirstIsConnected(s)
      BY DEF FirstIsConnected
    <3> QED  BY <3>1, <3>2 DEF Replies, SentMatchesStatus
  <2> QED  BY <2>1, <2>2 DEF SentMatchesStatus
<1>3. ReplyOrder'
  BY DEF Replies, ReplyOrder, OnlyForgets, Registered
<1> QED  BY <1>1, <1>2, <1>3 DEF Replies

(* The new connection is on a session to which nothing was written.        *)
LEMMA OpenSessionReplies ==
    ASSUME Struct, Struct', Replies, StaysOpened, NEW s \in Sessions, OpenSession(s)
    PROVE  Replies'
<1>1. PICK new \in Ids \ DOMAIN owner :
          /\ connections_' = Extend(connections_, s, [id |-> new, status |-> "kPending"])
          /\ owner' = Extend(owner, new, s)
          /\ UNCHANGED sent
  BY DEF OpenSession, OnWsSessionConnectOk
<1>2. /\ stream[s] = "ws" /\ stream'[s] = "open"
      /\ \A r \in Sessions \ {s} : stream'[r] = stream[r]
  BY AdvanceFacts DEF OpenSession, OnHandshakeOk, Phases
<1>3. s \notin DOMAIN connections_ /\ sent[s] = <<>> /\ \A id \in DOMAIN owner : owner[id] # s
  BY <1>2 DEF Struct, Maps, RegisteredIsLive, Replies, SentMatchesStatus, OwnersAreOpened,
              Opened, Unopened
<1>4. OwnersAreOpened'
  <2>1. \A id \in DOMAIN owner : owner[id] \in Sessions /\ owner'[id] = owner[id]
    BY <1>1 DEF Extend, Struct, TypeOK, IsPartial
  <2>2. DOMAIN owner' = DOMAIN owner \cup {new} /\ owner'[new] = s
    BY <1>1 DEF Extend
  <2> QED  BY <1>2, <1>3, <2>1, <2>2 DEF Replies, OwnersAreOpened, StaysOpened, Opened
<1>5. SentMatchesStatus'
  <2>1. \A r \in Sessions : stream'[r] \in Unopened => sent'[r] = <<>>
    BY <1>1, <1>2, <1>3 DEF Replies, SentMatchesStatus
  <2>2. ASSUME NEW r \in DOMAIN connections_'
        PROVE  IF Connected(r)' THEN FirstIsConnected(r)' ELSE sent'[r] = <<>>
    <3>1. CASE r = s
      <4>1. ~Connected(r)'
        BY <1>1, <3>1 DEF Extend, Connected
      <4> QED  BY <1>1, <1>3, <3>1, <4>1
    <3>2. CASE r # s
      <4>1. r \in DOMAIN connections_ /\ connections_'[r] = connections_[r]
        BY <1>1, <3>2 DEF Extend
      <4>2. Connected(r)' <=> Connected(r)
        BY <2>2, <4>1 DEF Connected, Registered
      <4> QED  BY <1>1, <4>1, <4>2 DEF Replies, SentMatchesStatus, FirstIsConnected
    <3> QED  BY <3>1, <3>2
  <2> QED  BY <2>1, <2>2 DEF SentMatchesStatus
<1>6. ReplyOrder'
  <2> SUFFICES ASSUME NEW r \in Sessions, NEW i \in DOMAIN sent'[r]
               PROVE  /\ sent'[r][i] = "CONNECTED" => i = 1
                      /\ sent'[r][i] = "SEND" => sent'[r][1] = "CONNECTED"
                      /\ sent'[r][i] = "ERROR" => i = Len(sent'[r]) /\ ~Registered(r)'
    BY DEF ReplyOrder
  <2>1. r # s
    BY <1>1, <1>3
  <2> QED  BY <1>1, <2>1 DEF Replies, ReplyOrder, Registered, Extend
<1> QED  BY <1>4, <1>5, <1>6 DEF Replies

(* A frame is written on a registered session: CONNECTED to a pending one, *)
(* SEND to a connected one, or ERROR when it is unregistered.              *)
LEMMA WriteKeepsReplies ==
    ASSUME Struct, Struct', Replies, StaysOpened, UNCHANGED owner, NEW s \in DOMAIN connections_,
           NEW frame \in {"CONNECTED", "SEND", "ERROR"}, Write(s, frame),
           \A r \in DOMAIN connections_' :
               /\ r \in DOMAIN connections_
               /\ r # s => connections_'[r] = connections_[r],
           frame = "CONNECTED" => ~Connected(s) /\ Connected(s)',
           frame = "SEND" => Connected(s) /\ Connected(s)',
           frame = "ERROR" => ~Registered(s)'
    PROVE  Replies'
<1> DEFINE n == Len(sent[s]) + 1
<1>0. s \in Sessions /\ stream[s] \in Opened
  BY DEF Struct, TypeOK, IsPartial, Maps, RegisteredIsLive, Opened
<1>1. /\ \A r \in Sessions \ {s} : sent'[r] = sent[r]
      /\ Len(sent[s]) \in Nat
      /\ DOMAIN sent[s] = 1 .. Len(sent[s])
      /\ Len(sent'[s]) = n
      /\ DOMAIN sent'[s] = 1 .. n
      /\ sent'[s][n] = frame
      /\ \A i \in DOMAIN sent[s] : sent'[s][i] = sent[s][i]
      /\ sent'[s] # <<>>
      /\ sent[s] = <<>> <=> Len(sent[s]) = 0
      /\ sent[s] # <<>> => Head(sent[s]) = sent[s][1]
      /\ Head(sent'[s]) = sent'[s][1]
  BY <1>0, WriteFacts
<1>2. IF Connected(s) THEN n > 1 /\ sent'[s][1] = "CONNECTED" ELSE n = 1
  BY <1>1 DEF Replies, SentMatchesStatus, FirstIsConnected
<1>3. OwnersAreOpened'
  BY OwnersKept DEF Replies
<1>4. SentMatchesStatus'
  <2>1. \A r \in Sessions : stream'[r] \in Unopened => sent'[r] = <<>>
    BY <1>0, <1>1 DEF StaysOpened, Replies, SentMatchesStatus, Opened, Unopened, Struct, TypeOK,
                      WsTypeOK, Phases
  <2>2. ASSUME NEW r \in DOMAIN connections_'
        PROVE  IF Connected(r)' THEN FirstIsConnected(r)' ELSE sent'[r] = <<>>
    <3>1. CASE r = s
      <4>1. Connected(r)' /\ sent'[s][1] = "CONNECTED"
        BY <1>1, <1>2, <2>2, <3>1 DEF Registered
      <4> QED  BY <1>1, <3>1, <4>1 DEF FirstIsConnected
    <3>2. CASE r # s
      <4>1. r \in DOMAIN connections_ /\ connections_'[r] = connections_[r] /\ r \in Sessions
        BY <3>2 DEF Struct, TypeOK, IsPartial
      <4>2. Connected(r)' <=> Connected(r)
        BY <2>2, <4>1 DEF Connected, Registered
      <4> QED  BY <1>1, <3>2, <4>1, <4>2 DEF Replies, SentMatchesStatus, FirstIsConnected
    <3> QED  BY <3>1, <3>2
  <2> QED  BY <2>1, <2>2 DEF SentMatchesStatus
<1>5. ReplyOrder'
  <2> SUFFICES ASSUME NEW r \in Sessions, NEW i \in DOMAIN sent'[r]
               PROVE  /\ sent'[r][i] = "CONNECTED" => i = 1
                      /\ sent'[r][i] = "SEND" => sent'[r][1] = "CONNECTED"
                      /\ sent'[r][i] = "ERROR" => i = Len(sent'[r]) /\ ~Registered(r)'
    BY DEF ReplyOrder
  <2>1. CASE r # s
    BY <1>1, <2>1 DEF Replies, ReplyOrder, Registered
  <2>2. CASE r = s /\ i \in DOMAIN sent[s]
    <3>1. sent[s][i] # "ERROR" /\ n > 1
      BY <1>0, <1>1, <2>2 DEF Replies, ReplyOrder, Registered
    <3>2. sent[s][i] = "CONNECTED" => i = 1
      BY <1>0, <2>2 DEF Replies, ReplyOrder
    <3>3. sent'[s][1] = "CONNECTED"
      BY <1>2, <3>1
    <3> QED  BY <1>1, <2>2, <3>1, <3>2, <3>3
  <2>3. CASE r = s /\ i = n
    BY <1>1, <1>2, <2>3
  <2> QED  BY <1>1, <2>1, <2>2, <2>3
<1> QED  BY <1>3, <1>4, <1>5 DEF Replies

(* CloseConnection, with its ERROR frame or without.                       *)
LEMMA CloseReplies ==
    ASSUME Struct, Struct', Replies, StaysOpened, NEW s \in DOMAIN connections_,
           CloseOnError(s) \/ CloseSilently(s), UNCHANGED owner
    PROVE  Replies'
<1>1. Unregister(s) /\ OnlyForgets
  BY UnregisterForgets DEF CloseOnError, CloseSilently
<1>2. CASE CloseSilently(s)
  BY <1>1, <1>2, QuietKeepsReplies DEF CloseSilently
<1>3. CASE CloseOnError(s)
  <2>1. Write(s, "ERROR") /\ ~Registered(s)'
    BY <1>1, <1>3 DEF CloseOnError, Unregister, Without, Registered
  <2> QED  BY <1>1, <2>1, WriteKeepsReplies DEF OnlyForgets
<1> QED  BY <1>2, <1>3

LEMMA UserReplies ==
    ASSUME Struct, Struct', Replies, StaysOpened, UserCall
    PROVE  Replies'
<1>0. UNCHANGED owner /\ OnlyForgets
  BY UserForgets DEF UserCall
<1>1. CASE Run \/ Stop
  BY <1>0, <1>1, QuietKeepsReplies DEF Run, Stop
<1>2. ASSUME NEW id \in Ids, Send(id)
      PROVE  Replies'
  <2>1. PICK s \in DOMAIN connections_ : s = sessions_[id]
    BY <1>2 DEF Send, Struct, Maps, MapsInverse
  <2>2. Connected(s) /\ Write(s, "SEND") /\ UNCHANGED connections_
    BY <1>2, <2>1 DEF Send, Registered
  <2>3. Connected(s)'
    BY <2>2 DEF Connected, Registered
  <2> QED  BY <1>0, <2>2, <2>3, WriteKeepsReplies
<1>3. ASSUME NEW id \in Ids, Close(id)
      PROVE  Replies'
  <2>1. sessions_[id] \in DOMAIN connections_
    BY <1>3 DEF Close, Struct, Maps, MapsInverse
  <2>2. CloseSilently(sessions_[id])
    BY <1>3, <2>1 DEF Close, Registered
  <2> QED  BY <1>0, <2>1, <2>2, CloseReplies
<1> QED  BY <1>1, <1>2, <1>3 DEF UserCall

LEMMA ReadFrameReplies ==
    ASSUME Struct, Struct', Replies, StaysOpened,
           NEW s \in Sessions, NEW frame \in FrameKinds, ReadFrame(s, frame)
    PROVE  Replies'
<1>1. UNCHANGED owner
  BY DEF ReadFrame, OnWsSessionMessage
<1>2. CASE UNCHANGED <<connections_, sessions_, sent>>
  BY <1>1, <1>2, SameForgets, QuietKeepsReplies
<1>3. CASE Registered(s) /\ (CloseOnError(s) \/ CloseSilently(s))
  BY <1>1, <1>3, CloseReplies DEF Registered
<1>4. CASE /\ Registered(s) /\ ~Connected(s)
           /\ connections_' = [connections_ EXCEPT ![s].status = "kConnected"]
           /\ Write(s, "CONNECTED")
  <2>1. Connected(s)' /\ s \in DOMAIN connections_
    BY <1>4 DEF Connected, Registered, Struct, TypeOK, IsPartial
  <2> QED  BY <1>1, <1>4, <2>1, WriteKeepsReplies
<1> QED
  BY <1>2, <1>3, <1>4
  DEF ReadFrame, OnWsSessionMessage, HandleUnrecognized, HandleStomp, HandleSend, HandleInvalid

LEMMA StepReplies == Struct /\ Struct' /\ Replies /\ [Next]_vars => Replies'
<1> SUFFICES ASSUME Struct, Struct', Replies, [Next]_vars PROVE Replies'
  OBVIOUS
<1>0. StaysOpened
  BY StepStaysOpened
<1>1. ASSUME NEW s \in Sessions, SessionHandler(s)
      PROVE  Replies'
  <2>1. CASE OpenSession(s)
    BY <1>0, <2>1, OpenSessionReplies
  <2>2. CASE \E frame \in FrameKinds : ReadFrame(s, frame)
    BY <1>0, <2>2, ReadFrameReplies
  <2>3. CASE TlsHandshake(s) \/ RefuseSession(s) \/ FailRead(s)
    <3>1. UNCHANGED <<connections_, sessions_, owner, sent>>
      BY <2>3 DEF TlsHandshake, RefuseSession, FailRead, QuietStomp, OnWsSessionConnectError
    <3> QED  BY <1>0, <3>1, SameForgets, QuietKeepsReplies
  <2>4. CASE EndRead(s)
    <3>1. /\ UNCHANGED <<owner, sent>>
          /\ UNCHANGED <<connections_, sessions_>> \/ (Registered(s) /\ Unregister(s))
      BY <2>4 DEF EndRead, OnWsSessionDisconnect, QuietStomp
    <3> QED  BY <1>0, <3>1, SameForgets, UnregisterForgets, QuietKeepsReplies DEF Registered
  <2> QED  BY <1>1, <2>1, <2>2, <2>3, <2>4 DEF SessionHandler
<1>2. CASE AcceptorHandler
  <2>1. UNCHANGED <<connections_, sessions_, owner, sent>>
    BY <1>2 DEF AcceptorHandler, CompleteAccept, AcceptSession, EndAccept, QuietStomp, OnWsDisconnect
  <2> QED  BY <1>0, <2>1, SameForgets, QuietKeepsReplies
<1>3. CASE RunCallback \/ CallFromOutside \/ UNCHANGED vars
  <2>1. UserCall \/ UNCHANGED <<connections_, sessions_, owner, sent>>
    BY <1>3 DEF RunCallback, CallFromOutside, NoCall, vars, stompVars
  <2> QED  BY <1>0, <2>1, UserReplies, SameForgets, QuietKeepsReplies
<1> QED  BY <1>1, <1>2, <1>3 DEF Next

LEMMA InitReplies == Init => Replies
<1> SUFFICES ASSUME Init PROVE Replies
  OBVIOUS
<1>1. DOMAIN owner = {} /\ DOMAIN connections_ = {}
  BY DEF Init, EmptyMap
<1>2. \A s \in Sessions : sent[s] = <<>> /\ DOMAIN sent[s] = {}
  BY DEF Init
<1> QED  BY <1>1, <1>2 DEF Replies, OwnersAreOpened, SentMatchesStatus, ReplyOrder

(* The inductive invariant: ids and sessions are one to one, and what was  *)
(* written on a session fits the status of its connection.                 *)
THEOREM RepliesInvariant == Spec => []Replies
BY StructInvariant, InitReplies, StepReplies, PTL DEF Spec

(* A client reads CONNECTED first and once, and nothing after an ERROR,    *)
(* whichever handlers and calls of the user write to it                    *)
(* (stomp-server.h:200-301, 572-593, 595-666).                             *)
THEOREM RepliesInOrder == Spec => []ReplyOrder
<1>1. Replies => ReplyOrder
  BY DEF Replies
<1> QED  BY <1>1, RepliesInvariant, PTL

-----------------------------------------------------------------------------
(* The state of a client in the registry, under the mapping.               *)

SameFirst == \A s \in Sessions : FirstIsConnected(s)' <=> FirstIsConnected(s)

LEMMA StateFacts ==
    ASSUME Struct, Replies
    PROVE  /\ \A id \in Ids : id \in ConnectedIds <=>
                \E s \in DOMAIN connections_ : Connected(s) /\ connections_[s].id = id
           /\ \A id \in Ids : id \in ConnectedIds => WasConnected(id)
           /\ \A id \in Ids : WasConnected(id) <=>
                id \in DOMAIN owner /\ FirstIsConnected(owner[id])
           /\ ConnectedIds \subseteq Ids
<1>1. \A id \in Ids : id \in ConnectedIds <=>
          \E s \in DOMAIN connections_ : Connected(s) /\ connections_[s].id = id
  BY DEF ConnectedIds, Connected, Registered, Struct, TypeOK, IsPartial
<1>2. \A id \in Ids : WasConnected(id) <=> id \in DOMAIN owner /\ FirstIsConnected(owner[id])
  BY DEF WasConnected, FirstIsConnected
<1>3. \A s \in DOMAIN connections_ :
          connections_[s].id \in DOMAIN owner /\ owner[connections_[s].id] = s
  BY DEF Struct, Maps, OwnersMatch
<1>4. \A id \in Ids : id \in ConnectedIds => WasConnected(id)
  BY <1>1, <1>2, <1>3 DEF Replies, SentMatchesStatus
<1>5. ConnectedIds \subseteq Ids
  BY DEF ConnectedIds, Connected, Registered, Struct, TypeOK, IsPartial
<1> QED  BY <1>1, <1>2, <1>4, <1>5

LEMMA StateOf ==
    /\ \A id \in Ids : ClientState[id] = IF id \in ConnectedIds THEN "connected"
                                         ELSE IF WasConnected(id) THEN "gone" ELSE "unknown"
    /\ ClientState = [id \in Ids |-> ClientState[id]]
BY DEF ClientState

LEMMA StateAfter ==
    /\ \A id \in Ids : ClientState'[id] = IF id \in ConnectedIds' THEN "connected"
                                          ELSE IF WasConnected(id)' THEN "gone" ELSE "unknown"
    /\ ClientState' = [id \in Ids |-> ClientState'[id]]
BY DEF ClientState

LEMMA WasConnectedKept ==
    ASSUME Struct, SameFirst, UNCHANGED owner, NEW id \in Ids
    PROVE  WasConnected(id)' <=> WasConnected(id)
BY DEF SameFirst, WasConnected, FirstIsConnected, Struct, TypeOK, IsPartial

(* Forgetting connections dismisses their clients.                         *)
LEMMA ForgetDismisses ==
    ASSUME Struct, Struct', Replies, Replies', OnlyForgets, SameFirst
    PROVE  Registry!Dismiss
<1> DEFINE S == {id \in Ids : id \in ConnectedIds /\ id \notin ConnectedIds'}
<1>1. \A id \in Ids : WasConnected(id)' <=> WasConnected(id)
  BY WasConnectedKept DEF OnlyForgets
<1>2. \A id \in Ids : id \in ConnectedIds' => id \in ConnectedIds
  <2>1. \A s \in DOMAIN connections_' : Connected(s)' => Connected(s)
    BY DEF OnlyForgets, Connected, Registered
  <2>2. \A id \in Ids : id \in ConnectedIds' =>
            \E s \in DOMAIN connections_' : Connected(s)' /\ connections_'[s].id = id
    BY DEF ConnectedIds, Connected, Registered, Struct, TypeOK, IsPartial
  <2> QED  BY <2>1, <2>2, StateFacts DEF OnlyForgets
<1>3. \A id \in Ids : ClientState'[id] = IF id \in S THEN "gone" ELSE ClientState[id]
  BY <1>1, <1>2, StateFacts, StateOf, StateAfter
<1>4. ClientState' = [id \in Ids |-> IF id \in S THEN "gone" ELSE ClientState[id]]
  BY <1>3, StateAfter
<1>5. S \in SUBSET {id \in Ids : ClientState[id] = "connected"}
  BY StateOf
<1> QED  BY <1>4, <1>5 DEF Registry!Dismiss

LEMMA SameSent ==
    ASSUME UNCHANGED sent
    PROVE  SameFirst
BY DEF SameFirst, FirstIsConnected

LEMMA WriteSameFirst ==
    ASSUME Struct, Replies, NEW s \in DOMAIN connections_, NEW frame \in {"SEND", "ERROR"},
           Write(s, frame), frame = "SEND" => Connected(s)
    PROVE  SameFirst
<1>1. s \in Sessions
  BY DEF Struct, TypeOK, IsPartial
<1>2. /\ \A r \in Sessions \ {s} : sent'[r] = sent[r]
      /\ Len(sent[s]) \in Nat
      /\ DOMAIN sent[s] = 1 .. Len(sent[s])
      /\ sent'[s][Len(sent[s]) + 1] = frame
      /\ \A i \in DOMAIN sent[s] : sent'[s][i] = sent[s][i]
      /\ sent'[s] # <<>>
      /\ sent[s] = <<>> <=> Len(sent[s]) = 0
      /\ sent[s] # <<>> => Head(sent[s]) = sent[s][1]
      /\ Head(sent'[s]) = sent'[s][1]
  BY <1>1, WriteFacts
<1>3. frame = "SEND" => FirstIsConnected(s)
  BY DEF Replies, SentMatchesStatus
<1>4. FirstIsConnected(s)' <=> FirstIsConnected(s)
  BY <1>2, <1>3 DEF FirstIsConnected
<1> QED  BY <1>2, <1>4 DEF SameFirst, FirstIsConnected

-----------------------------------------------------------------------------
(* The steps as steps of the registry.                                     *)

LEMMA QuietImplements ==
    ASSUME Struct, Struct', Replies, Replies', OnlyForgets, SameFirst,
           UNCHANGED <<context_, announced, departed>>
    PROVE  Registry!Next
BY ForgetDismisses DEF Registry!Next

LEMMA OpenSessionImplements ==
    ASSUME Struct, Struct', Replies, Replies', NEW s \in Sessions, OpenSession(s)
    PROVE  UNCHANGED <<ClientState, context_, announced, departed>>
<1>1. PICK new \in Ids \ DOMAIN owner :
          /\ connections_' = Extend(connections_, s, [id |-> new, status |-> "kPending"])
          /\ owner' = Extend(owner, new, s)
          /\ UNCHANGED <<sent, context_, announced, departed>>
  BY DEF OpenSession, OnWsSessionConnectOk, Undelivered
<1>2. stream[s] = "ws"
  BY AdvanceFacts DEF OpenSession, OnHandshakeOk, Phases
<1>3. s \notin DOMAIN connections_ /\ sent[s] = <<>>
  BY <1>2 DEF Struct, Maps, RegisteredIsLive, Replies, SentMatchesStatus, Unopened
<1>4. ConnectedIds' = ConnectedIds
  <2>1. ~Connected(s)' /\ ~Connected(s)
    BY <1>1, <1>3 DEF Extend, Connected, Registered
  <2>2. \A r \in Sessions \ {s} :
            (Connected(r)' <=> Connected(r)) /\ (Connected(r) => connections_'[r] = connections_[r])
    BY <1>1 DEF Extend, Connected, Registered
  <2> QED  BY <2>1, <2>2 DEF ConnectedIds
<1>5. ASSUME NEW id \in Ids
      PROVE  WasConnected(id)' <=> WasConnected(id)
  <2>1. CASE id = new
    BY <1>1, <1>3, <2>1 DEF Extend, WasConnected
  <2>2. CASE id # new
    BY <1>1, <2>2 DEF Extend, WasConnected
  <2> QED  BY <2>1, <2>2
<1>6. ClientState' = ClientState
  <2>1. \A id \in Ids : ClientState'[id] = ClientState[id]
    BY <1>4, <1>5, StateOf, StateAfter
  <2> QED  BY <2>1, StateOf, StateAfter
<1> QED  BY <1>1, <1>6

LEMMA AcceptClientImplements ==
    ASSUME Struct, Struct', Replies, Replies', NEW s \in DOMAIN connections_, ~Connected(s),
           connections_' = [connections_ EXCEPT ![s].status = "kConnected"],
           Write(s, "CONNECTED"), Post(Event("connect", connections_[s].id)),
           UNCHANGED owner, Undelivered
    PROVE  Registry!Next
<1>1. PICK id \in Ids : id = connections_[s].id /\ id \in DOMAIN owner /\ owner[id] = s
  BY DEF Struct, TypeOK, IsPartial, Maps, OwnersMatch
<1>2. /\ \A r \in Sessions : Connected(r)' <=> Connected(r) \/ r = s
      /\ \A r \in DOMAIN connections_ : connections_'[r].id = connections_[r].id
      /\ DOMAIN connections_' = DOMAIN connections_ /\ s \in Sessions
  BY DEF Connected, Registered, Struct, TypeOK, IsPartial
<1>3. ConnectedIds' = ConnectedIds \cup {id}
  BY <1>1, <1>2 DEF ConnectedIds, Connected, Registered
<1>4. sent[s] = <<>> /\ ~FirstIsConnected(s) /\ \A r \in Sessions \ {s} : sent'[r] = sent[r]
  BY <1>2, WriteFacts DEF Replies, SentMatchesStatus, FirstIsConnected
<1>5. \A i \in Ids \ {id} : WasConnected(i)' <=> WasConnected(i)
  <2>1. \A i \in Ids \ {id} : i \in DOMAIN owner => owner[i] \in Sessions \ {s}
    BY <1>1 DEF Replies, OwnersAreOpened, Struct, TypeOK, IsPartial
  <2> QED  BY <1>4, <2>1 DEF WasConnected
<1>6. ClientState[id] = "unknown"
  <2>1. ~WasConnected(id)
    BY <1>1, <1>4 DEF WasConnected
  <2> QED  BY <2>1, StateFacts, StateOf
<1>7. ClientState' = [ClientState EXCEPT ![id] = "connected"]
  <2>1. \A i \in Ids : ClientState'[i] = IF i = id THEN "connected" ELSE ClientState[i]
    BY <1>3, <1>5, StateOf, StateAfter
  <2> QED  BY <2>1, StateOf, StateAfter
<1>8. Registry!Arrive(id)
  BY <1>1, <1>6, <1>7
  DEF Registry!Arrive, Registry!Tell, Registry!Event, Post, Event, Undelivered
<1> QED  BY <1>8 DEF Registry!Next

LEMMA SpeakImplements ==
    ASSUME Struct, Replies, NEW s \in DOMAIN connections_, Connected(s),
           Post(Event("message", connections_[s].id)),
           UNCHANGED <<connections_, owner, sent>>, Undelivered
    PROVE  Registry!Next
<1>1. PICK id \in Ids : id = connections_[s].id
  BY DEF Struct, TypeOK, IsPartial
<1>2. UNCHANGED ClientState
  BY DEF ClientState, ConnectedIds, Connected, Registered, WasConnected
<1>3. ClientState[id] = "connected"
  BY <1>1, StateFacts, StateOf
<1>4. Registry!Speak(id)
  BY <1>1, <1>2, <1>3
  DEF Registry!Speak, Registry!Tell, Registry!Event, Post, Event, Undelivered
<1> QED  BY <1>4 DEF Registry!Next

LEMMA LeaveImplements ==
    ASSUME Struct, Replies, NEW s \in DOMAIN connections_, Connected(s), Unregister(s),
           Post(Event("disconnect", connections_[s].id)),
           UNCHANGED <<owner, sent>>, Undelivered
    PROVE  Registry!Next
<1>1. PICK id \in Ids : id = connections_[s].id
  BY DEF Struct, TypeOK, IsPartial
<1>2. /\ \A r \in Sessions : Connected(r)' <=> Connected(r) /\ r # s
      /\ \A r \in DOMAIN connections_' : r \in DOMAIN connections_ /\ connections_'[r] = connections_[r]
      /\ \A r \in DOMAIN connections_ : connections_[r].id = id => r = s
  BY <1>1 DEF Unregister, Without, Connected, Registered, Struct, Maps, MapsInverse
<1>3. ConnectedIds' = ConnectedIds \ {id}
  BY <1>1, <1>2 DEF ConnectedIds, Connected, Registered
<1>4. \A i \in Ids : WasConnected(i)' <=> WasConnected(i)
  BY DEF WasConnected
<1>5. ClientState[id] = "connected" /\ WasConnected(id)
  BY <1>1, StateFacts, StateOf
<1>6. ClientState' = [ClientState EXCEPT ![id] = "gone"]
  <2>1. \A i \in Ids : ClientState'[i] = IF i = id THEN "gone" ELSE ClientState[i]
    BY <1>3, <1>4, <1>5, StateOf, StateAfter
  <2> QED  BY <2>1, StateOf, StateAfter
<1>7. Registry!Leave(id)
  BY <1>1, <1>5, <1>6
  DEF Registry!Leave, Registry!Tell, Registry!Event, Post, Event, Undelivered
<1> QED  BY <1>7 DEF Registry!Next

LEMMA UserSameFirst ==
    ASSUME Struct, Replies, UserCall
    PROVE  SameFirst
<1>1. CASE Run \/ Stop
  BY <1>1, SameSent DEF Run, Stop
<1>2. ASSUME NEW id \in Ids, Send(id)
      PROVE  SameFirst
  <2>1. PICK s \in DOMAIN connections_ : s = sessions_[id]
    BY <1>2 DEF Send, Struct, Maps, MapsInverse
  <2>2. Connected(s) /\ Write(s, "SEND")
    BY <1>2, <2>1 DEF Send, Registered
  <2> QED  BY <2>2, WriteSameFirst
<1>3. ASSUME NEW id \in Ids, Close(id)
      PROVE  SameFirst
  BY <1>3, SameSent DEF Close, CloseSilently
<1> QED  BY <1>1, <1>2, <1>3 DEF UserCall

(* A callback is run, with the call its user makes from it.                *)
LEMMA RunCallbackImplements ==
    ASSUME Struct, Struct', Replies, Replies', RunCallback
    PROVE  Registry!Next
<1>1. OnlyForgets /\ SameFirst
  <2>1. CASE UserCall
    BY <2>1, UserForgets, UserSameFirst
  <2>2. CASE NoCall
    BY <2>2, SameForgets, SameSent DEF NoCall
  <2> QED  BY <2>1, <2>2 DEF RunCallback
<1>2. Registry!Dismiss
  BY <1>1, ForgetDismisses
<1>3. TakeCallback
  BY DEF RunCallback
<1>4. Registry!Deliver
  BY <1>2, <1>3 DEF TakeCallback, Registry!Deliver, Registry!Event, Event
<1> QED  BY <1>4 DEF Registry!Next

LEMMA ReadFrameImplements ==
    ASSUME Struct, Struct', Replies, Replies',
           NEW s \in Sessions, NEW frame \in FrameKinds, ReadFrame(s, frame)
    PROVE  Registry!Next
<1>1. UNCHANGED owner /\ Undelivered
  BY DEF ReadFrame, OnWsSessionMessage
<1>2. CASE HandleUnrecognized(s)
  <2>1. OnlyForgets /\ SameFirst /\ UNCHANGED context_
    BY <1>1, <1>2, SameForgets, SameSent DEF HandleUnrecognized
  <2> QED  BY <1>1, <2>1, QuietImplements DEF Undelivered
<1>3. CASE Registered(s) /\ (CloseOnError(s) \/ CloseSilently(s)) /\ UNCHANGED context_
  <2>1. s \in DOMAIN connections_ /\ Unregister(s)
    BY <1>3 DEF Registered, CloseOnError, CloseSilently
  <2>2. SameFirst
    BY <1>3, <2>1, SameSent, WriteSameFirst DEF CloseOnError, CloseSilently
  <2> QED  BY <1>1, <1>3, <2>1, <2>2, UnregisterForgets, QuietImplements DEF Undelivered
<1>4. CASE /\ Registered(s) /\ ~Connected(s)
           /\ connections_' = [connections_ EXCEPT ![s].status = "kConnected"]
           /\ Write(s, "CONNECTED")
           /\ Post(Event("connect", connections_[s].id))
  BY <1>1, <1>4, AcceptClientImplements DEF Registered
<1>5. CASE /\ Connected(s)
           /\ Post(Event("message", connections_[s].id))
           /\ UNCHANGED <<connections_, sent>>
  BY <1>1, <1>5, SpeakImplements DEF Connected, Registered
<1> QED
  BY <1>2, <1>3, <1>4, <1>5
  DEF ReadFrame, OnWsSessionMessage, HandleStomp, HandleSend, HandleInvalid

LEMMA EndReadImplements ==
    ASSUME Struct, Struct', Replies, Replies', NEW s \in Sessions, EndRead(s)
    PROVE  Registry!Next
<1>1. UNCHANGED <<owner, sent>> /\ Undelivered
  BY DEF EndRead, OnWsSessionDisconnect, QuietStomp
<1>2. CASE /\ Registered(s) /\ Unregister(s) /\ Connected(s)
           /\ Post(Event("disconnect", connections_[s].id))
  BY <1>1, <1>2, LeaveImplements DEF Registered
<1>3. CASE /\ UNCHANGED context_
           /\ UNCHANGED <<connections_, sessions_>> \/ (Registered(s) /\ Unregister(s))
  <2>1. OnlyForgets
    BY <1>1, <1>3, SameForgets, UnregisterForgets DEF Registered
  <2> QED  BY <1>1, <1>3, <2>1, SameSent, QuietImplements DEF Undelivered
<1> QED
  BY <1>2, <1>3 DEF EndRead, OnWsSessionDisconnect, QuietStomp, Connected

(* The end of the accept loop is the only news without a client.           *)
LEMMA AcceptorHandlerImplements ==
    ASSUME Struct, Struct', Replies, Replies', AcceptorHandler
    PROVE  Registry!Next
<1>1. UNCHANGED <<connections_, sessions_, owner, sent>> /\ Undelivered
  BY DEF AcceptorHandler, CompleteAccept, AcceptSession, EndAccept, QuietStomp, OnWsDisconnect
<1>2. CASE UNCHANGED context_
  BY <1>1, <1>2, SameForgets, SameSent, QuietImplements DEF Undelivered
<1>3. CASE Post(ServerDown)
  <2>1. UNCHANGED ClientState
    BY <1>1 DEF ClientState, ConnectedIds, Connected, Registered, WasConnected
  <2>2. Registry!GoDown
    BY <1>1, <1>3, <2>1
    DEF Registry!GoDown, Registry!Tell, Registry!ServerDown, ServerDown, Post, Undelivered
  <2> QED  BY <2>2 DEF Registry!Next
<1> QED
  BY <1>2, <1>3
  DEF AcceptorHandler, CompleteAccept, AcceptSession, EndAccept, QuietStomp, OnWsDisconnect

LEMMA StepImplements ==
    Struct /\ Struct' /\ Replies /\ Replies' /\ [Next]_vars => [Registry!Next]_Registry!vars
<1> SUFFICES ASSUME Struct, Struct', Replies, Replies', [Next]_vars
             PROVE  [Registry!Next]_Registry!vars
  OBVIOUS
<1>1. ASSUME NEW s \in Sessions, SessionHandler(s)
      PROVE  [Registry!Next]_Registry!vars
  <2>1. CASE TlsHandshake(s) \/ RefuseSession(s) \/ FailRead(s)
    <3>1. UNCHANGED <<connections_, sessions_, owner, sent, context_, announced, departed>>
      BY <2>1
      DEF TlsHandshake, RefuseSession, FailRead, QuietStomp, OnWsSessionConnectError, Undelivered
    <3> QED  BY <3>1, SameForgets, SameSent, QuietImplements
  <2>2. CASE OpenSession(s)
    BY <2>2, OpenSessionImplements DEF Registry!vars
  <2>3. CASE \E frame \in FrameKinds : ReadFrame(s, frame)
    BY <2>3, ReadFrameImplements
  <2>4. CASE EndRead(s)
    BY <2>4, EndReadImplements
  <2> QED  BY <1>1, <2>1, <2>2, <2>3, <2>4 DEF SessionHandler
<1>2. CASE AcceptorHandler
  BY <1>2, AcceptorHandlerImplements
<1>3. CASE RunCallback
  BY <1>3, RunCallbackImplements
<1>4. CASE CallFromOutside
  <2>1. UserCall /\ UNCHANGED <<context_, announced, departed>>
    BY <1>4 DEF CallFromOutside, Undelivered
  <2> QED  BY <2>1, UserForgets, UserSameFirst, QuietImplements
<1>5. CASE UNCHANGED vars
  <2>1. UNCHANGED ClientState
    BY <1>5 DEF vars, stompVars, ClientState, ConnectedIds, Connected, Registered, WasConnected
  <2> QED  BY <1>5, <2>1 DEF vars, stompVars, Registry!vars
<1> QED  BY <1>1, <1>2, <1>3, <1>4, <1>5 DEF Next

LEMMA InitImplements == Init => Registry!Init
<1> SUFFICES ASSUME Init PROVE Registry!Init
  OBVIOUS
<1>1. ConnectedIds = {} /\ \A id \in Ids : ~WasConnected(id)
  BY DEF Init, EmptyMap, ConnectedIds, Connected, Registered, WasConnected
<1>2. ClientState = [id \in Ids |-> "unknown"]
  BY <1>1 DEF ClientState
<1> QED  BY <1>2 DEF Init, Registry!Init

(* The server implements the registry of lines 148-163: whatever the       *)
(* order of handlers, callbacks and calls of the user, what it tells the   *)
(* user is what a queue of news about clients would tell.                  *)
THEOREM ServerImplementsRegistry == Spec => ImplementsRegistry
BY StructInvariant, RepliesInvariant, InitImplements, StepImplements, PTL
DEF Spec, ImplementsRegistry, Registry!Spec
=============================================================================
