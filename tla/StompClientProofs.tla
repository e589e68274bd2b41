------------------------- MODULE StompClientProofs -------------------------
(***************************************************************************)
(* Proofs about StompClient: what the user is told of its subscriptions    *)
(* and of the end of the connection.                                       *)
(***************************************************************************)
EXTENDS StompClient, TLAPS

Failed(id) == Told(Event("subscribe", FALSE, id))
Live(id) ==
    \/ Told(Event("subscribe", TRUE, id))
    \/ \E ok \in BOOLEAN : Told(Event("event", ok, id))

(* Where a subscription is: at one place at a time, and at one at all      *)
(* unless Close cleared the map.  Before the stream is open, nothing that was     *)
(* written arrives.                                                        *)
Accounts ==
    /\ \A id \in Subs :
        /\ Failed(id) => id \notin writes /\ id \notin subscriptions_
        /\ Live(id) => id \notin writes /\ ~Failed(id)
        /\ id \in writes => id \notin subscriptions_
        /\ id \in writes \/ id \in subscriptions_ \/ Failed(id) \/ Live(id) => id \in requested
        /\ id \in requested /\ (~closed_ \/ phase = "idle") =>
            id \in writes \/ id \in subscriptions_ \/ Failed(id)
    /\ phase \notin Opened => writes \subseteq doomed /\ subscriptions_ = {}

DisconnectIsLast ==
    \A i, j \in DOMAIN context_ : i < j /\ context_[i] = Disconnected => ~context_[j].ok

NotConnected == Event("connect", FALSE, NoSub)

EndIsTold ==
    /\ phase = "done" => closed_ \/ Told(Disconnected)
    /\ Told(Disconnected) => phase = "done"
    /\ phase = "failed" => Told(NotConnected)

Inv == TypeOK /\ Accounts /\ EndIsTold /\ DisconnectIsLast

-----------------------------------------------------------------------------
(* What a step adds to what the user was told.  (Of messages no record is  *)
(* kept.)                                                                  *)
NothingTold ==
    /\ \A id \in Subs : (Failed(id)' <=> Failed(id)) /\ (Live(id)' <=> Live(id))
    /\ Told(Disconnected)' <=> Told(Disconnected)
    /\ Told(NotConnected) => Told(NotConnected)'

LEMMA KeptTells ==
    ASSUME \A e : e # Message => (Told(e)' <=> Told(e))
    PROVE  NothingTold
<1>1. /\ \A ok \in BOOLEAN, id \in Subs :
             Event("subscribe", ok, id) # Message /\ Event("event", ok, id) # Message
      /\ Disconnected # Message /\ NotConnected # Message
  BY DEF Event, Message, Disconnected, NotConnected
<1>2. /\ Told(Disconnected)' <=> Told(Disconnected)
      /\ Told(NotConnected) => Told(NotConnected)'
  BY <1>1 DEF Disconnected, NotConnected, Event
<1>3. \A ok \in BOOLEAN, id \in Subs :
          /\ Told(Event("subscribe", ok, id))' <=> Told(Event("subscribe", ok, id))
          /\ Told(Event("event", ok, id))' <=> Told(Event("event", ok, id))
  BY <1>1 DEF Event
<1> QED  BY <1>2, <1>3 DEF NothingTold, Failed, Live

LEMMA QuietTells ==
    ASSUME UNCHANGED <<context_, heard>>
    PROVE  NothingTold /\ (DisconnectIsLast => DisconnectIsLast')
BY KeptTells DEF Told, DisconnectIsLast

LEMMA PostTells ==
    ASSUME TypeOK, NEW e \in Callbacks, Post(e), UNCHANGED heard,
           ~Told(Disconnected) \/ ~e.ok
    PROVE  /\ \A id \in Subs : Failed(id)' <=> Failed(id) \/ e = Event("subscribe", FALSE, id)
           /\ \A id \in Subs :
                Live(id)' <=> \/ Live(id)
                              \/ e = Event("subscribe", TRUE, id)
                              \/ \E ok \in BOOLEAN : e = Event("event", ok, id)
           /\ Told(Disconnected)' <=> Told(Disconnected) \/ e = Disconnected
           /\ Told(NotConnected) \/ e = NotConnected => Told(NotConnected)'
           /\ DisconnectIsLast => DisconnectIsLast'
           /\ context_' \in Seq(Callbacks)
<1>1. /\ context_ \in Seq(Callbacks) /\ context_' = Append(context_, e)
      /\ Len(context_) \in Nat
      /\ DOMAIN context_ = 1 .. Len(context_)
      /\ DOMAIN context_' = 1 .. Len(context_) + 1
      /\ context_'[Len(context_) + 1] = e
      /\ \A i \in DOMAIN context_ : context_'[i] = context_[i]
  BY DEF TypeOK, Post
<1>2. Range(context_') = Range(context_) \cup {e}
  BY <1>1 DEF Range
<1>3. \A x : Told(x)' <=> Told(x) \/ x = e
  BY <1>2 DEF Told
<1>6. /\ Told(Disconnected)' <=> Told(Disconnected) \/ e = Disconnected
      /\ Told(NotConnected) \/ e = NotConnected => Told(NotConnected)'
  BY <1>3 DEF Disconnected, NotConnected, Event
<1>7. \A ok \in BOOLEAN, id \in Subs :
          /\ Told(Event("subscribe", ok, id))' <=>
                Told(Event("subscribe", ok, id)) \/ Event("subscribe", ok, id) = e
          /\ Told(Event("event", ok, id))' <=>
                Told(Event("event", ok, id)) \/ Event("event", ok, id) = e
  BY <1>3 DEF Event
<1>4. ASSUME DisconnectIsLast, NEW i \in DOMAIN context_', NEW j \in DOMAIN context_',
             i < j, context_'[i] = Disconnected
      PROVE  ~context_'[j].ok
  <2>1. i \in DOMAIN context_ /\ context_[i] = Disconnected
    BY <1>1, <1>4
  <2>2. CASE j \in DOMAIN context_
    BY <1>1, <1>4, <2>1, <2>2 DEF DisconnectIsLast
  <2>3. CASE j = Len(context_) + 1
    <3>1. Told(Disconnected)
      BY <2>1 DEF Told, Range
    <3> QED  BY <1>1, <2>3, <3>1
  <2> QED  BY <1>1, <2>2, <2>3
<1>5. DisconnectIsLast => DisconnectIsLast'
  BY <1>4 DEF DisconnectIsLast, Disconnected, Event
<1>8. \A id \in Subs : Failed(id)' <=> Failed(id) \/ e = Event("subscribe", FALSE, id)
  BY <1>7 DEF Failed
<1>9. ASSUME NEW id \in Subs
      PROVE  Live(id)' <=> \/ Live(id)
                           \/ e = Event("subscribe", TRUE, id)
                           \/ \E ok \in BOOLEAN : e = Event("event", ok, id)
  <2>1. Told(Event("subscribe", TRUE, id))' <=>
            Told(Event("subscribe", TRUE, id)) \/ Event("subscribe", TRUE, id) = e
    BY <1>7
  <2>2. \A ok \in BOOLEAN : Told(Event("event", ok, id))' <=>
            Told(Event("event", ok, id)) \/ Event("event", ok, id) = e
    BY <1>7
  <2> QED  BY <2>1, <2>2, Zenon DEF Live
<1>10. context_' \in Seq(Callbacks)
  BY <1>1
<1> QED  BY <1>5, <1>6, <1>8, <1>9, <1>10

LEMMA ConnectFailureTells ==
    ASSUME TypeOK, Post(Event("connect", FALSE, NoSub)), UNCHANGED heard
    PROVE  /\ NothingTold /\ Told(NotConnected)'
           /\ DisconnectIsLast => DisconnectIsLast'
           /\ context_' \in Seq(Callbacks)
<1>1. NotConnected \in Callbacks /\ ~NotConnected.ok
  BY DEF NotConnected, Event, Callbacks
<1>2. /\ NotConnected # Disconnected
      /\ \A id \in Subs, ok \in BOOLEAN :
            NotConnected # Event("subscribe", ok, id) /\ NotConnected # Event("event", ok, id)
  BY DEF NotConnected, Event, Disconnected
<1>3. Post(NotConnected)
  BY DEF NotConnected
<1> QED  BY <1>1, <1>2, <1>3, PostTells DEF NothingTold

LEMMA TakeTells ==
    ASSUME TypeOK, TakeCallback
    PROVE  /\ NothingTold
           /\ DisconnectIsLast => DisconnectIsLast'
           /\ context_' \in Seq(Callbacks)
           /\ heard' \subseteq Callbacks \cup SendHandlers
<1>1. /\ context_ \in Seq(Callbacks) /\ context_ # <<>>
      /\ context_' = Tail(context_) /\ context_' \in Seq(Callbacks)
      /\ heard' = heard \cup ({Head(context_)} \ {Message})
      /\ Head(context_) = context_[1] /\ Head(context_) \in Callbacks
      /\ Len(context_) \in Nat /\ Len(context_) > 0
      /\ DOMAIN context_ = 1 .. Len(context_)
      /\ DOMAIN context_' = 1 .. Len(context_) - 1
      /\ \A i \in DOMAIN context_' : context_'[i] = context_[i + 1]
  BY DEF TypeOK, TakeCallback
<1>2. Range(context_) = Range(context_') \cup {Head(context_)}
  <2>1. ASSUME NEW i \in DOMAIN context_
        PROVE  context_[i] \in Range(context_') \cup {Head(context_)}
    <3>1. i = 1 \/ (i - 1 \in DOMAIN context_' /\ context_'[i - 1] = context_[i])
      BY <1>1
    <3> QED  BY <1>1, <3>1 DEF Range
  <2>2. ASSUME NEW i \in DOMAIN context_'
        PROVE  context_'[i] \in Range(context_)
    <3>1. i + 1 \in DOMAIN context_
      BY <1>1
    <3> QED  BY <1>1, <3>1 DEF Range
  <2>3. Head(context_) \in Range(context_)
    BY <1>1 DEF Range
  <2> QED  BY <2>1, <2>2, <2>3 DEF Range
<1>3. NothingTold
  BY <1>1, <1>2, KeptTells DEF Told
<1>4. DisconnectIsLast => DisconnectIsLast'
  <2>1. \A i \in DOMAIN context_' : i + 1 \in DOMAIN context_ /\ i \in Int
    BY <1>1
  <2> QED  BY <1>1, <2>1 DEF DisconnectIsLast, Disconnected, Event
<1>5. heard' \subseteq Callbacks \cup SendHandlers
  BY <1>1 DEF TypeOK
<1> QED  BY <1>1, <1>3, <1>4, <1>5

-----------------------------------------------------------------------------
(* The steps.                                                              *)

LEMMA ConnectSteps ==
    ASSUME Inv, Connect \/ ConnectStep, UNCHANGED heard
    PROVE  Inv'
<1>1. CASE Connect \/ Proceed
  <2>1. NothingTold /\ DisconnectIsLast'
    BY <1>1, QuietTells DEF Connect, Proceed, Inv
  <2>2. TypeOK' /\ phase' \in Connecting /\ phase \in Connecting \cup {"idle"}
    <3>1. /\ DOMAIN NextStep = {"resolving", "connecting", "tls"}
          /\ \A p \in DOMAIN NextStep : NextStep[p] \in Connecting
      BY DEF NextStep, Connecting
    <3>2. CASE Connect
      BY <3>2 DEF Connect, Connecting, Phases, Inv, TypeOK
    <3>3. CASE Proceed
      <4>1. phase \in Connecting /\ phase' \in Connecting
        BY <3>1, <3>3 DEF Proceed, Connecting
      <4> QED  BY <3>3, <4>1 DEF Proceed, Phases, Inv, TypeOK
    <3> QED  BY <1>1, <3>2, <3>3
  <2>3. Accounts'
    BY <1>1, <2>1, <2>2 DEF Connect, Proceed, NothingTold, Inv, Accounts, Connecting, Opened
  <2>4. EndIsTold'
    BY <2>1, <2>2 DEF NothingTold, Inv, EndIsTold, Connecting
  <2> QED  BY <2>1, <2>2, <2>3, <2>4 DEF Inv
<1>2. CASE ConnectFails
  <2>1. phase \in Connecting /\ phase' = "failed"
    BY <1>2 DEF ConnectFails
  <2>2. /\ NothingTold /\ Told(NotConnected)'
        /\ DisconnectIsLast' /\ context_' \in Seq(Callbacks)
    BY <1>2, ConnectFailureTells DEF ConnectFails, Inv
  <2>3. TypeOK'
    BY <1>2, <2>2 DEF ConnectFails, Phases, Inv, TypeOK
  <2>4. Accounts'
    BY <1>2, <2>1, <2>2 DEF ConnectFails, NothingTold, Inv, Accounts, Connecting, Opened
  <2>5. EndIsTold'
    BY <2>1, <2>2 DEF NothingTold, Inv, EndIsTold, Connecting
  <2> QED  BY <2>2, <2>3, <2>4, <2>5 DEF Inv
<1>3. CASE OnHandshake
  <2>1. NothingTold /\ DisconnectIsLast'
    BY <1>3, QuietTells DEF OnHandshake, Inv
  <2>2. TypeOK' /\ phase = "ws" /\ phase' = "open"
    BY <1>3 DEF OnHandshake, Writes, Phases, Inv, TypeOK
  <2>3. Accounts'
    BY <1>3, <2>1, <2>2, IdsAssumption DEF OnHandshake, NothingTold, Inv, Accounts, Opened
  <2>4. EndIsTold'
    BY <2>1, <2>2 DEF NothingTold, Inv, EndIsTold
  <2> QED  BY <2>1, <2>2, <2>3, <2>4 DEF Inv
<1> QED  BY <1>1, <1>2, <1>3 DEF ConnectStep

LEMMA WriteSteps ==
    ASSUME Inv, WriteStep, UNCHANGED heard
    PROVE  Inv'
<1>1. ASSUME NEW w \in Writes, WriteSucceeds(w)
      PROVE  Inv'
  <2>1. NothingTold /\ DisconnectIsLast'
    BY <1>1, QuietTells DEF WriteSucceeds, Inv
  <2>2. TypeOK' /\ UNCHANGED <<phase, closed_>>
    BY <1>1 DEF WriteSucceeds, Inv, TypeOK
  <2>3. Accounts'
    BY <1>1, <2>1, <2>2 DEF WriteSucceeds, NothingTold, Inv, Accounts
  <2>4. EndIsTold'
    BY <2>1, <2>2 DEF NothingTold, Inv, EndIsTold
  <2> QED  BY <2>1, <2>2, <2>3, <2>4 DEF Inv
<1>2. CASE OnWsSendStompFails
  <2>2. NothingTold /\ DisconnectIsLast' /\ context_' \in Seq(Callbacks)
    BY <1>2, ConnectFailureTells DEF OnWsSendStompFails, Inv
  <2>3. TypeOK' /\ UNCHANGED <<phase, closed_>>
    BY <1>2, <2>2 DEF OnWsSendStompFails, Inv, TypeOK
  <2>4. Accounts'
    BY <1>2, <2>2, <2>3, IdsAssumption DEF OnWsSendStompFails, NothingTold, Inv, Accounts
  <2>5. EndIsTold'
    BY <2>2, <2>3 DEF NothingTold, Inv, EndIsTold
  <2> QED  BY <2>2, <2>3, <2>4, <2>5 DEF Inv
<1>3. ASSUME NEW sub \in Subs, OnWsSendSubscribeFails(sub)
      PROVE  Inv'
  <2> DEFINE e == Event("subscribe", FALSE, sub)
  <2>1. e \in Callbacks /\ ~e.ok
    BY DEF Event, Callbacks
  <2>2. /\ \A id \in Subs : Failed(id)' <=> Failed(id) \/ e = Event("subscribe", FALSE, id)
        /\ \A id \in Subs :
            Live(id)' <=> \/ Live(id)
                          \/ e = Event("subscribe", TRUE, id)
                          \/ \E ok \in BOOLEAN : e = Event("event", ok, id)
        /\ Told(Disconnected)' <=> Told(Disconnected) \/ e = Disconnected
        /\ Told(NotConnected) => Told(NotConnected)'
        /\ DisconnectIsLast' /\ context_' \in Seq(Callbacks)
    <3> HIDE DEF e
    <3>1. Post(e) /\ UNCHANGED heard
      BY <1>3 DEF OnWsSendSubscribeFails, e
    <3> QED  BY <2>1, <3>1, PostTells DEF Inv
  <2>3. TypeOK' /\ UNCHANGED <<phase, closed_>>
    BY <1>3, <2>2 DEF OnWsSendSubscribeFails, Inv, TypeOK
  <2>4. /\ \A id \in Subs : Failed(id)' <=> Failed(id) \/ id = sub
        /\ \A id \in Subs : Live(id)' <=> Live(id)
        /\ Told(Disconnected)' <=> Told(Disconnected)
        /\ Told(NotConnected) => Told(NotConnected)'
    BY <2>2 DEF Event, Disconnected
  <2>5. Accounts'
    BY <1>3, <2>3, <2>4 DEF OnWsSendSubscribeFails, Inv, Accounts
  <2>6. EndIsTold'
    BY <2>3, <2>4 DEF Inv, EndIsTold
  <2> QED  BY <2>2, <2>3, <2>5, <2>6 DEF Inv
<1> QED  BY <1>1, <1>2, <1>3 DEF WriteStep

(* A handler of Send is called at once, and tells nothing else.            *)
LEMMA SendEndsStep ==
    ASSUME Inv, NEW req \in Requests, NEW ok \in BOOLEAN, SendEnds(req, ok)
    PROVE  Inv'
<1>1. /\ \A id \in Subs : id \in writes' <=> id \in writes
      /\ writes' \subseteq writes /\ doomed' = doomed \ {req} /\ writes' = writes \ {req}
      /\ UNCHANGED <<phase, closed_, subscriptions_, requested, context_>>
  BY IdsAssumption DEF SendEnds
<1>2. DisconnectIsLast => DisconnectIsLast'
  BY DEF SendEnds, DisconnectIsLast
<1>3. /\ \A id \in Subs : Failed(id)' <=> Failed(id)
      /\ \A id \in Subs : Live(id)' <=> Live(id)
      /\ Told(Disconnected)' <=> Told(Disconnected)
      /\ Told(NotConnected) => Told(NotConnected)'
  BY DEF SendEnds, Told, Failed, Live, Event, Disconnected, NotConnected
<1>4. TypeOK'
  <2>1. Event("send", ok, req) \in SendHandlers
    BY DEF Event, SendHandlers
  <2> QED  BY <1>1, <2>1 DEF SendEnds, Inv, TypeOK
<1>5. Accounts' /\ EndIsTold'
  BY <1>1, <1>3 DEF Inv, Accounts, EndIsTold
<1> QED  BY <1>2, <1>4, <1>5 DEF Inv

(* What a frame makes the client post: of a subscription, only news of one *)
(* that is saved.                                                          *)
LEMMA ReactionPosts ==
    ASSUME Inv, NEW frame \in FrameKinds, OnWsMessage(frame)
    PROVE  \/ UNCHANGED context_
           \/ \E e \in Callbacks :
                /\ Post(e)
                /\ e.cb \in {"connect", "message"} \/
                    (e.id \in subscriptions_ /\ \/ e.cb = "subscribe" /\ e.ok
                                                \/ e.cb = "event")
<1>0. /\ context_ \in Seq(Callbacks) /\ context_' = context_ \o Reaction(frame)
      /\ subscriptions_ \subseteq Subs
  BY DEF OnWsMessage, Inv, TypeOK
<1>1. \A e \in Callbacks : context_ \o <<e>> = Append(context_, e)
  BY <1>0
<1>3. CASE Reaction(frame) = <<>>
  BY <1>0, <1>3
<1>4. ASSUME NEW e \in Callbacks, Reaction(frame) = <<e>>
      PROVE  Post(e)
  BY <1>0, <1>1, <1>4 DEF Post
<1>5. \/ Reaction(frame) = <<>>
      \/ \E ok \in BOOLEAN : Reaction(frame) = <<Event("connect", ok, NoSub)>>
      \/ Reaction(frame) = <<Message>>
      \/ frame.id \in subscriptions_ /\ Reaction(frame) = <<Event("subscribe", TRUE, frame.id)>>
      \/ \E ok \in BOOLEAN :
          frame.id \in subscriptions_ /\ Reaction(frame) = <<Event("event", ok, frame.id)>>
  BY DEF Reaction
<1>7. CASE \E ok \in BOOLEAN : Reaction(frame) = <<Event("connect", ok, NoSub)>>
  <2>1. PICK ok \in BOOLEAN : Reaction(frame) = <<Event("connect", ok, NoSub)>>
    BY <1>7
  <2>2. Event("connect", ok, NoSub) \in Callbacks /\ Event("connect", ok, NoSub).cb = "connect"
    BY DEF Event, Callbacks
  <2> QED  BY <1>4, <2>1, <2>2
<1>8. CASE Reaction(frame) = <<Message>>
  <2>1. Message \in Callbacks /\ Message.cb = "message"
    BY DEF Message, Event, Callbacks
  <2> QED  BY <1>4, <1>8, <2>1
<1>9. CASE frame.id \in subscriptions_ /\ Reaction(frame) = <<Event("subscribe", TRUE, frame.id)>>
  <2> DEFINE e == Event("subscribe", TRUE, frame.id)
  <2>1. e \in Callbacks /\ e.cb = "subscribe" /\ e.ok /\ e.id = frame.id
    BY <1>0, <1>9 DEF Event, Callbacks
  <2>2. Post(e)
    BY <1>4, <1>9, <2>1
  <2> QED  BY <1>9, <2>1, <2>2
<1>10. CASE \E ok \in BOOLEAN :
              frame.id \in subscriptions_ /\ Reaction(frame) = <<Event("event", ok, frame.id)>>
  <2>1. PICK ok \in BOOLEAN :
            frame.id \in subscriptions_ /\ Reaction(frame) = <<Event("event", ok, frame.id)>>
    BY <1>10
  <2> DEFINE e == Event("event", ok, frame.id)
  <2>2. e \in Callbacks /\ e.cb = "event" /\ e.id = frame.id
    BY <1>0, <2>1 DEF Event, Callbacks
  <2>3. Post(e)
    BY <1>4, <2>1, <2>2
  <2> QED  BY <2>1, <2>2, <2>3
<1> QED  BY <1>3, <1>5, <1>7, <1>8, <1>9, <1>10

LEMMA ReadSteps ==
    ASSUME Inv, ReadStep, UNCHANGED heard
    PROVE  Inv'
<1>1. ASSUME NEW frame \in FrameKinds, OnWsMessage(frame)
      PROVE  Inv'
  <2>0. phase = "open" /\ UNCHANGED connectionVars
    BY <1>1 DEF OnWsMessage
  <2>1. CASE UNCHANGED context_
    BY <2>0, <2>1
    DEF Inv, TypeOK, Accounts, EndIsTold, DisconnectIsLast, Failed, Live, Told, connectionVars
  <2>2. ASSUME NEW e \in Callbacks, Post(e),
               e.cb \in {"connect", "message"} \/
                 (e.id \in subscriptions_ /\ \/ e.cb = "subscribe" /\ e.ok
                                             \/ e.cb = "event")
        PROVE  Inv'
    <3>1. /\ \A id \in Subs : Failed(id)' <=> Failed(id) \/ e = Event("subscribe", FALSE, id)
          /\ \A id \in Subs :
                Live(id)' <=> \/ Live(id)
                              \/ e = Event("subscribe", TRUE, id)
                              \/ \E ok \in BOOLEAN : e = Event("event", ok, id)
          /\ Told(Disconnected)' <=> Told(Disconnected) \/ e = Disconnected
          /\ Told(NotConnected) => Told(NotConnected)'
          /\ DisconnectIsLast' /\ context_' \in Seq(Callbacks)
      BY <2>0, <2>2, PostTells DEF Inv, EndIsTold
    <3>2. /\ \A id \in Subs : Failed(id)' <=> Failed(id)
          /\ \A id \in Subs : Live(id)' => Live(id) \/ id \in subscriptions_
          /\ Told(Disconnected)' <=> Told(Disconnected)
          /\ Told(NotConnected) => Told(NotConnected)'
      BY <2>2, <3>1 DEF Event, Disconnected
    <3>3. \A id \in Subs : Live(id) => Live(id)'
      BY <3>1
    <3>4. TypeOK'
      BY <2>0, <3>1 DEF Inv, TypeOK, connectionVars
    <3>5. Accounts'
      BY <2>0, <3>2, <3>3 DEF Inv, Accounts, connectionVars
    <3>6. EndIsTold'
      BY <2>0, <3>2 DEF Inv, EndIsTold, connectionVars
    <3> QED  BY <3>1, <3>4, <3>5, <3>6 DEF Inv
  <2> QED  BY <1>1, <2>1, <2>2, ReactionPosts
<1>2. CASE OnReadError
  <2>1. NothingTold /\ DisconnectIsLast'
    BY <1>2, QuietTells DEF OnReadError, Inv
  <2>2. TypeOK'
    BY <1>2 DEF OnReadError, Phases, Inv, TypeOK
  <2>3. Accounts'
    BY <1>2, <2>1 DEF OnReadError, NothingTold, Inv, Accounts, Opened
  <2>4. EndIsTold'
    BY <1>2, <2>1 DEF OnReadError, NothingTold, Inv, EndIsTold
  <2> QED  BY <2>1, <2>2, <2>3, <2>4 DEF Inv
<1>3. CASE OnReadAborted
  <2>0. phase \in {"open", "broken"} /\ phase' = "done" /\ ~Told(Disconnected)
    BY <1>3 DEF OnReadAborted, Inv, EndIsTold
  <2>1. /\ \A id \in Subs : Failed(id)' <=> Failed(id)
        /\ \A id \in Subs : Live(id)' <=> Live(id)
        /\ ~closed_ => Told(Disconnected)'
        /\ DisconnectIsLast' /\ context_' \in Seq(Callbacks)
    <3>1. CASE closed_
      BY <1>3, <3>1, QuietTells DEF OnReadAborted, NothingTold, Inv, TypeOK
    <3>2. CASE ~closed_
      <4>1. Disconnected \in Callbacks
        BY DEF Disconnected, Event, Callbacks
      <4>2. \A id \in Subs, ok \in BOOLEAN :
                Disconnected # Event("subscribe", ok, id) /\ Disconnected # Event("event", ok, id)
        BY DEF Disconnected, Event
      <4>3. Post(Disconnected)
        BY <1>3, <3>2 DEF OnReadAborted, Disconnected
      <4> QED  BY <2>0, <4>1, <4>2, <4>3, PostTells DEF Inv
    <3> QED  BY <3>1, <3>2
  <2>3. TypeOK'
    BY <1>3, <2>1 DEF OnReadAborted, Phases, Inv, TypeOK
  <2>4. Accounts'
    BY <1>3, <2>0, <2>1 DEF OnReadAborted, Inv, Accounts, Opened
  <2>5. EndIsTold'
    BY <1>3, <2>0, <2>1 DEF OnReadAborted, EndIsTold
  <2> QED  BY <2>1, <2>3, <2>4, <2>5 DEF Inv
<1> QED  BY <1>1, <1>2, <1>3 DEF ReadStep

(* A call of the user, alone or from a callback.                           *)
LEMMA UserSteps ==
    ASSUME Inv, UserCall \/ UNCHANGED connectionVars,
           TakeCallback \/ UNCHANGED <<context_, heard>>
    PROVE  Inv'
<1>1. /\ NothingTold /\ DisconnectIsLast' /\ context_' \in Seq(Callbacks)
      /\ heard' \subseteq Callbacks \cup SendHandlers
  BY QuietTells, TakeTells DEF Inv, TypeOK
<1>2. /\ \A id \in Subs : Failed(id)' <=> Failed(id)
      /\ \A id \in Subs : Live(id)' <=> Live(id)
      /\ Told(Disconnected)' <=> Told(Disconnected)
      /\ Told(NotConnected) => Told(NotConnected)'
  BY <1>1 DEF NothingTold
<1>3. ASSUME NEW new \in Subs \cup Requests, StartWrite(new)
      PROVE  Inv'
  <2>1. TypeOK'
    BY <1>1, <1>3 DEF StartWrite, Writes, Inv, TypeOK
  <2>2. Accounts'
    BY <1>2, <1>3 DEF StartWrite, Inv, Accounts, Opened
  <2>3. EndIsTold'
    BY <1>2, <1>3 DEF StartWrite, Inv, EndIsTold
  <2> QED  BY <1>1, <2>1, <2>2, <2>3 DEF Inv
<1>4. CASE Subscribe
  <2>1. PICK new \in Subs : new = CHOOSE id \in Subs : id \notin requested
    BY <1>4 DEF Subscribe
  <2> QED  BY <1>3, <1>4, <2>1 DEF Subscribe
<1>5. CASE Send
  BY <1>3, <1>5 DEF Send
<1>6. CASE Close
  BY <1>1, <1>2, <1>6 DEF Close, Inv, TypeOK, Accounts, EndIsTold, Opened
<1>7. CASE UNCHANGED connectionVars
  BY <1>1, <1>2, <1>7 DEF connectionVars, Inv, TypeOK, Accounts, EndIsTold
<1> QED  BY <1>4, <1>5, <1>6, <1>7 DEF UserCall

-----------------------------------------------------------------------------
LEMMA InitInv == Init => Inv
<1> SUFFICES ASSUME Init PROVE Inv
  OBVIOUS
<1>1. \A e : ~Told(e)
  BY DEF Init, Told, Range
<1>2. TypeOK /\ DisconnectIsLast
  BY DEF Init, TypeOK, Phases, DisconnectIsLast
<1>3. ~Told(Disconnected) /\ \A id \in Subs : ~Failed(id) /\ ~Live(id)
  BY <1>1, Zenon DEF Failed, Live
<1> QED  BY <1>2, <1>3 DEF Init, Inv, Accounts, EndIsTold

LEMMA StepInv == Inv /\ [Next]_vars => Inv'
<1> SUFFICES ASSUME Inv, [Next]_vars PROVE Inv'
  OBVIOUS
<1>1. CASE (Connect \/ ConnectStep \/ WriteStep \/ ReadStep) /\ UNCHANGED heard
  BY <1>1, ConnectSteps, WriteSteps, ReadSteps
<1>2. CASE AnySendEnds
  BY <1>2, SendEndsStep DEF AnySendEnds
<1>3. CASE RunCallback \/ CallFromOutside \/ UNCHANGED vars
  <2>1. /\ UserCall \/ UNCHANGED connectionVars
        /\ TakeCallback \/ UNCHANGED <<context_, heard>>
    BY <1>3 DEF RunCallback, CallFromOutside, vars
  <2> QED  BY <2>1, UserSteps
<1> QED  BY <1>1, <1>2, <1>3 DEF Next

(* The inductive invariant: where each subscription is, what was told of   *)
(* it, and what was told of the end.                                       *)
THEOREM ClientInvariant == Spec => []Inv
BY InitInv, StepInv, PTL DEF Spec

(* The client's state is of the type its maps and queues have.             *)
THEOREM TypeCorrect == Spec => []TypeOK
<1>1. Inv => TypeOK
  BY DEF Inv
<1> QED  BY <1>1, ClientInvariant, PTL

(* Every subscription is being written, saved or reported as failed, and   *)
(* only one of these (stomp-client.h:438-461).                             *)
THEOREM NoSubscriptionLost == Spec => []SubscriptionsAccounted
<1>1. Inv => SubscriptionsAccounted
  <2> SUFFICES ASSUME Inv PROVE SubscriptionsAccounted
    OBVIOUS
  <2> DEFINE failed == {id \in Subs : Told(Event("subscribe", FALSE, id))}
  <2>1. \A id \in Subs : id \in failed <=> Failed(id)
    BY DEF Failed
  <2>2. subscriptions_ \subseteq Subs
    BY DEF Inv, TypeOK
  <2>3. ~closed_ => requested \cap Subs = (writes \cap Subs) \cup subscriptions_ \cup failed
    BY <2>1, <2>2 DEF Inv, Accounts
  <2>4. failed \cap (writes \cup subscriptions_) = {}
    BY <2>1 DEF Inv, Accounts
  <2> QED  BY <2>3, <2>4 DEF SubscriptionsAccounted
<1> QED  BY <1>1, ClientInvariant, PTL

(* Nobody hears of a receipt or an event of a subscription that was        *)
(* reported as failed, before or after (stomp-client.h:438-461, 514-581).  *)
THEOREM FailureIsFinal == Spec => []FailedIsNeverLive
<1>1. Inv => FailedIsNeverLive
  BY DEF Inv, Accounts, FailedIsNeverLive, Failed, Live
<1> QED  BY <1>1, ClientInvariant, PTL

(* The end of the connection is reported unless Close was called, and is   *)
(* the last thing the server's side makes the client say                   *)
(* (websocket-client.h:281-297, stomp-client.h:422-436).                   *)
THEOREM EndOfConnectionReported == Spec => []EndIsReported
<1>1. Inv => EndIsReported
  BY DEF Inv, EndIsTold, DisconnectIsLast, EndIsReported
<1> QED  BY <1>1, ClientInvariant, PTL
-----------------------------------------------------------------------------
(* The client keeps the promises of ClientSubscriptions.                   *)

(* The fates of the subscriptions, one by one, before and after a step.    *)
LEMMA FateAfter ==
    ASSUME NEW id \in Subs
    PROVE  /\ Fates[id] = Fate(id)
           /\ Fates'[id] =
                IF id \notin requested' THEN "new"
                ELSE IF id \in writes' THEN "asked"
                ELSE IF id \in subscriptions_' THEN "saved"
                ELSE IF Failed(id)' THEN "failed" ELSE "dropped"
           /\ Fates = [i \in Subs |-> Fates[i]] /\ Fates' = [i \in Subs |-> Fates'[i]]
BY DEF Fates, Fate, Failed

LEMMA FatesKept ==
    ASSUME \A id \in Subs : (Failed(id)' <=> Failed(id)) /\ (id \in writes' <=> id \in writes),
           UNCHANGED <<requested, subscriptions_>>
    PROVE  UNCHANGED Fates
<1>1. \A id \in Subs : Fates'[id] = Fates[id]
  BY FateAfter DEF Fate, Failed
<1> QED  BY <1>1 DEF Fates

(* One subscription has another fate, the others do not.                   *)
LEMMA FateTurns ==
    ASSUME NEW id \in Subs, NEW from, NEW to, Fates[id] = from, Fates'[id] = to,
           \A i \in Subs \ {id} :
                /\ Failed(i)' <=> Failed(i)
                /\ i \in writes' <=> i \in writes
                /\ i \in requested' <=> i \in requested
                /\ i \in subscriptions_' <=> i \in subscriptions_
    PROVE  Promise!Turn(id, from, to)
<1>1. \A i \in Subs \ {id} : Fates'[i] = Fates[i]
  BY FateAfter DEF Fate, Failed
<1>2. Fates' = [Fates EXCEPT ![id] = to]
  BY <1>1 DEF Fates
<1> QED  BY <1>2 DEF Promise!Turn

LEMMA EventsAgree ==
    /\ \A cb, ok, id : Promise!Event(cb, ok, id) = Event(cb, ok, id)
    /\ Promise!NotConnected = NotConnected /\ Promise!Message = Message
BY DEF Promise!Event, Promise!NotConnected, Promise!Message, Event, NotConnected, Message

LEMMA PostsAreTold ==
    /\ \A e : Post(e) /\ UNCHANGED heard => Promise!Tell(e)
    /\ UNCHANGED <<context_, heard>> => Promise!SayNothing
BY DEF Promise!Tell, Promise!SayNothing, Post

LEMMA ConnectStepsPromised ==
    ASSUME Inv, Connect \/ ConnectStep, UNCHANGED heard
    PROVE  [Promise!Next]_(Promise!vars)
<1>1. CASE Connect \/ Proceed
  <2>1. UNCHANGED Fates
    BY <1>1, QuietTells, FatesKept DEF Connect, Proceed, NothingTold
  <2>2. CASE Connect
    <3>1. Link = "idle" /\ Link' = "trying" /\ closed_' = FALSE
      BY <2>2 DEF Connect, Link, Connecting
    <3>2. Promise!Try
      BY <2>1, <2>2, <3>1, PostsAreTold DEF Connect, Promise!Try
    <3> QED  BY <3>2 DEF Promise!Next
  <2>3. CASE Proceed
    <3>1. phase \in Connecting /\ phase' \in Connecting
      BY <2>3 DEF Proceed, NextStep, Connecting
    <3>2. Link = "trying" /\ Link' = "trying"
      BY <3>1 DEF Link, Connecting
    <3> QED  BY <2>1, <2>3, <3>2 DEF Proceed, Promise!vars
  <2> QED  BY <1>1, <2>2, <2>3
<1>2. CASE ConnectFails
  <2>1. UNCHANGED Fates
    BY <1>2, ConnectFailureTells, FatesKept DEF ConnectFails, NothingTold, Inv
  <2>2. Link = "trying" /\ Link' = "failed"
    BY <1>2 DEF ConnectFails, Link, Connecting
  <2>3. Promise!Fails
    BY <1>2, <2>1, <2>2, PostsAreTold, EventsAgree DEF ConnectFails, Promise!Fails, NotConnected
  <2> QED  BY <2>3 DEF Promise!Next
<1>3. CASE OnHandshake
  <2>1. UNCHANGED Fates
    BY <1>3, QuietTells, FatesKept, IdsAssumption DEF OnHandshake, NothingTold
  <2>2. Link = "trying" /\ Link' = "up"
    BY <1>3 DEF OnHandshake, Link, Connecting
  <2>3. Promise!Opens
    BY <1>3, <2>1, <2>2, PostsAreTold DEF OnHandshake, Promise!Opens
  <2> QED  BY <2>3 DEF Promise!Next
<1> QED  BY <1>1, <1>2, <1>3 DEF ConnectStep

(* What was written on a stream that is open, or was.                      *)
LEMMA OpenedLink ==
    ASSUME phase \in Opened
    PROVE  Link \in {"up", "over"}
BY DEF Opened, Link, Connecting

LEMMA WriteStepsPromised ==
    ASSUME Inv, WriteStep, UNCHANGED heard
    PROVE  [Promise!Next]_(Promise!vars)
<1>1. ASSUME NEW w \in Writes, WriteSucceeds(w)
      PROVE  [Promise!Next]_(Promise!vars)
  <2>1. /\ w \in writes \ (doomed \cup Requests) /\ writes' = writes \ {w}
        /\ subscriptions_' = subscriptions_ \cup ({w} \cap Subs)
        /\ UNCHANGED <<phase, closed_, requested, context_>>
    BY <1>1 DEF WriteSucceeds
  <2>2. UNCHANGED Link
    BY <2>1 DEF Link
  <2>3. \A id \in Subs : Failed(id)' <=> Failed(id)
    BY <2>1, QuietTells DEF NothingTold
  <2>4. CASE w \in Subs
    <3>1. Link \in {"up", "over"}
      BY <2>1, OpenedLink DEF Inv, Accounts
    <3>2. Fates[w] = "asked" /\ Fates'[w] = "saved"
      BY <2>1, <2>4, FateAfter DEF Fate, Inv, Accounts
    <3>3. Promise!Turn(w, "asked", "saved")
      BY <2>1, <2>3, <2>4, <3>2, FateTurns
    <3>4. Promise!Saved(w)
      BY <2>1, <2>2, <3>1, <3>3, PostsAreTold DEF Promise!Saved
    <3> QED  BY <2>4, <3>4 DEF Promise!Next
  <2>5. CASE w \notin Subs
    <3>1. UNCHANGED <<Fates, subscriptions_>>
      BY <2>1, <2>3, <2>5, FatesKept
    <3> QED  BY <2>1, <2>2, <3>1 DEF Promise!vars
  <2> QED  BY <2>4, <2>5
<1>2. CASE OnWsSendStompFails
  <2>1. UNCHANGED Fates
    BY <1>2, ConnectFailureTells, FatesKept, IdsAssumption DEF OnWsSendStompFails, NothingTold, Inv
  <2>2. Link \in {"up", "over"} /\ UNCHANGED Link
    <3>1. StompWrite \notin doomed
      BY IdsAssumption DEF Inv, TypeOK
    <3> QED  BY <1>2, <3>1, OpenedLink DEF OnWsSendStompFails, Inv, Accounts, Link
  <2>3. Promise!Complains
    BY <1>2, <2>1, <2>2, PostsAreTold, EventsAgree
    DEF OnWsSendStompFails, Promise!Complains, NotConnected
  <2> QED  BY <2>3 DEF Promise!Next
<1>3. ASSUME NEW sub \in Subs, OnWsSendSubscribeFails(sub)
      PROVE  [Promise!Next]_(Promise!vars)
  <2> DEFINE e == Event("subscribe", FALSE, sub)
  <2>1. \A id \in Subs : Failed(id)' <=> Failed(id) \/ id = sub
    <3>1. \A id \in Subs : e = Event("subscribe", FALSE, id) <=> id = sub
      BY DEF Event
    <3>2. e \in Callbacks /\ ~e.ok
      BY DEF Event, Callbacks
    <3> HIDE DEF e
    <3>3. Post(e)
      BY <1>3 DEF OnWsSendSubscribeFails, e
    <3>4. \A id \in Subs : Failed(id)' <=> Failed(id) \/ e = Event("subscribe", FALSE, id)
      BY <3>2, <3>3, PostTells DEF Inv
    <3> QED  BY <3>1, <3>4
  <2>2. /\ sub \in writes /\ writes' = writes \ {sub} /\ Post(e)
        /\ UNCHANGED <<phase, closed_, subscriptions_, requested>>
    BY <1>3 DEF OnWsSendSubscribeFails
  <2>3. Fates[sub] = "asked" /\ Fates'[sub] = "failed"
    BY <2>1, <2>2, FateAfter DEF Fate, Inv, Accounts
  <2>4. Promise!Turn(sub, "asked", "failed")
    BY <2>1, <2>2, <2>3, FateTurns
  <2>5. Promise!Refused(sub)
    <3>1. UNCHANGED <<Link, closed_>>
      BY <2>2 DEF Link
    <3> QED  BY <2>2, <2>4, <3>1, PostsAreTold, EventsAgree DEF Promise!Refused
  <2> QED  BY <2>5 DEF Promise!Next
<1> QED  BY <1>1, <1>2, <1>3 DEF WriteStep

LEMMA SendEndsPromised ==
    ASSUME Inv, NEW req \in Requests, NEW ok \in BOOLEAN, SendEnds(req, ok)
    PROVE  UNCHANGED Promise!vars
<1>1. Event("send", ok, req) \notin Callbacks
  BY DEF Event, Callbacks
<1>2. heard' \cap Callbacks = heard \cap Callbacks
  BY <1>1 DEF SendEnds
<1>3. \A id \in Subs : (Failed(id)' <=> Failed(id)) /\ (id \in writes' <=> id \in writes)
  <2>1. \A id \in Subs : Event("subscribe", FALSE, id) # Event("send", ok, req)
    BY DEF Event
  <2> QED  BY <2>1, IdsAssumption DEF SendEnds, Failed, Told
<1>4. UNCHANGED <<Fates, Link>>
  BY <1>3, FatesKept DEF SendEnds, Link
<1> QED  BY <1>2, <1>4 DEF SendEnds, Promise!vars

LEMMA ReadStepsPromised ==
    ASSUME Inv, ReadStep, UNCHANGED heard
    PROVE  [Promise!Next]_(Promise!vars)
<1>1. ASSUME NEW frame \in FrameKinds, OnWsMessage(frame)
      PROVE  [Promise!Next]_(Promise!vars)
  <2>1. phase = "open" /\ UNCHANGED connectionVars /\ Link = "up" /\ UNCHANGED Link
    BY <1>1 DEF OnWsMessage, connectionVars, Link, Connecting
  <2>2. CASE UNCHANGED context_
    <3>1. UNCHANGED Fates
      BY <2>1, <2>2 DEF Fates, Fate, Told, connectionVars
    <3> QED  BY <2>1, <2>2, <3>1 DEF connectionVars, Promise!vars
  <2>3. ASSUME NEW e \in Callbacks, Post(e),
               e.cb \in {"connect", "message"} \/
                 (e.id \in subscriptions_ /\ \/ e.cb = "subscribe" /\ e.ok
                                             \/ e.cb = "event")
        PROVE  Promise!Next
    <3>1. Promise!Tell(e)
      BY <2>3, PostsAreTold
    <3>2. \A id \in Subs : e # Event("subscribe", FALSE, id)
      BY <2>3 DEF Event
    <3>3. UNCHANGED <<Link, closed_, Fates>>
      <4>1. \A id \in Subs : Failed(id)' <=> Failed(id)
        BY <2>1, <2>3, <3>2, PostTells DEF Inv, EndIsTold
      <4> QED  BY <2>1, <4>1, FatesKept DEF connectionVars
    <3>4. e = Event(e.cb, e.ok, e.id)
      BY DEF Callbacks, Event
    <3>5. CASE e.cb = "connect"
      <4>1. e.ok \in BOOLEAN /\ e.id = NoSub
        BY <3>5 DEF Callbacks
      <4>2. e = NotConnected \/ e = Event("connect", TRUE, NoSub)
        BY <3>4, <3>5, <4>1 DEF NotConnected
      <4>3. Promise!Complains \/ Promise!Hears
        BY <2>1, <3>1, <3>3, <4>2, EventsAgree DEF Promise!Complains, Promise!Hears
      <4> QED  BY <4>3 DEF Promise!Next
    <3>6. CASE e.cb = "message"
      <4>1. e = Message
        BY <3>4, <3>6 DEF Callbacks, Message
      <4>2. Promise!Hears
        BY <2>1, <3>1, <3>3, <4>1, EventsAgree DEF Promise!Hears
      <4> QED  BY <4>2 DEF Promise!Next
    <3>7. CASE e.id \in subscriptions_ /\ ((e.cb = "subscribe" /\ e.ok) \/ e.cb = "event")
      <4>1. PICK id \in Subs : id = e.id
        BY <3>7 DEF Inv, TypeOK
      <4>2. Fates[id] = "saved"
        BY <3>7, <4>1, FateAfter DEF Fate, Inv, Accounts
      <4>3. e = Event("subscribe", TRUE, id) \/ \E ok \in BOOLEAN : e = Event("event", ok, id)
        <5>1. e.ok \in BOOLEAN /\ (e.ok => e.ok = TRUE)
          BY DEF Callbacks
        <5> QED  BY <3>4, <3>7, <4>1, <5>1
      <4>4. Promise!News(id)
        BY <2>1, <3>1, <3>3, <4>2, <4>3, EventsAgree DEF Promise!News
      <4> QED  BY <4>4 DEF Promise!Next
    <3> QED  BY <2>3, <3>5, <3>6, <3>7
  <2> QED  BY <1>1, <2>2, <2>3, ReactionPosts
<1>2. CASE OnReadError
  <2>1. UNCHANGED Fates
    BY <1>2, QuietTells, FatesKept DEF OnReadError, NothingTold
  <2>2. UNCHANGED Link
    BY <1>2 DEF OnReadError, Link, Connecting
  <2> QED  BY <1>2, <2>1, <2>2 DEF OnReadError, Promise!vars
<1>3. CASE OnReadAborted
  <2>1. Link = "up" /\ Link' = "over" /\ ~Told(Disconnected)
    BY <1>3 DEF OnReadAborted, Link, Connecting, Inv, EndIsTold
  <2>2. IF closed_ THEN UNCHANGED context_ ELSE Post(Disconnected)
    BY <1>3 DEF OnReadAborted, Disconnected
  <2>3. \A id \in Subs : Failed(id)' <=> Failed(id)
    <3>1. CASE closed_
      BY <2>2, <3>1, QuietTells DEF NothingTold
    <3>2. CASE ~closed_
      <4>1. Disconnected \in Callbacks
        BY DEF Disconnected, Event, Callbacks
      <4>2. \A id \in Subs : Disconnected # Event("subscribe", FALSE, id)
        BY DEF Disconnected, Event
      <4> QED  BY <2>1, <2>2, <3>2, <4>1, <4>2, PostTells DEF Inv
    <3> QED  BY <3>1, <3>2
  <2>4. UNCHANGED Fates
    BY <1>3, <2>3, FatesKept DEF OnReadAborted
  <2>5. Promise!Ends
    BY <1>3, <2>1, <2>2, <2>4, PostsAreTold, EventsAgree
    DEF OnReadAborted, Promise!Ends, Disconnected
  <2> QED  BY <2>5 DEF Promise!Next
<1> QED  BY <1>1, <1>2, <1>3 DEF ReadStep

LEMMA UserCallPromised ==
    ASSUME Inv, UserCall \/ UNCHANGED connectionVars,
           \A id \in Subs : Failed(id)' <=> Failed(id)
    PROVE  Promise!UserCall \/ UNCHANGED <<Link, closed_, Fates>>
<1>1. UNCHANGED phase => UNCHANGED Link
  BY DEF Link
<1>2. CASE Subscribe
  <2>1. PICK new \in Subs : new \notin requested /\ StartWrite(new)
    BY <1>2 DEF Subscribe
  <2>2. Fates[new] = "new" /\ Fates'[new] = "asked"
    BY <2>1, FateAfter DEF StartWrite, Fate
  <2>3. Promise!Turn(new, "new", "asked")
    BY <2>1, <2>2, FateTurns DEF StartWrite
  <2>4. Promise!Asks(new)
    BY <1>1, <2>1, <2>3 DEF StartWrite, Promise!Asks
  <2> QED  BY <2>4 DEF Promise!UserCall
<1>3. CASE Send
  <2>1. PICK req \in Requests : StartWrite(req)
    BY <1>3 DEF Send
  <2>2. \A id \in Subs : (id \in requested' <=> id \in requested) /\ (id \in writes' <=> id \in writes)
    BY <2>1, IdsAssumption DEF StartWrite
  <2>3. \A id \in Subs : Fates'[id] = Fates[id]
    BY <2>1, <2>2, FateAfter DEF StartWrite, Fate, Failed
  <2>4. UNCHANGED Fates
    BY <2>3 DEF Fates
  <2> QED  BY <1>1, <2>1, <2>4 DEF StartWrite
<1>4. CASE Close
  <2>1. \A id \in Subs : Fates'[id] = IF Fates[id] = "saved" THEN "dropped" ELSE Fates[id]
    BY <1>4, FateAfter DEF Close, Fate, Failed, Inv, Accounts
  <2>2. Fates' = [id \in Subs |-> IF Fates[id] = "saved" THEN "dropped" ELSE Fates[id]]
    BY <2>1 DEF Fates
  <2>3. Promise!Closes
    BY <1>1, <1>4, <2>2 DEF Close, Promise!Closes
  <2> QED  BY <2>3 DEF Promise!UserCall
<1>5. CASE UNCHANGED connectionVars
  BY <1>1, <1>5, FatesKept DEF connectionVars
<1> QED  BY <1>2, <1>3, <1>4, <1>5 DEF UserCall

LEMMA StepPromised ==
    ASSUME Inv, [Next]_vars
    PROVE  [Promise!Next]_(Promise!vars)
<1>1. CASE (Connect \/ ConnectStep \/ WriteStep \/ ReadStep) /\ UNCHANGED heard
  BY <1>1, ConnectStepsPromised, WriteStepsPromised, ReadStepsPromised
<1>2. CASE AnySendEnds
  BY <1>2, SendEndsPromised DEF AnySendEnds
<1>3. CASE RunCallback
  <2>1. \A id \in Subs : Failed(id)' <=> Failed(id)
    BY <1>3, TakeTells DEF RunCallback, NothingTold, Inv
  <2>2. Promise!UserCall \/ UNCHANGED <<Link, closed_, Fates>>
    BY <1>3, <2>1, UserCallPromised DEF RunCallback
  <2>3. heard' \cap Callbacks = (heard \cap Callbacks) \cup ({Head(context_)} \ {Message})
    <3>1. Head(context_) \in Callbacks
      BY <1>3 DEF RunCallback, TakeCallback, Inv, TypeOK
    <3> QED  BY <1>3, <3>1 DEF RunCallback, TakeCallback
  <2>4. Promise!Deliver
    BY <1>3, <2>2, <2>3, EventsAgree DEF RunCallback, TakeCallback, Promise!Deliver
  <2> QED  BY <2>4 DEF Promise!Next
<1>4. CASE CallFromOutside \/ UNCHANGED vars
  <2>1. (UserCall \/ UNCHANGED connectionVars) /\ UNCHANGED <<context_, heard>>
    BY <1>4 DEF CallFromOutside, vars
  <2>2. \A id \in Subs : Failed(id)' <=> Failed(id)
    BY <2>1, QuietTells DEF NothingTold
  <2>3. Promise!UserCall \/ UNCHANGED <<Link, closed_, Fates>>
    BY <2>1, <2>2, UserCallPromised
  <2> QED  BY <2>1, <2>3, PostsAreTold DEF Promise!Next, Promise!vars
<1> QED  BY <1>1, <1>2, <1>3, <1>4 DEF Next

LEMMA InitPromised == Init => Promise!Init
<1> SUFFICES ASSUME Init PROVE Promise!Init
  OBVIOUS
<1>1. Link = "idle"
  BY DEF Init, Link, Connecting
<1>2. Fates = [id \in Subs |-> "new"]
  BY DEF Init, Fates, Fate
<1> QED  BY <1>1, <1>2 DEF Init, Promise!Init

(* The client keeps what lines 95-196 promise: whatever the order of       *)
(* writes, frames, errors and calls, what it tells the user is what a      *)
(* queue of news about one connection and its subscriptions would tell.    *)
THEOREM ClientKeepsPromises == Spec => ImplementsSubscriptions
BY ClientInvariant, InitPromised, StepPromised, PTL
DEF Spec, ImplementsSubscriptions, Promise!Spec
=============================================================================
