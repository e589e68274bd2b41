---------------------------- MODULE ClientRegistry ----------------------------
(***************************************************************************)
(* What StompServer promises its user (stomp-server.h:148-163): a set of   *)
(* clients, each known from the moment it is connected, and a queue of     *)
(* callbacks that tell the user, in order, that a client connected, sent a *)
(* message or left.  A client may also be dismissed by the server (the     *)
(* user closed it, the server was stopped, or it broke the protocol): then *)
(* nothing is said.  An id is used for one client only.                    *)
(***************************************************************************)
EXTENDS Naturals, Sequences, FiniteSets

CONSTANTS
    Ids,            \* the ids clients may get
    NoId            \* stands for the id in a callback that has none

VARIABLES
    client,         \* id -> "unknown" | "connected" | "gone"
    inbox,          \* callbacks posted and not yet run
    announced,      \* ids whose onClientConnect has run
    departed        \* ids whose onClientDisconnect has run

vars == <<client, inbox, announced, departed>>

Callback == [cb : {"connect", "message", "disconnect"}, id : Ids]
ServerDown == [cb |-> "serverDown", id |-> NoId]

TypeOK ==
    /\ client \in [Ids -> {"unknown", "connected", "gone"}]
    /\ inbox \in Seq(Callback \cup {ServerDown})
    /\ announced \subseteq Ids
    /\ departed \subseteq Ids

Init ==
    /\ client = [id \in Ids |-> "unknown"]
    /\ inbox = <<>>
    /\ announced = {}
    /\ departed = {}

Event(cb, id) == [cb |-> cb, id |-> id]
Tell(e) == inbox' = Append(inbox, e) /\ UNCHANGED <<announced, departed>>

Arrive(id) ==
    /\ client[id] = "unknown"
    /\ client' = [client EXCEPT ![id] = "connected"]
    /\ Tell(Event("connect", id))

Speak(id) ==
    /\ client[id] = "connected"
    /\ UNCHANGED client
    /\ Tell(Event("message", id))

Leave(id) ==
    /\ client[id] = "connected"
    /\ client' = [client EXCEPT ![id] = "gone"]
    /\ Tell(Event("disconnect", id))

GoDown == UNCHANGED client /\ Tell(ServerDown)

(* Some of the connected clients are dismissed, perhaps none.              *)
Dismiss ==
    \E S \in SUBSET {id \in Ids : client[id] = "connected"} :
        client' = [id \in Ids |-> IF id \in S THEN "gone" ELSE client[id]]

(* The user is told the oldest news, and may dismiss clients on hearing it. *)
Deliver ==
    /\ inbox # <<>>
    /\ inbox' = Tail(inbox)
    /\ announced' = announced \cup {id \in Ids : Head(inbox) = Event("connect", id)}
    /\ departed' = departed \cup {id \in Ids : Head(inbox) = Event("disconnect", id)}
    /\ Dismiss

Next ==
    \/ \E id \in Ids : Arrive(id) \/ Speak(id) \/ Leave(id)
    \/ GoDown
    \/ Deliver
    \/ Dismiss /\ UNCHANGED <<inbox, announced, departed>>

Spec == Init /\ [][Next]_vars
=============================================================================
