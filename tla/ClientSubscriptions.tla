------------------------ MODULE ClientSubscriptions ------------------------
(***************************************************************************)
(* What StompClient promises its user (stomp-client.h:95-196): a           *)
(* connection that is tried once, the subscriptions asked for on it, and a *)
(* queue of callbacks that tell the user, in order, how these fare.  A     *)
(* subscription fails or is saved, and what is told of it fits that; the   *)
(* end of the connection is told unless the user closed the client.  An id *)
(* is used for one subscription only.                                      *)
(***************************************************************************)
EXTENDS Naturals, Sequences

CONSTANTS
    Subs,           \* the ids subscriptions may get
    NoSub           \* stands for the id in a callback that has none

VARIABLES
    link,           \* "idle" | "trying" | "failed" | "up" | "over"
    closed,         \* whether the user does not want the connection (any more)
    subscription,   \* id -> "new" | "asked" | "saved" | "failed" | "dropped"
    inbox,          \* callbacks posted and not yet run
    told            \* callbacks that have been run, but for messages

vars == <<link, closed, subscription, inbox, told>>

Event(cb, ok, id) == [cb |-> cb, ok |-> ok, id |-> id]
NotConnected == Event("connect", FALSE, NoSub)
Message == Event("message", TRUE, NoSub)

Init ==
    /\ link = "idle"
    /\ closed = TRUE
    /\ subscription = [id \in Subs |-> "new"]
    /\ inbox = <<>>
    /\ told = {}

Tell(e) == inbox' = Append(inbox, e) /\ UNCHANGED told
SayNothing == UNCHANGED <<inbox, told>>
Turn(id, from, to) ==
    /\ subscription[id] = from
    /\ subscription' = [subscription EXCEPT ![id] = to]

-----------------------------------------------------------------------------
(* The connection.                                                         *)

Try ==
    /\ link = "idle" /\ link' = "trying"
    /\ closed' = FALSE
    /\ UNCHANGED subscription
    /\ SayNothing

Fails ==
    /\ link = "trying" /\ link' = "failed"
    /\ UNCHANGED <<closed, subscription>>
    /\ Tell(NotConnected)

Opens ==
    /\ link = "trying" /\ link' = "up"
    /\ UNCHANGED <<closed, subscription>>
    /\ SayNothing

Ends ==
    /\ link = "up" /\ link' = "over"
    /\ UNCHANGED <<closed, subscription>>
    /\ IF closed THEN SayNothing ELSE Tell(Event("disconnect", TRUE, NoSub))

(* The STOMP connection is confirmed, or a message comes.                  *)
Hears ==
    /\ link = "up"
    /\ UNCHANGED <<link, closed, subscription>>
    /\ Tell(Message) \/ Tell(Event("connect", TRUE, NoSub))

(* The STOMP frame cannot be sent, or what comes cannot be understood.     *)
Complains ==
    /\ link \in {"up", "over"}
    /\ UNCHANGED <<link, closed, subscription>>
    /\ Tell(NotConnected)

-----------------------------------------------------------------------------
(* A subscription.                                                         *)

Saved(id) ==
    /\ link \in {"up", "over"}
    /\ Turn(id, "asked", "saved")
    /\ UNCHANGED <<link, closed>>
    /\ SayNothing

Refused(id) ==
    /\ Turn(id, "asked", "failed")
    /\ UNCHANGED <<link, closed>>
    /\ Tell(Event("subscribe", FALSE, id))

News(id) ==
    /\ link = "up"
    /\ subscription[id] = "saved"
    /\ UNCHANGED <<link, closed, subscription>>
    /\ Tell(Event("subscribe", TRUE, id)) \/ \E ok \in BOOLEAN : Tell(Event("event", ok, id))

-----------------------------------------------------------------------------
(* The user.                                                               *)

Asks(id) == Turn(id, "new", "asked") /\ UNCHANGED <<link, closed>>

(* What is saved is given up; what is only asked for may be saved yet.     *)
Closes ==
    /\ closed' = TRUE
    /\ subscription' =
        [id \in Subs |-> IF subscription[id] = "saved" THEN "dropped" ELSE subscription[id]]
    /\ UNCHANGED link

UserCall == Closes \/ \E id \in Subs : Asks(id)

(* The user is told the oldest news, and may call the client on hearing it. *)
Deliver ==
    /\ inbox # <<>>
    /\ inbox' = Tail(inbox)
    /\ told' = told \cup ({Head(inbox)} \ {Message})
    /\ UserCall \/ UNCHANGED <<link, closed, subscription>>

Next ==
    \/ Try \/ Fails \/ Opens \/ Ends \/ Hears \/ Complains
    \/ \E id \in Subs : Saved(id) \/ Refused(id) \/ News(id)
    \/ Deliver
    \/ UserCall /\ SayNothing

Spec == Init /\ [][Next]_vars
=============================================================================
