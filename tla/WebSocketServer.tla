--------------------------- MODULE WebSocketServer ---------------------------
(***************************************************************************)
(* The WebSocket layer of the server side: one acceptor (WebSocketServer)  *)
(* and the sessions it creates (WebSocketSession), from                    *)
(* src/inc/network-monitor/websocket-server.h.                             *)
(*                                                                         *)
(* One thread runs the I/O context, so a handler is one atomic step and    *)
(* handlers interleave.  The user's callbacks are called synchronously     *)
(* from the handlers; the only thing the user can do to this layer from    *)
(* one is to close sessions, so a handler of this module constrains every  *)
(* variable but closed_, and the composition says what closed_ becomes:    *)
(* WsNext lets the user close any sessions it has been given, StompServer  *)
(* says which ones the STOMP layer closes.                                 *)
(***************************************************************************)
EXTENDS Naturals, FiniteSets

CONSTANTS
    Sessions,       \* the WebSocketSession objects that may be created
    MaxRuns         \* bound: calls of Run

VARIABLES
    acceptor_,      \* "closed" | "open" (bound or not, not listening) | "listening"
    stopped_,       \* the server's flag stopped_
    accepts,        \* outstanding async_accept operations, by what is known of them
    reported,       \* onDisconnect_ was called since the last successful Run
    runs,           \* calls of Run so far
    stream,         \* how far each session has come
    closed_         \* the sessions' flags closed_

wsVars == <<acceptor_, stopped_, accepts, reported, runs, stream, closed_>>
serverVars == <<acceptor_, stopped_, accepts, reported, runs>>

Outcomes == {"waiting", "accepted", "failed"}

(* "absent"   no such session yet                                          *)
(* "tls"      Connect was called, the TLS handshake is outstanding         *)
(* "ws"       the WebSocket handshake is outstanding                       *)
(* "refused"  one of the handshakes failed, nothing is outstanding         *)
(* "open"     an async_read is outstanding on a healthy stream             *)
(* "broken"   a read failed with neither closed nor operation_aborted; the *)
(*            next async_read is outstanding and can only be aborted       *)
(* "done"     the read loop has ended                                      *)
Phases == {"absent", "tls", "ws", "refused", "open", "broken", "done"}

WsTypeOK ==
    /\ acceptor_ \in {"closed", "open", "listening"}
    /\ stopped_ \in BOOLEAN
    /\ accepts \in [Outcomes -> Nat]
    /\ reported \in BOOLEAN
    /\ runs \in Nat
    /\ stream \in [Sessions -> Phases]
    /\ closed_ \in [Sessions -> BOOLEAN]

WsInit ==
    /\ acceptor_ = "closed"
    /\ stopped_ = FALSE
    /\ accepts = [o \in Outcomes |-> 0]
    /\ reported = FALSE
    /\ runs = 0
    /\ stream = [s \in Sessions |-> "absent"]
    /\ closed_ = [s \in Sessions |-> FALSE]

(* The sessions whose handle the user has been given by onSessionConnect.  *)
Known == {s \in Sessions : stream[s] \in {"refused", "open", "broken", "done"}}

Outstanding == accepts["waiting"] + accepts["accepted"] + accepts["failed"]

-----------------------------------------------------------------------------
(* The acceptor.                                                           *)

(* Run succeeds: open, set_option, bind and listen all did.  It starts an  *)
(* accept loop whether or not operations of an earlier run are still to    *)
(* complete.                                                               *)
WsRunOk ==
    /\ acceptor_ = "closed"
    /\ runs < MaxRuns
    /\ runs' = runs + 1
    /\ acceptor_' = "listening"
    /\ stopped_' = FALSE
    /\ accepts' = [accepts EXCEPT !["waiting"] = @ + 1]
    /\ reported' = FALSE
    /\ UNCHANGED stream

(* Run fails: in open (which always fails on an acceptor that is open) or  *)
(* in a later call, which leaves the acceptor open.                        *)
WsRunFails ==
    /\ runs < MaxRuns
    /\ runs' = runs + 1
    /\ acceptor_' \in IF acceptor_ = "closed" THEN {"closed", "open"} ELSE {acceptor_}
    /\ UNCHANGED <<stopped_, accepts, reported, stream>>

(* Closing the acceptor aborts the operations that are still waiting; one  *)
(* that the system has completed keeps its connection.                     *)
WsStop ==
    /\ stopped_' = TRUE
    /\ acceptor_' = "closed"
    /\ accepts' = [accepts EXCEPT !["waiting"] = 0, !["failed"] = @ + accepts["waiting"]]
    /\ UNCHANGED <<reported, runs, stream>>

(* The system completes a waiting operation; its handler runs later.       *)
(* Bound: there are at most Sessions connections.                          *)
AcceptCompletes(o) ==
    /\ accepts["waiting"] > 0
    /\ o = "accepted" =>
        accepts["accepted"] < Cardinality({s \in Sessions : stream[s] = "absent"})
    /\ accepts' = [accepts EXCEPT !["waiting"] = @ - 1, ![o] = @ + 1]
    /\ UNCHANGED <<acceptor_, stopped_, reported, runs, stream>>

(* The accept handler on a connection: create the session, call its        *)
(* Connect, and accept again (on a closed acceptor that operation fails).  *)
OnConnectionAccepted(s) ==
    /\ accepts["accepted"] > 0
    /\ stream[s] = "absent"
    /\ stream' = [stream EXCEPT ![s] = "tls"]
    /\ LET next == IF acceptor_ = "listening" THEN "waiting" ELSE "failed"
       IN  accepts' = [accepts EXCEPT !["accepted"] = @ - 1, ![next] = @ + 1]
    /\ UNCHANGED <<acceptor_, stopped_, reported, runs>>

(* A variant that reports the end of the loop only after Stop.             *)
ReportsAfterStop == stopped_

(* The accept handler on an error: the loop ends, and the user is told     *)
(* unless the server was stopped.  AcceptReports is that condition.        *)
AcceptReports == ~stopped_

(* A variant that accepts again after an error.                            *)
AcceptsAfterError ==
    /\ accepts["failed"] > 0
    /\ LET next == IF acceptor_ = "listening" THEN "waiting" ELSE "failed"
           one == [accepts EXCEPT !["failed"] = @ - 1]
       IN  accepts' = [one EXCEPT ![next] = @ + 1]
    /\ UNCHANGED <<acceptor_, stopped_, reported, runs, stream>>

OnAcceptError ==
    /\ accepts["failed"] > 0
    /\ accepts' = [accepts EXCEPT !["failed"] = @ - 1]
    /\ reported' = (reported \/ AcceptReports)
    /\ UNCHANGED <<acceptor_, stopped_, runs, stream>>

-----------------------------------------------------------------------------
(* A session.                                                              *)

Advance(s, from, to) ==
    /\ stream[s] \in from
    /\ stream' = [stream EXCEPT ![s] = to]
    /\ UNCHANGED serverVars

OnTlsHandshakeOk(s) == Advance(s, {"tls"}, "ws")

(* The first half of both handshake handlers' error path, onConnect_(ec).  *)
(* A timeout is one of the errors.                                         *)
OnHandshakeError(s) == Advance(s, {"tls", "ws"}, "refused")

(* The read loop is started, then onConnect_ is called.                    *)
OnHandshakeOk(s) == Advance(s, {"ws"}, "open")

(* A read succeeds: onMessage_ is called and the next read is started.     *)
(* This can still happen while a close is under way.                       *)
OnRead(s) ==
    /\ stream[s] = "open"
    /\ UNCHANGED <<serverVars, stream>>

(* A read fails with some error that does not end the loop (an end of      *)
(* file, a reset, a timeout): it is ignored and another read is started.   *)
OnReadError(s) == Advance(s, {"open"}, "broken")

(* A read fails with closed or operation_aborted: the loop ends.  On an    *)
(* open stream the peer closed it, or Close did.                           *)
OnReadEnd(s) == Advance(s, {"open", "broken"}, "done")

(* A variant with the condition the wrong way round.                       *)
ReportsClosed(s) == closed_[s]

(* Whether the end of the loop is reported through onDisconnect_.          *)
ReportsEnd(s) == ~closed_[s]

(* Session Close: note the intention and start the closing handshake.      *)
CloseSessions(S) == closed_' = [s \in Sessions |-> closed_[s] \/ s \in S]

-----------------------------------------------------------------------------
(* The layer on its own, with a user that may close, in any step, any      *)
(* sessions it has been given.                                             *)

AnyCloses == \E S \in SUBSET Known' : CloseSessions(S)

SessionStep(s) ==
    \/ OnTlsHandshakeOk(s)
    \/ OnHandshakeError(s)
    \/ OnHandshakeOk(s)
    \/ OnRead(s)
    \/ OnReadError(s)
    \/ OnReadEnd(s)

AcceptorStep ==
    \/ WsRunOk
    \/ WsRunFails
    \/ WsStop
    \/ \E o \in {"accepted", "failed"} : AcceptCompletes(o)
    \/ \E s \in Sessions : OnConnectionAccepted(s)
    \/ OnAcceptError

WsNext ==
    /\ \/ AcceptorStep
       \/ \E s \in Sessions : SessionStep(s)
       \/ UNCHANGED <<serverVars, stream>>
    /\ AnyCloses

(* What the layer does whatever its user does: the STOMP layer is one of   *)
(* the users it allows, and closes only sessions it has been given (lines  *)
(* 103-118), never one that is still in a handshake.                       *)
WsSpec == WsInit /\ [][WsNext]_wsVars

-----------------------------------------------------------------------------
(* Properties.                                                             *)

(* A server that listens accepts connections, or the user was told that it *)
(* does not (lines 477-486): no order of Run, Stop and late completions    *)
(* leaves it deaf without a word.                                          *)
NeverSilentlyDeaf == acceptor_ = "listening" => Outstanding > 0 \/ reported

(* A server that is stopped gets rid of its accept operations: a           *)
(* connection that was accepted just before does not keep the loop going.  *)
StopDrains == stopped_ ~> (Outstanding = 0 \/ ~stopped_)

=============================================================================
