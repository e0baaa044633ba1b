------------------------------ MODULE Connection ------------------------------
(***************************************************************************)
(* Connections of internal/litenetlib on the wire: a manager that dials    *)
(* (the client) and one that listens (the server), at two addresses, and   *)
(* the datagrams between them, which may be lost, repeated and reordered.  *)
(*                                                                         *)
(* At each end the manager has at most one peer for the other's address.   *)
(* An attempt to connect is named by its connectTime: the ticks of the     *)
(* clock, here counted.  The connection number is the same for all, as     *)
(* Connect always passes 0, and left out.                                  *)
(*                                                                         *)
(* Update is Manager.update; the timers count its calls, one for each of   *)
(* pingInterval, reconnectDelay and shutdownResendDelay, Timeout of them   *)
(* for disconnectTimeout.  Pings, pongs and data are one kind of datagram   *)
(* here, traffic: all are received, or refused, on the same conditions.    *)
(*                                                                         *)
(* Definitions named ..._Slip are plausible mistakes; nothing uses them.   *)
(***************************************************************************)
EXTENDS Integers, FiniteSets

CONSTANTS
  Client, Server,
  MaxAttempts,          \* bound on the attempts
  MaxStops,             \* bound on the processes stopped
  MaxInFlight,          \* end -> bound on the datagrams on their way to it
  MaxConnectAttempts,
  Timeout,
  LateRequests          \* a ConnectRequest may outlive the connection it led to

ASSUME EndsDiffer      == Client # Server
ASSUME SizesArePositive ==
  /\ MaxAttempts \in Nat \ {0} /\ MaxConnectAttempts \in Nat \ {0} /\ Timeout \in Nat \ {0}
  /\ MaxInFlight \in [{Client, Server} -> Nat \ {0}]
  /\ MaxStops \in Nat /\ LateRequests \in BOOLEAN

VARIABLES
  compatible,   \* the ends speak the same version of the protocol
  stops,        \* processes stopped so far
  peer,         \* end -> its peer for the other's address, or NoPeer
  request,      \* the attempt of the server's unresolved request, or NoAttempt
  attempts,     \* attempts made so far
  net,          \* end -> datagrams on their way to it
  \* what the handlers know
  open,         \* end -> the attempt whose connection it has been told of
  accepted,     \* attempts the server has been told of
  told,         \* attempts the client has been told the outcome of
  closed        \* end -> attempts it has refused, disconnected or stopped

handlerVars == <<open, accepted, told, closed>>
vars == <<compatible, stops, peer, request, attempts, net, handlerVars>>

Ends     == {Client, Server}
Other(e) == IF e = Client THEN Server ELSE Client

NoAttempt == 0
Attempts  == 1..MaxAttempts
\* A handler that is told of a connection while it believes in another.
Confused  == MaxAttempts + 1

NoPeer == [state |-> "None", time |-> 0, since |-> 0, tries |-> 0]

Outgoing(t) == [state |-> "Outgoing",  time |-> t, since |-> 0, tries |-> 0]
Accepted(t) == [state |-> "Connected", time |-> t, since |-> 0, tries |-> 0]

Is(e, states) == peer[e].state \in states

Timed(kind, t) == [kind |-> kind, time |-> t]
Plain(kind)    == [kind |-> kind, time |-> NoAttempt]

Init ==
  /\ compatible \in BOOLEAN
  /\ stops = 0
  /\ peer = [e \in Ends |-> NoPeer]
  /\ request = NoAttempt
  /\ attempts = 0
  /\ net = [e \in Ends |-> {}]
  /\ open = [e \in Ends |-> NoAttempt]
  /\ accepted = {} /\ told = {}
  /\ closed = [e \in Ends |-> {}]

-----------------------------------------------------------------------------
(* Datagrams and reports.                                                  *)

\* Bound MaxInFlight: a datagram too many displaces another, which is lost.
Transmit(e, d) ==
  LET o == Other(e) IN
  IF d \in net[o] THEN UNCHANGED net
  ELSE IF Cardinality(net[o]) < MaxInFlight[o] THEN net' = [net EXCEPT ![o] = @ \cup {d}]
  ELSE \E x \in net[o] : net' = [net EXCEPT ![o] = (@ \ {x}) \cup {d}]

ReportConnected(e, t) == open' = [open EXCEPT ![e] = IF @ = NoAttempt THEN t ELSE Confused]
ReportEnded(e)        == open' = [open EXCEPT ![e] = NoAttempt]

SetPeer(e, p) == peer' = [peer EXCEPT ![e] = p]

\* Slip: only the end of a connection is reported.
Reported_Slip(e, reason) == Is(e, {"Connected"})

\* disconnectPeerForce deletes the peer and reports its end if it was
\* connected, or if an attempt has failed or been rejected.
Reported(e, reason) == Is(e, {"Connected"}) \/ reason \in {"Failed", "Rejected"}

\* disconnectPeerForce.
ForceDisconnect(e, reason) ==
  IF Reported(e, reason)
  THEN SetPeer(e, NoPeer) /\ ReportEnded(e)
       /\ told' = IF e = Client THEN told \cup {peer[e].time} ELSE told
  ELSE /\ SetPeer(e, [peer[e] EXCEPT !.state = IF @ = "Outgoing" THEN "Disconnected" ELSE @])
       /\ UNCHANGED <<open, told>>

-----------------------------------------------------------------------------
(* The handlers' calls.                                                    *)

\* Connect does nothing as long as there is a peer, in whatever state.
Connect ==
  /\ attempts < MaxAttempts
  /\ peer[Client] = NoPeer
  /\ attempts' = attempts + 1
  /\ SetPeer(Client, Outgoing(attempts + 1))
  /\ Transmit(Client, Timed("ConnectRequest", attempts + 1))
  /\ UNCHANGED <<compatible, stops, request, handlerVars>>

\* resolveRequest, rejecting.  The request may have been updated by a newer
\* ConnectRequest since the handler saw it.
Reject ==
  /\ request # NoAttempt
  /\ request' = NoAttempt
  /\ closed' = [closed EXCEPT ![Server] = @ \cup {request}]
  /\ Transmit(Server, Timed("Disconnect", request))
  /\ UNCHANGED <<compatible, stops, peer, attempts, open, accepted, told>>

\* resolveRequest, accepting.
Accept ==
  /\ request # NoAttempt
  /\ request' = NoAttempt
  /\ IF peer[Server] # NoPeer THEN UNCHANGED <<peer, net, open, accepted>>
     ELSE /\ SetPeer(Server, Accepted(request))
          /\ Transmit(Server, Timed("ConnectAccept", request))
          /\ ReportConnected(Server, request)
          /\ accepted' = accepted \cup {request}
  /\ UNCHANGED <<compatible, stops, attempts, told, closed>>

\* Peer.shutdown without force: the other end is told, again and again.
Shutdown(e) ==
  /\ SetPeer(e, [peer[e] EXCEPT !.state = "ShutdownRequested", !.since = 0])
  /\ Transmit(e, Timed("Disconnect", peer[e].time))
  /\ closed' = [closed EXCEPT ![e] = @ \cup {peer[e].time}]

\* Disconnect: reported at once, if there was a connection.
Disconnect(e) ==
  /\ Is(e, {"Outgoing", "Connected"})
  /\ Shutdown(e)
  /\ IF Is(e, {"Connected"}) THEN ReportEnded(e) ELSE UNCHANGED open
  /\ UNCHANGED <<compatible, stops, request, attempts, accepted, told>>

\* Stop, or a crash, and another process that listens at the address: the
\* handler is told nothing, and the other end at most once.  Datagrams that
\* arrive in between are lost, as any may be.
Restart(e) ==
  /\ stops < MaxStops
  /\ stops' = stops + 1
  /\ SetPeer(e, NoPeer)
  /\ request' = IF e = Server THEN NoAttempt ELSE request
  /\ ReportEnded(e)
  /\ closed' = [closed EXCEPT ![e] = @ \cup {peer[e].time}]
  /\ \/ UNCHANGED net
     \/ Is(e, {"Outgoing", "Connected"}) /\ Transmit(e, Timed("Disconnect", peer[e].time))
  /\ UNCHANGED <<compatible, attempts, accepted, told>>

-----------------------------------------------------------------------------
(* Manager.receive.  The datagram may arrive again until it is lost.       *)

\* A ConnectRequest that is not newer than the server's peer.
Outdated(t) == t < peer[Server].time

\* The connection this attempt led to, or a later one, has ended.
Late(t) == \E u \in accepted : u >= t /\ open[Server] # u

\* processConnectRequest.
ReceiveConnectRequest(t) ==
  /\ Timed("ConnectRequest", t) \in net[Server]
  /\ LateRequests \/ ~Late(t)
  /\ compatible
  /\ IF Outdated(t) THEN UNCHANGED <<peer, request, net, handlerVars>>
     ELSE IF Is(Server, {"Connected"}) /\ t = peer[Server].time
     THEN /\ Transmit(Server, Timed("ConnectAccept", t))
          /\ UNCHANGED <<peer, request, handlerVars>>
     ELSE /\ request' = t
          /\ SetPeer(Server, NoPeer)
          /\ IF Is(Server, {"Connected"}) THEN ReportEnded(Server) ELSE UNCHANGED open
          /\ UNCHANGED <<net, accepted, told, closed>>
  /\ UNCHANGED <<compatible, stops, attempts>>

ReceiveIncompatible(t) ==
  /\ Timed("ConnectRequest", t) \in net[Server]
  /\ ~compatible
  /\ Transmit(Server, Plain("InvalidProtocol"))
  /\ UNCHANGED <<compatible, stops, peer, request, attempts, handlerVars>>

\* Slip: any ConnectAccept will do.
Answers_Slip(t) == TRUE

\* The ConnectAccept is for the attempt under way.
Answers(t) == t = peer[Client].time

\* processConnectAccept.
ReceiveConnectAccept(t) ==
  /\ Timed("ConnectAccept", t) \in net[Client]
  /\ Is(Client, {"Outgoing"})
  /\ Answers(t)
  /\ SetPeer(Client, [peer[Client] EXCEPT !.state = "Connected", !.since = 0])
  /\ ReportConnected(Client, peer[Client].time)
  /\ told' = told \cup {peer[Client].time}
  /\ UNCHANGED <<compatible, stops, request, attempts, net, accepted, closed>>

\* Slip: any Disconnect will do.
Concerns_Slip(e, t) == Is(e, {"Outgoing", "Connected"})

\* processDisconnect: the Disconnect is for the connection, or the attempt.
Concerns(e, t) == Is(e, {"Outgoing", "Connected"}) /\ t = peer[e].time

\* Whatever it is for, a Disconnect is answered.
ReceiveDisconnect(e, t) ==
  /\ Timed("Disconnect", t) \in net[e]
  /\ IF Concerns(e, t)
     THEN ForceDisconnect(e, IF Is(e, {"Outgoing"}) THEN "Rejected" ELSE "RemoteConnectionClose")
     ELSE UNCHANGED <<peer, open, told>>
  /\ Transmit(e, Plain("ShutdownOk"))
  /\ UNCHANGED <<compatible, stops, request, attempts, accepted, closed>>

ReceiveInvalidProtocol ==
  /\ Plain("InvalidProtocol") \in net[Client]
  /\ Is(Client, {"Outgoing"})
  /\ ForceDisconnect(Client, "InvalidProtocol")
  /\ UNCHANGED <<compatible, stops, request, attempts, net, accepted, closed>>

ReceivePeerNotFound(e) ==
  /\ Plain("PeerNotFound") \in net[e]
  /\ Is(e, {"Connected"})
  /\ ForceDisconnect(e, "PeerNotFound")
  /\ UNCHANGED <<compatible, stops, request, attempts, net, accepted, closed>>

\* Slip: the other end is a stranger until the connection is set up.
Stranger_Slip(e) == Is(e, {"None", "Outgoing"})

Stranger(e) == peer[e] = NoPeer

\* Anything else that comes from an address without a peer.
ReceiveFromStranger(e) ==
  /\ net[e] \cap {Plain("Traffic"), Plain("ShutdownOk")} # {}
  /\ Stranger(e)
  /\ Transmit(e, Plain("PeerNotFound"))
  /\ UNCHANGED <<compatible, stops, peer, request, attempts, handlerVars>>

ReceiveShutdownOk(e) ==
  /\ Plain("ShutdownOk") \in net[e]
  /\ Is(e, {"ShutdownRequested"})
  /\ SetPeer(e, [peer[e] EXCEPT !.state = "Disconnected"])
  /\ UNCHANGED <<compatible, stops, request, attempts, net, handlerVars>>

\* Traffic keeps a peer alive, also one that shuts down.  A ping is answered
\* if it is newer than the last one answered.
ReceiveTraffic(e) ==
  /\ Plain("Traffic") \in net[e]
  /\ Is(e, {"Connected", "ShutdownRequested"})
  /\ SetPeer(e, [peer[e] EXCEPT !.since = 0])
  /\ Transmit(e, Plain("Traffic")) \/ UNCHANGED net
  /\ UNCHANGED <<compatible, stops, request, attempts, handlerVars>>

-----------------------------------------------------------------------------
(* Manager.update.                                                         *)

Silent(e) == peer[e].since >= Timeout

\* Bound: beyond Timeout + 1 the clock makes no difference and stops.
Waited(p) == [p EXCEPT !.since = IF @ > Timeout THEN @ ELSE @ + 1]

UpdateConnected(e) ==
  /\ Is(e, {"Connected"})
  /\ IF Silent(e) THEN ForceDisconnect(e, "Timeout") /\ UNCHANGED net
     ELSE SetPeer(e, Waited(peer[e])) /\ Transmit(e, Plain("Traffic")) /\ UNCHANGED <<open, told>>
  /\ UNCHANGED <<compatible, stops, request, attempts, accepted, closed>>

\* Slip: the Disconnect is sent once.
Repeat_Slip(e) == UNCHANGED net

Repeat(e) == Transmit(e, Timed("Disconnect", peer[e].time))

UpdateShutdown(e) ==
  /\ Is(e, {"ShutdownRequested"})
  /\ IF Silent(e) THEN SetPeer(e, [Waited(peer[e]) EXCEPT !.state = "Disconnected"]) /\ UNCHANGED net
     ELSE SetPeer(e, Waited(peer[e])) /\ Repeat(e)
  /\ UNCHANGED <<compatible, stops, request, attempts, handlerVars>>

\* Slip: the attempts are not counted.
Tried_Slip(n) == n

Tried(n) == n + 1

UpdateOutgoing(e) ==
  /\ Is(e, {"Outgoing"})
  /\ IF Tried(peer[e].tries) > MaxConnectAttempts THEN ForceDisconnect(e, "Failed") /\ UNCHANGED net
     ELSE /\ SetPeer(e, [Waited(peer[e]) EXCEPT !.tries = Tried(@)])
          /\ Transmit(e, Timed("ConnectRequest", peer[e].time))
          /\ UNCHANGED <<open, told>>
  /\ UNCHANGED <<compatible, stops, request, attempts, accepted, closed>>

Expired(e) == peer[e].since > Timeout

\* A disconnected peer bars its address until it has expired.
UpdateDisconnected(e) ==
  /\ Is(e, {"Disconnected"})
  /\ SetPeer(e, IF Expired(e) THEN NoPeer ELSE Waited(peer[e]))
  /\ UNCHANGED <<compatible, stops, request, attempts, net, handlerVars>>

Update(e) == UpdateConnected(e) \/ UpdateShutdown(e) \/ UpdateOutgoing(e) \/ UpdateDisconnected(e)

-----------------------------------------------------------------------------
Lose(e, d) ==
  /\ d \in net[e]
  /\ net' = [net EXCEPT ![e] = @ \ {d}]
  /\ UNCHANGED <<compatible, stops, peer, request, attempts, handlerVars>>

Receive(e) ==
  \/ \E t \in Attempts : ReceiveDisconnect(e, t)
  \/ ReceivePeerNotFound(e) \/ ReceiveFromStranger(e) \/ ReceiveShutdownOk(e)
  \/ ReceiveTraffic(e)

ReceiveRequest == \E t \in Attempts : ReceiveConnectRequest(t) \/ ReceiveIncompatible(t)
ReceiveAnswer  == ReceiveInvalidProtocol \/ \E t \in Attempts : ReceiveConnectAccept(t)

Next ==
  \/ Connect \/ Reject \/ Accept
  \/ ReceiveRequest \/ ReceiveAnswer
  \/ \E e \in Ends :
       \/ Disconnect(e) \/ Restart(e)
       \/ Receive(e) \/ Update(e)
       \/ \E d \in net[e] : Lose(e, d)

Spec == Init /\ [][Next]_vars

\* The Disconnect that the other end repeats, or the answer to one's own.
HearOfEnd(e) ==
  \/ Is(Other(e), {"ShutdownRequested"}) /\ ReceiveDisconnect(e, peer[Other(e)].time)
  \/ ReceiveShutdownOk(e)

\* Each manager updates its peers for ever.  Of the datagrams about an end that
\* are sent again and again some arrive, and traffic does not stay under way.
Fairness ==
  \A e \in Ends :
    /\ WF_vars(Update(e))
    /\ SF_vars(HearOfEnd(e))
    /\ WF_vars(Lose(e, Plain("Traffic")))

FairSpec == Spec /\ Fairness

-----------------------------------------------------------------------------
Kinds    == {"ConnectRequest", "ConnectAccept", "Disconnect", "InvalidProtocol", "PeerNotFound",
             "ShutdownOk", "Traffic"}
Datagram == [kind : Kinds, time : {NoAttempt} \cup Attempts]
Peer     == [state : {"None", "Outgoing", "Connected", "ShutdownRequested", "Disconnected"},
             time : {NoAttempt} \cup Attempts, since : 0..Timeout + 1, tries : 0..MaxConnectAttempts]

TypeOK ==
  /\ compatible \in BOOLEAN
  /\ stops \in 0..MaxStops
  /\ peer \in [Ends -> Peer]
  /\ request \in {NoAttempt} \cup Attempts
  /\ attempts \in 0..MaxAttempts
  /\ net \in [Ends -> SUBSET Datagram]
  /\ open \in [Ends -> {NoAttempt} \cup Attempts]
  /\ accepted \subseteq Attempts /\ told \subseteq Attempts
  /\ closed \in [Ends -> SUBSET ({NoAttempt} \cup Attempts)]

Promised == INSTANCE Connections WITH open <- open, accepted <- accepted

\* Connections are reported as promised: never two at a time at one end, and
\* to the client only what the server has accepted.
ReportsAgree == Promised!Init /\ [][Promised!Next]_Promised!vars

\* Whoever is left alone with a connection is told that it has ended.
HalfOpenEnds == \A e \in Ends : WF_Promised!vars(Promised!HalfOpen(e) /\ Promised!Close(e))

\* A PeerNotFound (manager.go:413-415) does not say for which connection it
\* is meant.  A late one may thus end a connection that both ends know, but
\* not the first between them: except at the client, where a late request
\* has made the server forget it and set it up again.
NotFound(e) ==
  /\ Plain("PeerNotFound") \in net[e]
  /\ open[e] = 1 /\ ~(e = Client /\ LateRequests) => open[Other(e)] # 1

\* A connection ends at one end only if it was disconnected or refused by one
\* of them, or stopped, or nothing has been heard for long, or for a newer
\* attempt, or by a PeerNotFound: which spares the first one while both ends
\* know it.
EndsForAReason ==
  [][\A e \in Ends : open[e] # NoAttempt /\ open'[e] = NoAttempt =>
       \/ open[e] \in closed'[Client] \cup closed'[Server]
       \/ Silent(e) \/ NotFound(e)
       \/ e = Server /\ request' > open[e]]_vars

\* Not so: a PeerNotFound ends only what the other end does not know.
StrangersOnly ==
  [][\A e \in Ends : open[e] # NoAttempt /\ open'[e] = NoAttempt =>
       \/ open[e] \in closed'[Client] \cup closed'[Server]
       \/ Silent(e) \/ open[Other(e)] # open[e]
       \/ e = Server /\ request' > open[e]]_vars

\* No attempt is forgotten: the client is told what has become of it, unless
\* it has given it up itself or the server speaks another protocol.
AttemptsAnswered ==
  \A t \in 1..attempts :
    \/ t \in told \cup closed[Client]
    \/ peer[Client].time = t /\ Is(Client, {"Outgoing"})
    \/ ~compatible

\* No attempt goes on for ever.
AttemptsEnd == Is(Client, {"Outgoing"}) ~> ~Is(Client, {"Outgoing"})
=============================================================================
