----------------------------- MODULE Manager_proofs -----------------------------
(***************************************************************************)
(* Proofs about the managers of internal/litenetlib.                       *)
(*                                                                         *)
(* About Connection, for any number of attempts, time-outs and datagrams   *)
(* under way: its types, that the handlers are told what Connections       *)
(* promises, that connections end for a reason, and that no attempt is     *)
(* forgotten.                                                              *)
(*                                                                         *)
(* About CommandLoops, two managers that two goroutines stop, for every    *)
(* size of the queues and any number of goroutines that post: that Stop    *)
(* leaves no handler behind.                                               *)
(***************************************************************************)
EXTENDS Connection, CommandLoops, TLAPS

-----------------------------------------------------------------------------
(* The invariant.                                                          *)

\* The handler believes in a connection exactly while the peer is connected.
OpenIsConnected ==
  \A e \in Ends : open[e] = IF peer[e].state = "Connected" THEN peer[e].time ELSE NoAttempt

PeersHaveAttempts == \A e \in Ends : peer[e].state # "None" => peer[e].time \in Attempts

AcceptedIsKnown == peer[Server].state = "Connected" => peer[Server].time \in accepted

ShutdownIsClosed ==
  \A e \in Ends : peer[e].state = "ShutdownRequested" => peer[e].time \in closed[e]

\* What is said in a datagram is true for good.
DatagramsAreTrue ==
  \A e \in Ends :
    /\ \A t \in Attempts : Timed("ConnectAccept", t) \in net[e] => t \in accepted
    /\ \A t \in Attempts : Timed("Disconnect", t) \in net[e] => t \in closed[Client] \cup closed[Server]
    /\ Plain("InvalidProtocol") \in net[e] => ~compatible

PeerInv == OpenIsConnected /\ PeersHaveAttempts /\ AcceptedIsKnown /\ ShutdownIsClosed

Inv == TypeOK /\ PeerInv /\ DatagramsAreTrue /\ AttemptsAnswered

LEMMA EndsAreTwo ==
  /\ Client \in Ends /\ Server \in Ends
  /\ \A e \in Ends : Other(e) \in Ends /\ Other(e) # e
BY EndsDiffer DEF Ends, Other

LEMMA InitInv == Init => Inv
<1> SUFFICES ASSUME Init PROVE Inv
  OBVIOUS
<1> USE SizesArePositive, EndsAreTwo
<1>1. NoPeer \in Peer /\ NoPeer.state = "None"
  BY DEF NoPeer, Peer, NoAttempt
<1>2. TypeOK
  BY <1>1 DEF Init, TypeOK
<1>3. PeerInv
  BY <1>1 DEF Init, PeerInv, OpenIsConnected, PeersHaveAttempts, AcceptedIsKnown, ShutdownIsClosed
<1>4. DatagramsAreTrue
  BY DEF Init, DatagramsAreTrue
<1>5. AttemptsAnswered
  BY DEF Init, AttemptsAnswered
<1> QED
  BY <1>2, <1>3, <1>4, <1>5 DEF Inv

-----------------------------------------------------------------------------
(* Parts of steps.                                                         *)

LEMMA DatagramTypes ==
  ASSUME NEW t \in Attempts
  PROVE  /\ \A k \in Kinds : Timed(k, t) \in Datagram
         /\ \A k \in Kinds : Plain(k) \in Datagram
         /\ \A k \in Kinds, l \in Kinds, u \in Attempts :
              /\ Timed(k, t) = Timed(l, u) => k = l /\ t = u
              /\ Timed(k, t) # Plain(l)
BY SizesArePositive DEF Timed, Plain, Datagram, Attempts, NoAttempt

\* A datagram that is sent is all that comes to what is under way.
LEMMA TransmitAdds ==
  ASSUME net \in [Ends -> SUBSET Datagram], NEW e \in Ends, NEW d \in Datagram, Transmit(e, d)
  PROVE  /\ net' \in [Ends -> SUBSET Datagram]
         /\ \A f \in Ends : net'[f] \subseteq net[f] \cup {d}
<1> DEFINE o == Other(e)
<1>1. o \in Ends
  BY EndsAreTwo
<1>2. CASE UNCHANGED net
  BY <1>2
<1>3. CASE net' = [net EXCEPT ![o] = @ \cup {d}]
  BY <1>1, <1>3
<1>4. ASSUME NEW x \in net[o], net' = [net EXCEPT ![o] = (@ \ {x}) \cup {d}]
      PROVE  /\ net' \in [Ends -> SUBSET Datagram]
             /\ \A f \in Ends : net'[f] \subseteq net[f] \cup {d}
  BY <1>1, <1>4
<1> QED
  BY <1>2, <1>3, <1>4 DEF Transmit

\* The datagrams stay true: those there are, as accepted and closed only grow
\* and compatible stays, and the new one if it is.
Grows == /\ accepted \subseteq accepted'
         /\ closed[Client] \subseteq closed'[Client]
         /\ closed[Server] \subseteq closed'[Server]
         /\ compatible' = compatible

LEMMA TrueStaysTrue ==
  ASSUME DatagramsAreTrue, Grows, NEW d, \A f \in Ends : net'[f] \subseteq net[f] \cup {d},
         \A t \in Attempts : d = Timed("ConnectAccept", t) => t \in accepted',
         \A t \in Attempts : d = Timed("Disconnect", t) => t \in closed'[Client] \cup closed'[Server],
         d = Plain("InvalidProtocol") => ~compatible
  PROVE  DatagramsAreTrue'
<1> SUFFICES ASSUME NEW e \in Ends
             PROVE  /\ \A t \in Attempts : Timed("ConnectAccept", t) \in net'[e] => t \in accepted'
                    /\ \A t \in Attempts : Timed("Disconnect", t) \in net'[e]
                                             => t \in closed'[Client] \cup closed'[Server]
                    /\ Plain("InvalidProtocol") \in net'[e] => ~compatible'
  BY DEF DatagramsAreTrue, Timed, Plain
<1>1. net'[e] \subseteq net[e] \cup {d}
  OBVIOUS
<1> QED
  BY <1>1 DEF DatagramsAreTrue, Grows

\* A step by which nothing is sent.
LEMMA QuietStaysTrue ==
  ASSUME DatagramsAreTrue, Grows, \A f \in Ends : net'[f] \subseteq net[f]
  PROVE  DatagramsAreTrue'
<1> SUFFICES ASSUME NEW e \in Ends
             PROVE  /\ \A t \in Attempts : Timed("ConnectAccept", t) \in net'[e] => t \in accepted'
                    /\ \A t \in Attempts : Timed("Disconnect", t) \in net'[e]
                                             => t \in closed'[Client] \cup closed'[Server]
                    /\ Plain("InvalidProtocol") \in net'[e] => ~compatible'
  BY DEF DatagramsAreTrue, Timed, Plain
<1>1. net'[e] \subseteq net[e]
  OBVIOUS
<1> QED
  BY <1>1 DEF DatagramsAreTrue, Grows

\* What disconnectPeerForce does to a peer.
LEMMA ForceEnds ==
  ASSUME TypeOK, PeerInv, NEW e \in Ends, NEW reason, ForceDisconnect(e, reason),
         peer[e].state # "None"
  PROVE  /\ peer' \in [Ends -> Peer]
         /\ open' \in [Ends -> {NoAttempt} \cup Attempts]
         /\ told' \subseteq Attempts /\ told \subseteq told'
         /\ OpenIsConnected' /\ PeersHaveAttempts'
         /\ \A f \in Ends \ {e} : peer'[f] = peer[f] /\ open'[f] = open[f]
         /\ open'[e] = NoAttempt
         /\ peer'[e].state \notin {"Connected", "Outgoing"}
         /\ peer'[e].state = "ShutdownRequested" => peer'[e] = peer[e]
         /\ e = Client /\ Reported(e, reason) => peer[e].time \in told'
<1> USE EndsAreTwo
<1>1. peer[e] \in Peer /\ peer[e].time \in Attempts
  BY DEF TypeOK, PeerInv, PeersHaveAttempts
<1>2. CASE Reported(e, reason)
  <2>1. /\ peer' = [peer EXCEPT ![e] = NoPeer]
        /\ open' = [open EXCEPT ![e] = NoAttempt]
        /\ told' = IF e = Client THEN told \cup {peer[e].time} ELSE told
    BY <1>2 DEF ForceDisconnect, SetPeer, ReportEnded
  <2>2. NoPeer \in Peer /\ NoPeer.state = "None"
    BY SizesArePositive DEF NoPeer, Peer, NoAttempt
  <2>3. /\ peer' \in [Ends -> Peer] /\ peer'[e] = NoPeer
        /\ \A f \in Ends \ {e} : peer'[f] = peer[f]
    BY <2>1, <2>2 DEF TypeOK
  <2>4. /\ open' \in [Ends -> {NoAttempt} \cup Attempts] /\ open'[e] = NoAttempt
        /\ \A f \in Ends \ {e} : open'[f] = open[f]
    BY <2>1 DEF TypeOK
  <2>5. told' \subseteq Attempts /\ told \subseteq told'
    BY <1>1, <2>1 DEF TypeOK
  <2>6. OpenIsConnected' /\ PeersHaveAttempts'
    BY <2>2, <2>3, <2>4 DEF PeerInv, OpenIsConnected, PeersHaveAttempts
  <2> QED
    BY <2>1, <2>2, <2>3, <2>4, <2>5, <2>6
<1>3. CASE ~Reported(e, reason)
  <2> DEFINE p == [peer[e] EXCEPT !.state = IF @ = "Outgoing" THEN "Disconnected" ELSE @]
  <2>1. /\ peer' = [peer EXCEPT ![e] = p] /\ UNCHANGED <<open, told>>
        /\ peer[e].state # "Connected"
    BY <1>3 DEF ForceDisconnect, SetPeer, Reported, Is
  <2>2. /\ p \in Peer /\ p.time = peer[e].time
        /\ p.state \notin {"Connected", "Outgoing", "None"}
        /\ p.state = "ShutdownRequested" => p = peer[e]
    BY <1>1, <2>1 DEF Peer
  <2> HIDE DEF p
  <2>3. /\ peer' \in [Ends -> Peer] /\ peer'[e] = p
        /\ \A f \in Ends \ {e} : peer'[f] = peer[f]
    BY <2>1, <2>2 DEF TypeOK
  <2>4. open[e] = NoAttempt
    BY <2>1 DEF PeerInv, OpenIsConnected
  <2>5. OpenIsConnected' /\ PeersHaveAttempts'
    BY <1>1, <2>1, <2>2, <2>3, <2>4 DEF PeerInv, OpenIsConnected, PeersHaveAttempts
  <2> QED
    BY <1>3, <2>1, <2>2, <2>3, <2>4, <2>5 DEF TypeOK
<1> QED
  BY <1>2, <1>3

LEMMA PeerMoves ==
  ASSUME TypeOK, NEW e \in Ends, NEW p \in Peer, SetPeer(e, p)
  PROVE  /\ peer' \in [Ends -> Peer] /\ peer'[e] = p
         /\ \A f \in Ends \ {e} : peer'[f] = peer[f]
BY DEF TypeOK, SetPeer

\* A peer in another state.
With(q, st, n) == [q EXCEPT !.state = st, !.since = n]

LEMMA PeerWith ==
  ASSUME NEW q \in Peer, NEW n \in 0..Timeout + 1,
         NEW st \in {"None", "Outgoing", "Connected", "ShutdownRequested", "Disconnected"}
  PROVE  /\ With(q, st, n) \in Peer
         /\ With(q, st, n).state = st
         /\ With(q, st, n).time = q.time
         /\ With(q, st, n).tries = q.tries
<1> DEFINE r == [q EXCEPT !.state = st]
           p == [r EXCEPT !.since = n]
<1>1. r \in Peer /\ r.state = st /\ r.time = q.time /\ r.tries = q.tries
  BY DEF Peer
<1> HIDE DEF r
<1>2. p \in Peer /\ p.state = r.state /\ p.time = r.time /\ p.tries = r.tries
  BY <1>1 DEF Peer
<1> QED
  BY <1>1, <1>2 DEF r, With

\* An attempt that the client no longer makes has been answered.
LEMMA StillAnswered ==
  ASSUME AttemptsAnswered, UNCHANGED <<attempts, compatible>>,
         told \subseteq told', closed[Client] \subseteq closed'[Client],
         peer[Client].state = "Outgoing" =>
           \/ peer'[Client].state = "Outgoing" /\ peer'[Client].time = peer[Client].time
           \/ peer[Client].time \in told' \cup closed'[Client]
           \/ ~compatible
  PROVE  AttemptsAnswered'
BY DEF AttemptsAnswered, Is

\* A step that leaves peers and handlers as they are, and tells the truth.
LEMMA OnlySends ==
  ASSUME Inv, UNCHANGED <<compatible, stops, peer, request, attempts, handlerVars>>,
         NEW e \in Ends, NEW d \in Datagram, Transmit(e, d),
         \A t \in Attempts : d = Timed("ConnectAccept", t) => t \in accepted,
         \A t \in Attempts : d = Timed("Disconnect", t) => t \in closed[Client] \cup closed[Server],
         d = Plain("InvalidProtocol") => ~compatible
  PROVE  Inv'
<1>1. net' \in [Ends -> SUBSET Datagram] /\ \A f \in Ends : net'[f] \subseteq net[f] \cup {d}
  BY TransmitAdds DEF Inv, TypeOK
<1>2. TypeOK'
  BY <1>1 DEF Inv, TypeOK, handlerVars
<1>3. PeerInv'
  BY DEF Inv, PeerInv, OpenIsConnected, PeersHaveAttempts, AcceptedIsKnown, ShutdownIsClosed, handlerVars
<1>4. DatagramsAreTrue'
  BY <1>1, TrueStaysTrue DEF Inv, Grows, handlerVars
<1>5. AttemptsAnswered'
  BY StillAnswered DEF Inv, handlerVars
<1> QED
  BY <1>2, <1>3, <1>4, <1>5 DEF Inv

-----------------------------------------------------------------------------
(* The handlers' calls.                                                    *)

LEMMA ConnectKeepsInv == ASSUME Inv, Connect PROVE Inv'
<1> USE EndsAreTwo, SizesArePositive
<1> DEFINE t == attempts + 1
           p == Outgoing(t)
           d == Timed("ConnectRequest", t)
<1>1. t \in Attempts /\ attempts' = t /\ attempts \in Nat
  BY DEF Inv, TypeOK, Connect, Attempts
<1>2. p \in Peer /\ p.state = "Outgoing" /\ p.time = t
  BY <1>1 DEF Outgoing, Peer
<1>3. /\ d \in Datagram /\ \A u \in Attempts : d # Timed("ConnectAccept", u) /\ d # Timed("Disconnect", u)
      /\ d # Plain("InvalidProtocol")
  BY <1>1, DatagramTypes DEF Kinds
<1>4. SetPeer(Client, p) /\ Transmit(Client, d) /\ peer[Client] = NoPeer
  BY DEF Connect
<1> HIDE DEF p, d
<1>5. /\ peer' \in [Ends -> Peer] /\ peer'[Client] = p
      /\ \A f \in Ends \ {Client} : peer'[f] = peer[f]
  BY <1>2, <1>4, PeerMoves DEF Inv
<1>6. net' \in [Ends -> SUBSET Datagram] /\ \A f \in Ends : net'[f] \subseteq net[f] \cup {d}
  BY <1>3, <1>4, TransmitAdds DEF Inv, TypeOK
<1>7. UNCHANGED <<compatible, stops, request, open, accepted, told, closed>>
  BY DEF Connect, handlerVars
<1>8. TypeOK'
  BY <1>1, <1>5, <1>6, <1>7 DEF Inv, TypeOK, Attempts
<1>9. PeerInv'
  <2>1. open[Client] = NoAttempt
    BY <1>4 DEF Inv, PeerInv, OpenIsConnected, NoPeer
  <2> QED
    BY <2>1, <1>1, <1>2, <1>5, <1>7, EndsDiffer
       DEF Inv, PeerInv, OpenIsConnected, PeersHaveAttempts, AcceptedIsKnown, ShutdownIsClosed
<1>10. DatagramsAreTrue'
  BY <1>3, <1>6, <1>7, TrueStaysTrue DEF Inv, Grows
<1>11. AttemptsAnswered'
  <2>1. \A u \in 1..attempts : u \in told \cup closed[Client] \/ ~compatible
    BY <1>4 DEF Inv, AttemptsAnswered, Is, NoPeer
  <2>2. \A u \in 1..t : u \in 1..attempts \/ u = t
    BY <1>1
  <2> QED
    BY <2>1, <2>2, <1>1, <1>2, <1>5, <1>7 DEF AttemptsAnswered, Is
<1> QED
  BY <1>8, <1>9, <1>10, <1>11 DEF Inv

LEMMA RejectKeepsInv == ASSUME Inv, Reject PROVE Inv'
<1> USE EndsAreTwo
<1> DEFINE d == Timed("Disconnect", request)
<1>1. request \in Attempts
  BY DEF Inv, TypeOK, Reject
<1>2. /\ d \in Datagram /\ \A u \in Attempts : d # Timed("ConnectAccept", u)
      /\ \A u \in Attempts : d = Timed("Disconnect", u) => u = request
      /\ d # Plain("InvalidProtocol")
  BY <1>1, DatagramTypes DEF Kinds
<1>3. Transmit(Server, d)
  BY DEF Reject
<1> HIDE DEF d
<1>4. net' \in [Ends -> SUBSET Datagram] /\ \A f \in Ends : net'[f] \subseteq net[f] \cup {d}
  BY <1>2, <1>3, TransmitAdds DEF Inv, TypeOK
<1>5. /\ UNCHANGED <<compatible, stops, peer, attempts, open, accepted, told>>
      /\ request' = NoAttempt
      /\ closed' = [closed EXCEPT ![Server] = @ \cup {request}]
  BY DEF Reject
<1>6. /\ closed' \in [Ends -> SUBSET ({NoAttempt} \cup Attempts)]
      /\ \A f \in Ends : closed[f] \subseteq closed'[f]
      /\ request \in closed'[Server]
  BY <1>1, <1>5 DEF Inv, TypeOK
<1>7. TypeOK'
  BY <1>4, <1>5, <1>6 DEF Inv, TypeOK
<1>8. PeerInv'
  BY <1>5, <1>6 DEF Inv, PeerInv, OpenIsConnected, PeersHaveAttempts, AcceptedIsKnown, ShutdownIsClosed
<1>9. DatagramsAreTrue'
  BY <1>2, <1>4, <1>5, <1>6, TrueStaysTrue DEF Inv, Grows
<1>10. AttemptsAnswered'
  BY <1>5, <1>6, StillAnswered DEF Inv
<1> QED
  BY <1>7, <1>8, <1>9, <1>10 DEF Inv

LEMMA AcceptKeepsInv == ASSUME Inv, Accept PROVE Inv'
<1> USE EndsAreTwo
<1>1. request \in Attempts
  BY DEF Inv, TypeOK, Accept
<1>2. /\ UNCHANGED <<compatible, stops, attempts, told, closed>> /\ request' = NoAttempt
  BY DEF Accept
<1>3. CASE peer[Server] # NoPeer
  <2>1. UNCHANGED <<peer, net, open, accepted>>
    BY <1>3 DEF Accept
  <2>2. TypeOK'
    BY <1>2, <2>1 DEF Inv, TypeOK
  <2>3. PeerInv'
    BY <1>2, <2>1 DEF Inv, PeerInv, OpenIsConnected, PeersHaveAttempts, AcceptedIsKnown, ShutdownIsClosed
  <2>4. DatagramsAreTrue'
    BY <1>2, <2>1, QuietStaysTrue DEF Inv, Grows
  <2>5. AttemptsAnswered'
    BY <1>2, <2>1, StillAnswered DEF Inv
  <2> QED
    BY <2>2, <2>3, <2>4, <2>5 DEF Inv
<1>4. CASE peer[Server] = NoPeer
  <2> DEFINE d == Timed("ConnectAccept", request)
             p == Accepted(request)
  <2>1. /\ d \in Datagram /\ \A u \in Attempts : d # Timed("Disconnect", u)
        /\ \A u \in Attempts : d = Timed("ConnectAccept", u) => u = request
        /\ d # Plain("InvalidProtocol")
    BY <1>1, DatagramTypes DEF Kinds
  <2>2. p \in Peer /\ p.state = "Connected" /\ p.time = request
    BY <1>1, SizesArePositive DEF Accepted, Peer
  <2>3. /\ SetPeer(Server, p) /\ Transmit(Server, d)
        /\ accepted' = accepted \cup {request}
        /\ open' = [open EXCEPT ![Server] = IF @ = NoAttempt THEN request ELSE Confused]
    BY <1>4 DEF Accept, ReportConnected
  <2> HIDE DEF d, p
  <2>4. open[Server] = NoAttempt
    BY <1>4 DEF Inv, PeerInv, OpenIsConnected, NoPeer
  <2>5. /\ open' \in [Ends -> {NoAttempt} \cup Attempts] /\ open'[Server] = request
        /\ open'[Client] = open[Client]
    BY <1>1, <2>3, <2>4, EndsDiffer DEF Inv, TypeOK
  <2>6. /\ peer' \in [Ends -> Peer] /\ peer'[Server] = p /\ peer'[Client] = peer[Client]
    BY <2>2, <2>3, PeerMoves, EndsDiffer DEF Inv
  <2>7. net' \in [Ends -> SUBSET Datagram] /\ \A f \in Ends : net'[f] \subseteq net[f] \cup {d}
    BY <2>1, <2>3, TransmitAdds DEF Inv, TypeOK
  <2>8. TypeOK'
    BY <1>1, <1>2, <2>3, <2>5, <2>6, <2>7 DEF Inv, TypeOK
  <2>9. PeerInv'
    BY <1>1, <1>2, <2>2, <2>3, <2>5, <2>6
       DEF Inv, PeerInv, OpenIsConnected, PeersHaveAttempts, AcceptedIsKnown, ShutdownIsClosed, Ends
  <2>10. DatagramsAreTrue'
    BY <1>2, <2>1, <2>3, <2>7, TrueStaysTrue DEF Inv, Grows
  <2>11. AttemptsAnswered'
    BY <1>2, <2>6, StillAnswered DEF Inv
  <2> QED
    BY <2>8, <2>9, <2>10, <2>11 DEF Inv
<1> QED
  BY <1>3, <1>4

LEMMA DisconnectKeepsInv == ASSUME Inv, NEW e \in Ends, Disconnect(e) PROVE Inv'
<1> USE EndsAreTwo
<1> DEFINE t == peer[e].time
           d == Timed("Disconnect", t)
           p == With(peer[e], "ShutdownRequested", 0)
<1>1. t \in Attempts /\ peer[e] \in Peer
  BY DEF Inv, TypeOK, PeerInv, PeersHaveAttempts, Disconnect, Is
<1>2. /\ d \in Datagram /\ \A u \in Attempts : d # Timed("ConnectAccept", u)
      /\ \A u \in Attempts : d = Timed("Disconnect", u) => u = t
      /\ d # Plain("InvalidProtocol")
  BY <1>1, DatagramTypes DEF Kinds
<1>3. p \in Peer /\ p.state = "ShutdownRequested" /\ p.time = t
  <2>1. 0 \in 0..Timeout + 1
    BY SizesArePositive
  <2>2. "ShutdownRequested" \in {"None", "Outgoing", "Connected", "ShutdownRequested", "Disconnected"}
    OBVIOUS
  <2> QED
    BY <1>1, <2>1, <2>2, PeerWith
<1>4. /\ SetPeer(e, p) /\ Transmit(e, d)
      /\ closed' = [closed EXCEPT ![e] = @ \cup {t}]
      /\ UNCHANGED <<compatible, stops, request, attempts, accepted, told>>
  BY DEF Disconnect, Shutdown, With
<1>5. open' = IF peer[e].state = "Connected" THEN [open EXCEPT ![e] = NoAttempt] ELSE open
  BY DEF Disconnect, Is, ReportEnded
<1> HIDE DEF t, d, p
<1>6. /\ peer' \in [Ends -> Peer] /\ peer'[e] = p
      /\ \A f \in Ends \ {e} : peer'[f] = peer[f]
  BY <1>3, <1>4, PeerMoves DEF Inv
<1>7. net' \in [Ends -> SUBSET Datagram] /\ \A f \in Ends : net'[f] \subseteq net[f] \cup {d}
  BY <1>2, <1>4, TransmitAdds DEF Inv, TypeOK
<1>8. /\ closed' \in [Ends -> SUBSET ({NoAttempt} \cup Attempts)]
      /\ \A f \in Ends : closed[f] \subseteq closed'[f]
      /\ t \in closed'[e]
  BY <1>1, <1>4 DEF Inv, TypeOK
<1>9. /\ open' \in [Ends -> {NoAttempt} \cup Attempts] /\ open'[e] = NoAttempt
      /\ \A f \in Ends \ {e} : open'[f] = open[f]
  BY <1>5 DEF Inv, TypeOK, PeerInv, OpenIsConnected
<1>10. TypeOK'
  BY <1>4, <1>6, <1>7, <1>8, <1>9 DEF Inv, TypeOK
<1>11. PeerInv'
  BY <1>1, <1>3, <1>4, <1>6, <1>8, <1>9
     DEF Inv, PeerInv, OpenIsConnected, PeersHaveAttempts, AcceptedIsKnown, ShutdownIsClosed
<1>12. DatagramsAreTrue'
  <2>1. Grows
    BY <1>4, <1>8 DEF Grows
  <2>2. t \in closed'[Client] \cup closed'[Server]
    BY <1>8 DEF Ends
  <2> QED
    BY <1>2, <1>7, <2>1, <2>2, TrueStaysTrue DEF Inv
<1>13. AttemptsAnswered'
  <2>1. peer[Client].state = "Outgoing" =>
          (peer'[Client].state = "Outgoing" /\ peer'[Client].time = peer[Client].time)
            \/ peer[Client].time \in closed'[Client]
    BY <1>6, <1>8 DEF t
  <2> QED
    BY <1>4, <1>8, <2>1, StillAnswered DEF Inv
<1> QED
  BY <1>10, <1>11, <1>12, <1>13 DEF Inv

LEMMA RestartKeepsInv == ASSUME Inv, NEW e \in Ends, Restart(e) PROVE Inv'
<1> USE EndsAreTwo
<1> DEFINE t == peer[e].time
           d == Timed("Disconnect", t)
<1>1. NoPeer \in Peer /\ NoPeer.state = "None"
  BY SizesArePositive DEF NoPeer, Peer, NoAttempt
<1>2. /\ SetPeer(e, NoPeer)
      /\ open' = [open EXCEPT ![e] = NoAttempt]
      /\ closed' = [closed EXCEPT ![e] = @ \cup {t}]
      /\ request' \in {request, NoAttempt} /\ stops' \in 0..MaxStops
      /\ UNCHANGED <<compatible, attempts, accepted, told>>
  BY SizesArePositive DEF Restart, ReportEnded, Inv, TypeOK
<1>3. t \in {NoAttempt} \cup Attempts
  BY DEF Inv, TypeOK, Peer
<1>4. /\ peer' \in [Ends -> Peer] /\ peer'[e] = NoPeer
      /\ \A f \in Ends \ {e} : peer'[f] = peer[f]
  BY <1>1, <1>2, PeerMoves DEF Inv
<1>5. /\ closed' \in [Ends -> SUBSET ({NoAttempt} \cup Attempts)]
      /\ \A f \in Ends : closed[f] \subseteq closed'[f]
      /\ t \in closed'[e]
  BY <1>2, <1>3 DEF Inv, TypeOK
<1>6. /\ open' \in [Ends -> {NoAttempt} \cup Attempts] /\ open'[e] = NoAttempt
      /\ \A f \in Ends \ {e} : open'[f] = open[f]
  BY <1>2 DEF Inv, TypeOK
<1>7. Grows
  BY <1>2, <1>5 DEF Grows
<1>8. net' \in [Ends -> SUBSET Datagram] /\ DatagramsAreTrue'
  <2>1. CASE UNCHANGED net
    BY <1>7, <2>1, QuietStaysTrue DEF Inv, TypeOK
  <2>2. CASE Is(e, {"Outgoing", "Connected"}) /\ Transmit(e, d)
    <3>1. t \in Attempts
      BY <2>2 DEF Inv, PeerInv, PeersHaveAttempts, Is
    <3>2. /\ d \in Datagram /\ \A u \in Attempts : d # Timed("ConnectAccept", u)
          /\ \A u \in Attempts : d = Timed("Disconnect", u) => u = t
          /\ d # Plain("InvalidProtocol")
      BY <3>1, DatagramTypes DEF Kinds
    <3> HIDE DEF d, t
    <3>3. net' \in [Ends -> SUBSET Datagram] /\ \A f \in Ends : net'[f] \subseteq net[f] \cup {d}
      BY <2>2, <3>2, TransmitAdds DEF Inv, TypeOK
    <3>4. t \in closed'[Client] \cup closed'[Server]
      BY <1>5 DEF Ends
    <3> QED
      BY <1>7, <3>2, <3>3, <3>4, TrueStaysTrue DEF Inv
  <2> QED
    BY <2>1, <2>2 DEF Restart
<1>9. TypeOK'
  BY <1>2, <1>4, <1>5, <1>6, <1>8 DEF Inv, TypeOK
<1>10. PeerInv'
  BY <1>1, <1>2, <1>4, <1>5, <1>6
     DEF Inv, PeerInv, OpenIsConnected, PeersHaveAttempts, AcceptedIsKnown, ShutdownIsClosed
<1>11. AttemptsAnswered'
  <2>1. peer[Client].state = "Outgoing" =>
          (peer'[Client].state = "Outgoing" /\ peer'[Client].time = peer[Client].time)
            \/ peer[Client].time \in closed'[Client]
    BY <1>4, <1>5
  <2> QED
    BY <1>2, <1>5, <2>1, StillAnswered DEF Inv
<1> QED
  BY <1>8, <1>9, <1>10, <1>11 DEF Inv

-----------------------------------------------------------------------------
(* Manager.receive.                                                        *)

LEMMA PlainTypes ==
  ASSUME NEW k \in Kinds
  PROVE  /\ Plain(k) \in Datagram
         /\ \A l \in Kinds, u \in Attempts : Plain(k) # Timed(l, u)
         /\ \A l \in Kinds : Plain(k) = Plain(l) => k = l
BY SizesArePositive DEF Timed, Plain, Datagram, Attempts, NoAttempt

\* Sending what is true for good anyhow.
LEMMA PlainStaysTrue ==
  ASSUME Inv, Grows, NEW e \in Ends, NEW k \in Kinds \ {"InvalidProtocol"}, Transmit(e, Plain(k))
  PROVE  net' \in [Ends -> SUBSET Datagram] /\ DatagramsAreTrue'
<1> DEFINE d == Plain(k)
<1>1. /\ d \in Datagram /\ d # Plain("InvalidProtocol")
      /\ \A u \in Attempts : d # Timed("ConnectAccept", u) /\ d # Timed("Disconnect", u)
  BY PlainTypes DEF Kinds
<1> HIDE DEF d
<1>2. net' \in [Ends -> SUBSET Datagram] /\ \A f \in Ends : net'[f] \subseteq net[f] \cup {d}
  BY <1>1, TransmitAdds DEF Inv, TypeOK, d
<1> QED
  BY <1>1, <1>2, TrueStaysTrue DEF Inv

LEMMA QuietKeepsNet ==
  ASSUME Inv, Grows, UNCHANGED net
  PROVE  net' \in [Ends -> SUBSET Datagram] /\ DatagramsAreTrue'
BY QuietStaysTrue DEF Inv, TypeOK

\* disconnectPeerForce, whatever is sent with it.
LEMMA ForceKeepsInv ==
  ASSUME Inv, NEW e \in Ends, NEW reason, ForceDisconnect(e, reason), peer[e].state # "None",
         UNCHANGED <<compatible, stops, request, attempts, accepted, closed>>,
         net' \in [Ends -> SUBSET Datagram], DatagramsAreTrue',
         e = Client /\ peer[e].state = "Outgoing" => Reported(e, reason) \/ ~compatible
  PROVE  Inv'
<1> USE EndsAreTwo
<1>1. /\ peer' \in [Ends -> Peer]
      /\ open' \in [Ends -> {NoAttempt} \cup Attempts]
      /\ told' \subseteq Attempts /\ told \subseteq told'
      /\ OpenIsConnected' /\ PeersHaveAttempts'
      /\ \A f \in Ends \ {e} : peer'[f] = peer[f]
      /\ peer'[e].state \notin {"Connected", "Outgoing"}
      /\ peer'[e].state = "ShutdownRequested" => peer'[e] = peer[e]
      /\ e = Client /\ Reported(e, reason) => peer[e].time \in told'
  BY ForceEnds DEF Inv
<1>2. TypeOK'
  BY <1>1 DEF Inv, TypeOK
<1>3. PeerInv'
  BY <1>1 DEF Inv, PeerInv, AcceptedIsKnown, ShutdownIsClosed
<1>4. AttemptsAnswered'
  <2>1. peer[Client].state = "Outgoing" =>
          \/ peer'[Client].state = "Outgoing" /\ peer'[Client].time = peer[Client].time
          \/ peer[Client].time \in told'
          \/ ~compatible
    BY <1>1
  <2> QED
    BY <1>1, <2>1, StillAnswered DEF Inv
<1> QED
  BY <1>2, <1>3, <1>4 DEF Inv

\* A timer runs on, or a peer that is neither connected nor connecting goes
\* its way.
LEMMA TimerKeepsInv ==
  ASSUME Inv, NEW e \in Ends, NEW p \in Peer, SetPeer(e, p),
         \/ p.state = peer[e].state /\ p.time = peer[e].time
         \/ /\ peer[e].state \in {"ShutdownRequested", "Disconnected"}
            /\ p.state = "None" \/ (p.state = "Disconnected" /\ p.time = peer[e].time),
         UNCHANGED <<compatible, stops, request, attempts, handlerVars>>,
         net' \in [Ends -> SUBSET Datagram], DatagramsAreTrue'
  PROVE  Inv'
<1> USE EndsAreTwo
<1>1. /\ peer' \in [Ends -> Peer] /\ peer'[e] = p
      /\ \A f \in Ends \ {e} : peer'[f] = peer[f]
  BY PeerMoves DEF Inv
<1>2. UNCHANGED <<open, accepted, told, closed>>
  BY DEF handlerVars
<1>3. TypeOK'
  BY <1>1, <1>2 DEF Inv, TypeOK
<1>4. PeerInv'
  BY <1>1, <1>2 DEF Inv, PeerInv, OpenIsConnected, PeersHaveAttempts, AcceptedIsKnown, ShutdownIsClosed
<1>5. AttemptsAnswered'
  <2>1. peer[Client].state = "Outgoing" =>
          peer'[Client].state = "Outgoing" /\ peer'[Client].time = peer[Client].time
    BY <1>1
  <2> QED
    BY <1>2, <2>1, StillAnswered DEF Inv
<1> QED
  BY <1>3, <1>4, <1>5 DEF Inv

LEMMA ReceiveConnectRequestKeepsInv ==
  ASSUME Inv, NEW t \in Attempts, ReceiveConnectRequest(t)
  PROVE  Inv'
<1> USE EndsAreTwo
<1>1. CASE UNCHANGED <<peer, request, net, handlerVars>>
  <2>1. UNCHANGED <<open, accepted, told, closed, compatible, stops, attempts>>
    BY <1>1 DEF handlerVars, ReceiveConnectRequest
  <2>2. TypeOK'
    BY <1>1, <2>1 DEF Inv, TypeOK
  <2>3. PeerInv'
    BY <1>1, <2>1 DEF Inv, PeerInv, OpenIsConnected, PeersHaveAttempts, AcceptedIsKnown, ShutdownIsClosed
  <2>4. DatagramsAreTrue'
    BY <1>1, <2>1, QuietStaysTrue DEF Inv, Grows
  <2>5. AttemptsAnswered'
    BY <1>1, <2>1, StillAnswered DEF Inv
  <2> QED
    BY <2>2, <2>3, <2>4, <2>5 DEF Inv
<1>2. CASE /\ peer[Server].state = "Connected" /\ t = peer[Server].time
           /\ Transmit(Server, Timed("ConnectAccept", t))
           /\ UNCHANGED <<peer, request, handlerVars>>
  <2>1. t \in accepted
    BY <1>2 DEF Inv, PeerInv, AcceptedIsKnown
  <2> DEFINE d == Timed("ConnectAccept", t)
  <2>2. /\ d \in Datagram /\ \A u \in Attempts : d # Timed("Disconnect", u)
        /\ \A u \in Attempts : d = Timed("ConnectAccept", u) => u = t
        /\ d # Plain("InvalidProtocol")
    BY DatagramTypes DEF Kinds
  <2>3. Transmit(Server, d)
    BY <1>2
  <2> HIDE DEF d
  <2>4. UNCHANGED <<compatible, stops, peer, request, attempts, handlerVars>>
    BY <1>2 DEF ReceiveConnectRequest
  <2> QED
    BY <2>1, <2>2, <2>3, <2>4, OnlySends
<1>3. CASE /\ request' = t
           /\ SetPeer(Server, NoPeer)
           /\ IF Is(Server, {"Connected"}) THEN ReportEnded(Server) ELSE UNCHANGED open
           /\ UNCHANGED <<net, accepted, told, closed>>
  <2>1. NoPeer \in Peer /\ NoPeer.state = "None"
    BY SizesArePositive DEF NoPeer, Peer, NoAttempt
  <2>2. /\ peer' \in [Ends -> Peer] /\ peer'[Server] = NoPeer
        /\ peer'[Client] = peer[Client]
    BY <1>3, <2>1, PeerMoves, EndsDiffer DEF Inv
  <2>3. /\ open' \in [Ends -> {NoAttempt} \cup Attempts] /\ open'[Server] = NoAttempt
        /\ open'[Client] = open[Client]
    BY <1>3, EndsDiffer DEF Inv, TypeOK, PeerInv, OpenIsConnected, ReportEnded, Is
  <2>4. UNCHANGED <<compatible, stops, attempts, net, accepted, told, closed>> /\ request' = t
    BY <1>3 DEF ReceiveConnectRequest
  <2>5. TypeOK'
    BY <2>2, <2>3, <2>4 DEF Inv, TypeOK
  <2>6. PeerInv'
    BY <2>1, <2>2, <2>3, <2>4
       DEF Inv, PeerInv, OpenIsConnected, PeersHaveAttempts, AcceptedIsKnown, ShutdownIsClosed, Ends
  <2>7. DatagramsAreTrue'
    BY <2>4, QuietStaysTrue DEF Inv, Grows
  <2>8. AttemptsAnswered'
    BY <2>2, <2>4, StillAnswered DEF Inv
  <2> QED
    BY <2>5, <2>6, <2>7, <2>8 DEF Inv
<1> QED
  BY <1>1, <1>2, <1>3 DEF ReceiveConnectRequest, Is

LEMMA ReceiveIncompatibleKeepsInv ==
  ASSUME Inv, NEW t \in Attempts, ReceiveIncompatible(t)
  PROVE  Inv'
<1> DEFINE d == Plain("InvalidProtocol")
<1>1. /\ d \in Datagram
      /\ \A u \in Attempts : d # Timed("ConnectAccept", u) /\ d # Timed("Disconnect", u)
  BY PlainTypes DEF Kinds
<1>2. /\ Transmit(Server, d) /\ ~compatible
      /\ UNCHANGED <<compatible, stops, peer, request, attempts, handlerVars>>
  BY DEF ReceiveIncompatible
<1> HIDE DEF d
<1> QED
  BY <1>1, <1>2, OnlySends, EndsAreTwo

LEMMA ReceiveConnectAcceptKeepsInv ==
  ASSUME Inv, NEW t \in Attempts, ReceiveConnectAccept(t)
  PROVE  Inv'
<1> USE EndsAreTwo
<1> DEFINE p == With(peer[Client], "Connected", 0)
<1>1. peer[Client] \in Peer /\ peer[Client].state = "Outgoing" /\ peer[Client].time = t
  BY DEF Inv, TypeOK, ReceiveConnectAccept, Answers, Is
<1>2. p \in Peer /\ p.state = "Connected" /\ p.time = t
  <2>1. 0 \in 0..Timeout + 1
    BY SizesArePositive
  <2> QED
    BY <1>1, <2>1, PeerWith
<1>3. /\ SetPeer(Client, p)
      /\ open' = [open EXCEPT ![Client] = IF @ = NoAttempt THEN t ELSE Confused]
      /\ told' = told \cup {t}
      /\ UNCHANGED <<compatible, stops, request, attempts, net, accepted, closed>>
  BY <1>1 DEF ReceiveConnectAccept, ReportConnected, With
<1> HIDE DEF p
<1>4. open[Client] = NoAttempt
  BY <1>1 DEF Inv, PeerInv, OpenIsConnected
<1>5. /\ peer' \in [Ends -> Peer] /\ peer'[Client] = p
      /\ peer'[Server] = peer[Server]
  BY <1>2, <1>3, PeerMoves, EndsDiffer DEF Inv
<1>6. /\ open' \in [Ends -> {NoAttempt} \cup Attempts] /\ open'[Client] = t
      /\ open'[Server] = open[Server]
  BY <1>3, <1>4, EndsDiffer DEF Inv, TypeOK
<1>7. TypeOK'
  BY <1>3, <1>5, <1>6 DEF Inv, TypeOK
<1>8. PeerInv'
  BY <1>2, <1>3, <1>5, <1>6
     DEF Inv, PeerInv, OpenIsConnected, PeersHaveAttempts, AcceptedIsKnown, ShutdownIsClosed, Ends
<1>9. DatagramsAreTrue'
  BY <1>3, QuietStaysTrue DEF Inv, Grows
<1>10. AttemptsAnswered'
  BY <1>1, <1>3, StillAnswered DEF Inv
<1> QED
  BY <1>7, <1>8, <1>9, <1>10 DEF Inv

LEMMA ReceiveDisconnectKeepsInv ==
  ASSUME Inv, NEW e \in Ends, NEW t \in Attempts, ReceiveDisconnect(e, t)
  PROVE  Inv'
<1> USE EndsAreTwo
<1> DEFINE reason == IF Is(e, {"Outgoing"}) THEN "Rejected" ELSE "RemoteConnectionClose"
<1>1. /\ Transmit(e, Plain("ShutdownOk"))
      /\ UNCHANGED <<compatible, stops, request, attempts, accepted, closed>>
  BY DEF ReceiveDisconnect
<1>2. net' \in [Ends -> SUBSET Datagram] /\ DatagramsAreTrue'
  BY <1>1, PlainStaysTrue DEF Kinds, Grows
<1>3. CASE Concerns(e, t)
  <2>1. ForceDisconnect(e, reason) /\ peer[e].state \in {"Outgoing", "Connected"}
    BY <1>3 DEF ReceiveDisconnect, Concerns, Is
  <2>2. peer[e].state = "Outgoing" => Reported(e, reason)
    BY DEF Reported, Is
  <2> HIDE DEF reason
  <2> QED
    BY <1>1, <1>2, <2>1, <2>2, ForceKeepsInv
<1>4. CASE ~Concerns(e, t)
  <2>1. UNCHANGED <<peer, open, told>>
    BY <1>4 DEF ReceiveDisconnect
  <2>2. TypeOK'
    BY <1>1, <1>2, <2>1 DEF Inv, TypeOK
  <2>3. PeerInv'
    BY <1>1, <2>1 DEF Inv, PeerInv, OpenIsConnected, PeersHaveAttempts, AcceptedIsKnown, ShutdownIsClosed
  <2>4. AttemptsAnswered'
    BY <1>1, <2>1, StillAnswered DEF Inv
  <2> QED
    BY <1>2, <2>2, <2>3, <2>4 DEF Inv
<1> QED
  BY <1>3, <1>4

LEMMA ReceiveKeepsInv ==
  ASSUME Inv, NEW e \in Ends, Receive(e)
  PROVE  Inv'
<1>1. ASSUME NEW t \in Attempts, ReceiveDisconnect(e, t)
      PROVE  Inv'
  BY <1>1, ReceiveDisconnectKeepsInv
<1>2. CASE ReceivePeerNotFound(e)
  <2>1. /\ ForceDisconnect(e, "PeerNotFound") /\ peer[e].state = "Connected"
        /\ UNCHANGED <<compatible, stops, request, attempts, net, accepted, closed>>
    BY <1>2 DEF ReceivePeerNotFound, Is
  <2>2. net' \in [Ends -> SUBSET Datagram] /\ DatagramsAreTrue'
    BY <2>1, QuietKeepsNet DEF Grows
  <2> QED
    BY <2>1, <2>2, ForceKeepsInv
<1>3. CASE ReceiveFromStranger(e)
  <2> DEFINE d == Plain("PeerNotFound")
  <2>1. /\ d \in Datagram /\ d # Plain("InvalidProtocol")
        /\ \A u \in Attempts : d # Timed("ConnectAccept", u) /\ d # Timed("Disconnect", u)
    BY PlainTypes DEF Kinds
  <2>2. /\ Transmit(e, d)
        /\ UNCHANGED <<compatible, stops, peer, request, attempts, handlerVars>>
    BY <1>3 DEF ReceiveFromStranger
  <2> HIDE DEF d
  <2> QED
    BY <2>1, <2>2, OnlySends
<1>4. CASE ReceiveShutdownOk(e)
  <2> DEFINE p == [peer[e] EXCEPT !.state = "Disconnected"]
  <2>1. /\ SetPeer(e, p) /\ peer[e].state = "ShutdownRequested"
        /\ UNCHANGED <<compatible, stops, request, attempts, net, handlerVars>>
    BY <1>4 DEF ReceiveShutdownOk, Is
  <2>2. p \in Peer /\ p.state = "Disconnected" /\ p.time = peer[e].time
    BY DEF Inv, TypeOK, Peer
  <2>3. net' \in [Ends -> SUBSET Datagram] /\ DatagramsAreTrue'
    BY <2>1, QuietKeepsNet DEF Grows, handlerVars
  <2> HIDE DEF p
  <2> QED
    BY <2>1, <2>2, <2>3, TimerKeepsInv
<1>5. CASE ReceiveTraffic(e)
  <2> DEFINE p == [peer[e] EXCEPT !.since = 0]
  <2>1. /\ SetPeer(e, p)
        /\ Transmit(e, Plain("Traffic")) \/ UNCHANGED net
        /\ UNCHANGED <<compatible, stops, request, attempts, handlerVars>>
    BY <1>5 DEF ReceiveTraffic
  <2>2. p \in Peer /\ p.state = peer[e].state /\ p.time = peer[e].time
    BY SizesArePositive DEF Inv, TypeOK, Peer
  <2>3. net' \in [Ends -> SUBSET Datagram] /\ DatagramsAreTrue'
    BY <2>1, QuietKeepsNet, PlainStaysTrue DEF Grows, handlerVars, Kinds
  <2> HIDE DEF p
  <2> QED
    BY <2>1, <2>2, <2>3, TimerKeepsInv
<1> QED
  BY <1>1, <1>2, <1>3, <1>4, <1>5 DEF Receive

LEMMA ReceiveInvalidProtocolKeepsInv == ASSUME Inv, ReceiveInvalidProtocol PROVE Inv'
<1>1. /\ ForceDisconnect(Client, "InvalidProtocol") /\ peer[Client].state = "Outgoing"
      /\ UNCHANGED <<compatible, stops, request, attempts, net, accepted, closed>>
      /\ Plain("InvalidProtocol") \in net[Client]
  BY DEF ReceiveInvalidProtocol, Is
<1>2. ~compatible
  BY <1>1, EndsAreTwo DEF Inv, DatagramsAreTrue
<1>3. net' \in [Ends -> SUBSET Datagram] /\ DatagramsAreTrue'
  BY <1>1, QuietKeepsNet DEF Grows
<1> QED
  BY <1>1, <1>2, <1>3, ForceKeepsInv, EndsAreTwo

-----------------------------------------------------------------------------
(* Manager.update.                                                         *)

LEMMA WaitedTypes ==
  ASSUME NEW p \in Peer
  PROVE  Waited(p) \in Peer /\ Waited(p).state = p.state /\ Waited(p).time = p.time
         /\ Waited(p).tries = p.tries
<1> DEFINE n == IF p.since > Timeout THEN p.since ELSE p.since + 1
           r == [p EXCEPT !.since = n]
<1>1. n \in 0..Timeout + 1
  <2>1. p.since \in 0..Timeout + 1 /\ Timeout \in Nat
    BY SizesArePositive DEF Peer
  <2> QED
    BY <2>1
<1> HIDE DEF n
<1>2. r \in Peer /\ r.state = p.state /\ r.time = p.time /\ r.tries = p.tries
  BY <1>1 DEF Peer
<1> QED
  BY <1>2 DEF Waited, n

LEMMA UpdateKeepsInv == ASSUME Inv, NEW e \in Ends, Update(e) PROVE Inv'
<1> USE EndsAreTwo
<1> DEFINE q == Waited(peer[e])
<1>1. peer[e] \in Peer
  BY DEF Inv, TypeOK
<1>2. q \in Peer /\ q.state = peer[e].state /\ q.time = peer[e].time /\ q.tries = peer[e].tries
  BY <1>1, WaitedTypes
<1>3. CASE UpdateConnected(e)
  <2>1. peer[e].state = "Connected"
        /\ UNCHANGED <<compatible, stops, request, attempts, accepted, closed>>
    BY <1>3 DEF UpdateConnected, Is
  <2>2. CASE ForceDisconnect(e, "Timeout") /\ UNCHANGED net
    <3>1. net' \in [Ends -> SUBSET Datagram] /\ DatagramsAreTrue'
      BY <2>1, <2>2, QuietKeepsNet DEF Grows
    <3> QED
      BY <2>1, <2>2, <3>1, ForceKeepsInv
  <2>3. CASE SetPeer(e, q) /\ Transmit(e, Plain("Traffic")) /\ UNCHANGED <<open, told>>
    <3>1. net' \in [Ends -> SUBSET Datagram] /\ DatagramsAreTrue'
      BY <2>1, <2>3, PlainStaysTrue DEF Grows, Kinds
    <3>2. UNCHANGED <<compatible, stops, request, attempts, handlerVars>> /\ SetPeer(e, q)
      BY <2>1, <2>3 DEF handlerVars
    <3> HIDE DEF q
    <3> QED
      BY <1>2, <3>1, <3>2, TimerKeepsInv
  <2> QED
    BY <1>3, <2>2, <2>3 DEF UpdateConnected
<1>4. CASE UpdateShutdown(e)
  <2>1. peer[e].state = "ShutdownRequested"
        /\ UNCHANGED <<compatible, stops, request, attempts, handlerVars>>
    BY <1>4 DEF UpdateShutdown, Is
  <2>2. Grows
    BY <2>1 DEF Grows, handlerVars
  <2>3. CASE SetPeer(e, [q EXCEPT !.state = "Disconnected"]) /\ UNCHANGED net
    <3> DEFINE p == [q EXCEPT !.state = "Disconnected"]
    <3>1. p \in Peer /\ p.state = "Disconnected" /\ p.time = peer[e].time
      <4> HIDE DEF q
      <4> QED
        BY <1>2 DEF Peer
    <3>2. net' \in [Ends -> SUBSET Datagram] /\ DatagramsAreTrue'
      BY <2>2, <2>3, QuietKeepsNet
    <3> HIDE DEF p
    <3> QED
      BY <2>1, <2>3, <3>1, <3>2, TimerKeepsInv DEF p
  <2>4. CASE SetPeer(e, q) /\ Repeat(e)
    <3> DEFINE t == peer[e].time
               d == Timed("Disconnect", t)
    <3>1. t \in Attempts /\ t \in closed[e]
      BY <2>1 DEF Inv, PeerInv, PeersHaveAttempts, ShutdownIsClosed
    <3>2. /\ d \in Datagram /\ \A u \in Attempts : d # Timed("ConnectAccept", u)
          /\ \A u \in Attempts : d = Timed("Disconnect", u) => u = t
          /\ d # Plain("InvalidProtocol")
      BY <3>1, DatagramTypes DEF Kinds
    <3>3. Transmit(e, d)
      BY <2>4 DEF Repeat
    <3> HIDE DEF d, t
    <3>4. net' \in [Ends -> SUBSET Datagram] /\ \A f \in Ends : net'[f] \subseteq net[f] \cup {d}
      BY <3>2, <3>3, TransmitAdds DEF Inv, TypeOK
    <3>5. t \in closed'[Client] \cup closed'[Server]
      BY <2>1, <3>1 DEF Ends, handlerVars
    <3>6. DatagramsAreTrue'
      BY <2>2, <3>2, <3>4, <3>5, TrueStaysTrue DEF Inv
    <3>7. SetPeer(e, q)
      BY <2>4
    <3> HIDE DEF q
    <3> QED
      BY <1>2, <2>1, <3>4, <3>6, <3>7, TimerKeepsInv
  <2> QED
    BY <1>4, <2>3, <2>4 DEF UpdateShutdown
<1>5. CASE UpdateOutgoing(e)
  <2>1. peer[e].state = "Outgoing"
        /\ UNCHANGED <<compatible, stops, request, attempts, accepted, closed>>
    BY <1>5 DEF UpdateOutgoing, Is
  <2>2. CASE ForceDisconnect(e, "Failed") /\ UNCHANGED net
    <3>1. net' \in [Ends -> SUBSET Datagram] /\ DatagramsAreTrue'
      BY <2>1, <2>2, QuietKeepsNet DEF Grows
    <3>2. Reported(e, "Failed")
      BY DEF Reported
    <3> QED
      BY <2>1, <2>2, <3>1, <3>2, ForceKeepsInv
  <2>3. CASE /\ Tried(peer[e].tries) <= MaxConnectAttempts
             /\ SetPeer(e, [q EXCEPT !.tries = Tried(@)])
             /\ Transmit(e, Timed("ConnectRequest", peer[e].time))
             /\ UNCHANGED <<open, told>>
    <3> DEFINE p == [q EXCEPT !.tries = Tried(@)]
               t == peer[e].time
               d == Timed("ConnectRequest", t)
    <3>1. p \in Peer /\ p.state = peer[e].state /\ p.time = peer[e].time
      <4>1. Tried(q.tries) \in 0..MaxConnectAttempts
        BY <1>1, <1>2, <2>3, SizesArePositive DEF Tried, Peer
      <4> HIDE DEF q
      <4> QED
        BY <1>2, <4>1 DEF Peer
    <3>2. t \in Attempts
      BY <2>1 DEF Inv, PeerInv, PeersHaveAttempts
    <3>3. /\ d \in Datagram /\ d # Plain("InvalidProtocol")
          /\ \A u \in Attempts : d # Timed("ConnectAccept", u) /\ d # Timed("Disconnect", u)
      BY <3>2, DatagramTypes DEF Kinds
    <3>4. SetPeer(e, p) /\ Transmit(e, d)
      BY <2>3
    <3> HIDE DEF p, d, q, t
    <3>5. net' \in [Ends -> SUBSET Datagram] /\ \A f \in Ends : net'[f] \subseteq net[f] \cup {d}
      BY <3>3, <3>4, TransmitAdds DEF Inv, TypeOK
    <3>6. UNCHANGED <<compatible, stops, request, attempts, handlerVars>> /\ Grows
      BY <2>1, <2>3 DEF Grows, handlerVars
    <3>7. DatagramsAreTrue'
      BY <3>3, <3>5, <3>6, TrueStaysTrue DEF Inv
    <3> QED
      BY <3>1, <3>4, <3>5, <3>6, <3>7, TimerKeepsInv
  <2>4. Tried(peer[e].tries) > MaxConnectAttempts \/ Tried(peer[e].tries) <= MaxConnectAttempts
    BY <1>1, SizesArePositive DEF Tried, Peer
  <2> QED
    BY <1>5, <2>2, <2>3, <2>4 DEF UpdateOutgoing
<1>6. CASE UpdateDisconnected(e)
  <2>1. /\ peer[e].state = "Disconnected"
        /\ UNCHANGED <<compatible, stops, request, attempts, net, handlerVars>>
        /\ SetPeer(e, NoPeer) \/ SetPeer(e, q)
    BY <1>6 DEF UpdateDisconnected, Is
  <2>2. NoPeer \in Peer /\ NoPeer.state = "None"
    BY SizesArePositive DEF NoPeer, Peer, NoAttempt
  <2>3. net' \in [Ends -> SUBSET Datagram] /\ DatagramsAreTrue'
    BY <2>1, QuietKeepsNet DEF Grows, handlerVars
  <2> HIDE DEF q
  <2>4. CASE SetPeer(e, q)
    BY <1>2, <2>1, <2>3, <2>4, TimerKeepsInv
  <2>5. CASE SetPeer(e, NoPeer)
    BY <2>1, <2>2, <2>3, <2>5, TimerKeepsInv
  <2> QED
    BY <2>1, <2>4, <2>5
<1> QED
  BY <1>3, <1>4, <1>5, <1>6 DEF Update

-----------------------------------------------------------------------------
LEMMA LoseKeepsInv == ASSUME Inv, NEW e \in Ends, NEW d \in net[e], Lose(e, d) PROVE Inv'
<1>1. /\ net' = [net EXCEPT ![e] = @ \ {d}]
      /\ UNCHANGED <<compatible, stops, peer, request, attempts, open, accepted, told, closed>>
  BY DEF Lose, handlerVars
<1>2. net' \in [Ends -> SUBSET Datagram] /\ \A f \in Ends : net'[f] \subseteq net[f]
  BY <1>1 DEF Inv, TypeOK
<1>3. TypeOK'
  BY <1>1, <1>2 DEF Inv, TypeOK
<1>4. PeerInv'
  BY <1>1 DEF Inv, PeerInv, OpenIsConnected, PeersHaveAttempts, AcceptedIsKnown, ShutdownIsClosed
<1>5. DatagramsAreTrue'
  BY <1>1, <1>2, QuietStaysTrue DEF Inv, Grows
<1>6. AttemptsAnswered'
  BY <1>1, StillAnswered DEF Inv
<1> QED
  BY <1>3, <1>4, <1>5, <1>6 DEF Inv

LEMMA NextKeepsInv == Inv /\ [Next]_vars => Inv'
<1> SUFFICES ASSUME Inv, [Next]_vars PROVE Inv'
  OBVIOUS
<1>1. CASE UNCHANGED vars
  <2>1. TypeOK'
    BY <1>1 DEF vars, handlerVars, Inv, TypeOK
  <2>2. PeerInv'
    BY <1>1 DEF vars, handlerVars, Inv, PeerInv, OpenIsConnected, PeersHaveAttempts, AcceptedIsKnown,
       ShutdownIsClosed
  <2>3. DatagramsAreTrue'
    BY <1>1, QuietStaysTrue DEF vars, handlerVars, Inv, Grows
  <2>4. AttemptsAnswered'
    BY <1>1, StillAnswered DEF vars, handlerVars, Inv
  <2> QED
    BY <2>1, <2>2, <2>3, <2>4 DEF Inv
<1>2. CASE Next
  <2>1. CASE Connect \/ Reject \/ Accept
    BY <2>1, ConnectKeepsInv, RejectKeepsInv, AcceptKeepsInv
  <2>2. ASSUME NEW t \in Attempts, ReceiveConnectRequest(t) \/ ReceiveIncompatible(t) \/ ReceiveConnectAccept(t)
        PROVE  Inv'
    BY <2>2, ReceiveConnectRequestKeepsInv, ReceiveIncompatibleKeepsInv, ReceiveConnectAcceptKeepsInv
  <2>3. CASE ReceiveInvalidProtocol
    BY <2>3, ReceiveInvalidProtocolKeepsInv
  <2>4. ASSUME NEW e \in Ends, Disconnect(e) \/ Restart(e) \/ Receive(e) \/ Update(e)
        PROVE  Inv'
    BY <2>4, DisconnectKeepsInv, RestartKeepsInv, ReceiveKeepsInv, UpdateKeepsInv
  <2>5. ASSUME NEW e \in Ends, NEW d \in net[e], Lose(e, d)
        PROVE  Inv'
    BY <2>5, LoseKeepsInv
  <2> QED
    BY <1>2, <2>1, <2>2, <2>3, <2>4, <2>5 DEF Next, ReceiveRequest, ReceiveAnswer
<1> QED
  BY <1>1, <1>2

\* Inv holds throughout: it is what the theorems below rest on.
THEOREM ConnectionInvariant == Spec => []Inv
BY InitInv, NextKeepsInv, PTL DEF Spec

\* Managers, peers and datagrams keep their types, and no handler is ever told
\* of a connection while it believes in another (open is never Confused).
THEOREM TypeCorrect == Spec => []TypeOK
<1>1. Inv => TypeOK
  BY DEF Inv
<1> QED
  BY <1>1, ConnectionInvariant, PTL

\* No attempt is forgotten, whatever is lost, repeated or stale
\* (manager.go:384-427, 557-569, peer.go:613-656).
THEOREM NoAttemptForgotten == Spec => []AttemptsAnswered
<1>1. Inv => AttemptsAnswered
  BY DEF Inv
<1> QED
  BY <1>1, ConnectionInvariant, PTL

-----------------------------------------------------------------------------
(* What the handlers are told.                                             *)

Reason(e) ==
  \/ open[e] \in closed'[Client] \cup closed'[Server]
  \/ Silent(e) \/ Plain("PeerNotFound") \in net[e]
  \/ e = Server /\ request' > open[e]

\* The end of a connection, if there is one, is reported.
Ended(e) ==
  /\ open' = [open EXCEPT ![e] = NoAttempt]
  /\ UNCHANGED accepted
  /\ open[e] # NoAttempt => Reason(e)

\* All that a step may report.
Report ==
  \/ UNCHANGED <<open, accepted>>
  \/ \E t \in Attempts : Promised!Accept(t) \/ Promised!Establish(t)
  \/ \E e \in Ends : Ended(e)

\* A peer whose handler believes in a connection is connected.
LEMMA OpenPeer ==
  ASSUME Inv, NEW e \in Ends
  PROVE  /\ open[e] # NoAttempt => peer[e].state = "Connected" /\ open[e] = peer[e].time
         /\ peer[e].state # "Connected" => open[e] = NoAttempt
BY DEF Inv, PeerInv, OpenIsConnected

LEMMA ForceReports ==
  ASSUME Inv, NEW e \in Ends, NEW reason, ForceDisconnect(e, reason), UNCHANGED accepted,
         open[e] # NoAttempt => Reason(e)
  PROVE  Report
<1>1. open' = [open EXCEPT ![e] = NoAttempt] \/ UNCHANGED open
  BY DEF ForceDisconnect, ReportEnded
<1> QED
  BY <1>1 DEF Report, Ended

LEMMA AcceptReports == ASSUME Inv, Accept PROVE Report
<1>1. request \in Attempts
  BY DEF Accept, Inv, TypeOK
<1>2. CASE peer[Server] # NoPeer
  BY <1>2 DEF Accept, Report
<1>3. CASE peer[Server] = NoPeer
  <2>1. open[Server] = NoAttempt
    BY <1>3, OpenPeer, EndsAreTwo DEF NoPeer
  <2>2. ReportConnected(Server, request) /\ accepted' = accepted \cup {request}
    BY <1>3 DEF Accept
  <2>3. open \in [Ends -> {NoAttempt} \cup Attempts]
    BY DEF Inv, TypeOK
  <2>4. open' = [open EXCEPT ![Server] = request]
    BY <2>1, <2>2, <2>3, EndsAreTwo DEF ReportConnected
  <2>5. Promised!Accept(request)
    BY <2>1, <2>2, <2>4 DEF Promised!Accept
  <2> QED
    BY <1>1, <2>5 DEF Report
<1> QED
  BY <1>2, <1>3

LEMMA ConnectAcceptReports ==
  ASSUME Inv, NEW t \in Attempts, ReceiveConnectAccept(t)
  PROVE  Report
<1>1. /\ Timed("ConnectAccept", t) \in net[Client]
      /\ peer[Client].state = "Outgoing" /\ t = peer[Client].time
      /\ ReportConnected(Client, t) /\ UNCHANGED accepted
  BY DEF ReceiveConnectAccept, Is, Answers
<1>2. open[Client] = NoAttempt /\ t \in accepted
  BY <1>1, OpenPeer, EndsAreTwo DEF Inv, DatagramsAreTrue
<1>3. open \in [Ends -> {NoAttempt} \cup Attempts]
  BY DEF Inv, TypeOK
<1>4. open' = [open EXCEPT ![Client] = t]
  BY <1>1, <1>2, <1>3, EndsAreTwo DEF ReportConnected
<1>5. Promised!Establish(t)
  BY <1>1, <1>2, <1>4 DEF Promised!Establish
<1> QED
  BY <1>5 DEF Report

LEMMA ConnectRequestReports ==
  ASSUME Inv, NEW t \in Attempts, ReceiveConnectRequest(t)
  PROVE  Report
<1>1. CASE UNCHANGED handlerVars
  BY <1>1 DEF handlerVars, Report
<1>2. CASE /\ ~Outdated(t) /\ ~(Is(Server, {"Connected"}) /\ t = peer[Server].time)
           /\ request' = t /\ UNCHANGED accepted
           /\ IF Is(Server, {"Connected"}) THEN ReportEnded(Server) ELSE UNCHANGED open
  <2>1. CASE UNCHANGED open
    BY <1>2, <2>1 DEF Report
  <2>2. CASE Is(Server, {"Connected"}) /\ ReportEnded(Server)
    <3>1. open[Server] = peer[Server].time /\ peer[Server].time \in Attempts
      BY <2>2, EndsAreTwo DEF Is, Inv, PeerInv, OpenIsConnected, PeersHaveAttempts
    <3>2. request' > open[Server]
      BY <1>2, <2>2, <3>1, SizesArePositive DEF Outdated, Attempts
    <3>3. Ended(Server)
      BY <1>2, <2>2, <3>2 DEF Ended, Reason, ReportEnded
    <3> QED
      BY <3>3, EndsAreTwo DEF Report
  <2> QED
    BY <1>2, <2>1, <2>2
<1> QED
  BY <1>1, <1>2 DEF ReceiveConnectRequest, handlerVars

LEMMA DisconnectReports ==
  ASSUME Inv, NEW e \in Ends, Disconnect(e)
  PROVE  Report
<1>1. /\ UNCHANGED accepted
      /\ closed' = [closed EXCEPT ![e] = @ \cup {peer[e].time}]
      /\ open' = [open EXCEPT ![e] = NoAttempt] \/ UNCHANGED open
  BY DEF Disconnect, Shutdown, ReportEnded
<1>2. peer[e].time \in closed'[Client] \cup closed'[Server]
  BY <1>1 DEF Inv, TypeOK, Ends
<1>3. open[e] # NoAttempt => Reason(e)
  BY <1>2, OpenPeer DEF Reason
<1> QED
  BY <1>1, <1>3 DEF Report, Ended

LEMMA RestartReports ==
  ASSUME Inv, NEW e \in Ends, Restart(e)
  PROVE  Report
<1>1. /\ UNCHANGED accepted
      /\ closed' = [closed EXCEPT ![e] = @ \cup {peer[e].time}]
      /\ open' = [open EXCEPT ![e] = NoAttempt]
  BY DEF Restart, ReportEnded
<1>2. peer[e].time \in closed'[Client] \cup closed'[Server]
  BY <1>1 DEF Inv, TypeOK, Ends
<1>3. open[e] # NoAttempt => Reason(e)
  BY <1>2, OpenPeer DEF Reason
<1> QED
  BY <1>1, <1>3 DEF Report, Ended

LEMMA ReceiveReports ==
  ASSUME Inv, NEW e \in Ends, Receive(e)
  PROVE  Report
<1>1. ASSUME NEW t \in Attempts, ReceiveDisconnect(e, t)
      PROVE  Report
  <2>1. Timed("Disconnect", t) \in net[e] /\ UNCHANGED <<accepted, closed>>
    BY <1>1 DEF ReceiveDisconnect
  <2>2. t \in closed'[Client] \cup closed'[Server]
    BY <2>1 DEF Inv, DatagramsAreTrue
  <2>3. CASE Concerns(e, t)
    <3>1. open[e] # NoAttempt => Reason(e)
      BY <2>2, <2>3, OpenPeer DEF Concerns, Reason
    <3>2. PICK reason : ForceDisconnect(e, reason)
      BY <1>1, <2>3 DEF ReceiveDisconnect
    <3> QED
      BY <2>1, <3>1, <3>2, ForceReports
  <2>4. CASE ~Concerns(e, t)
    BY <1>1, <2>4 DEF ReceiveDisconnect, Report
  <2> QED
    BY <2>3, <2>4
<1>2. CASE ReceivePeerNotFound(e)
  <2>1. /\ Plain("PeerNotFound") \in net[e] /\ ForceDisconnect(e, "PeerNotFound")
        /\ UNCHANGED accepted
    BY <1>2 DEF ReceivePeerNotFound
  <2> QED
    BY <2>1, ForceReports DEF Reason
<1>3. CASE ReceiveFromStranger(e) \/ ReceiveShutdownOk(e) \/ ReceiveTraffic(e)
  BY <1>3 DEF ReceiveFromStranger, ReceiveShutdownOk, ReceiveTraffic, handlerVars, Report
<1> QED
  BY <1>1, <1>2, <1>3 DEF Receive

LEMMA UpdateReports ==
  ASSUME Inv, NEW e \in Ends, Update(e)
  PROVE  Report
<1>1. CASE UpdateConnected(e)
  <2>1. CASE Silent(e)
    <3>1. ForceDisconnect(e, "Timeout") /\ UNCHANGED accepted
      BY <1>1, <2>1 DEF UpdateConnected
    <3> QED
      BY <2>1, <3>1, ForceReports DEF Reason
  <2>2. CASE ~Silent(e)
    BY <1>1, <2>2 DEF UpdateConnected, Report
  <2> QED
    BY <2>1, <2>2
<1>2. CASE UpdateOutgoing(e)
  <2>1. open[e] = NoAttempt /\ UNCHANGED accepted
    BY <1>2, OpenPeer DEF UpdateOutgoing, Is
  <2>2. ForceDisconnect(e, "Failed") \/ UNCHANGED open
    BY <1>2 DEF UpdateOutgoing
  <2> QED
    BY <2>1, <2>2, ForceReports DEF Report
<1>3. CASE UpdateShutdown(e) \/ UpdateDisconnected(e)
  BY <1>3 DEF UpdateShutdown, UpdateDisconnected, handlerVars, Report
<1> QED
  BY <1>1, <1>2, <1>3 DEF Update

LEMMA InvalidProtocolReports == ASSUME Inv, ReceiveInvalidProtocol PROVE Report
<1>1. open[Client] = NoAttempt /\ UNCHANGED accepted /\ ForceDisconnect(Client, "InvalidProtocol")
  BY OpenPeer, EndsAreTwo DEF ReceiveInvalidProtocol, Is
<1> QED
  BY <1>1, ForceReports, EndsAreTwo

LEMMA NextReports == Inv /\ [Next]_vars => Report
<1> SUFFICES ASSUME Inv, [Next]_vars PROVE Report
  OBVIOUS
<1>1. CASE UNCHANGED vars \/ Connect \/ Reject
  BY <1>1 DEF vars, handlerVars, Connect, Reject, Report
<1>2. CASE Accept
  BY <1>2, AcceptReports
<1>3. ASSUME NEW t \in Attempts, ReceiveConnectRequest(t)
      PROVE  Report
  BY <1>3, ConnectRequestReports
<1>4. ASSUME NEW t \in Attempts, ReceiveIncompatible(t)
      PROVE  Report
  BY <1>4 DEF ReceiveIncompatible, handlerVars, Report
<1>5. ASSUME NEW t \in Attempts, ReceiveConnectAccept(t)
      PROVE  Report
  BY <1>5, ConnectAcceptReports
<1>6. CASE ReceiveInvalidProtocol
  BY <1>6, InvalidProtocolReports
<1>7. ASSUME NEW e \in Ends, Disconnect(e) \/ Restart(e) \/ Receive(e) \/ Update(e)
      PROVE  Report
  BY <1>7, DisconnectReports, RestartReports, ReceiveReports, UpdateReports
<1>8. ASSUME NEW e \in Ends, NEW d \in net[e], Lose(e, d)
      PROVE  Report
  BY <1>8 DEF Lose, handlerVars, Report
<1> QED
  BY <1>1, <1>2, <1>3, <1>4, <1>5, <1>6, <1>7, <1>8 DEF Next, ReceiveRequest, ReceiveAnswer

\* Connections are reported as Connections promises, a step for a step: two
\* are never open at once at one end, and the client hears of none that the
\* server has not (manager.go:384-427, 462-519, peer.go:613-656).
THEOREM ReportsKeepPromise == Spec => ReportsAgree
<1>1. Init => Promised!Init
  BY DEF Init, Promised!Init, Ends, Promised!Ends
<1>2. Inv /\ [Next]_vars => [Promised!Next]_Promised!vars
  <2> SUFFICES ASSUME Inv, Report PROVE [Promised!Next]_Promised!vars
    BY NextReports
  <2>1. ASSUME NEW e \in Ends, Ended(e)
        PROVE  [Promised!Next]_Promised!vars
    <3>1. CASE open[e] # NoAttempt
      <4>1. Promised!Close(e)
        BY <2>1, <3>1 DEF Ended, Promised!Close
      <4> QED
        BY <4>1 DEF Promised!Next, Promised!Ends, Ends
    <3>2. CASE open[e] = NoAttempt
      <4>1. UNCHANGED <<open, accepted>>
        BY <2>1, <3>2 DEF Ended, Inv, TypeOK
      <4> QED
        BY <4>1 DEF Promised!vars
    <3> QED
      BY <3>1, <3>2
  <2> QED
    BY <2>1 DEF Report, Promised!Next, Promised!vars
<1> QED
  BY <1>1, <1>2, ConnectionInvariant, PTL DEF Spec, ReportsAgree

-----------------------------------------------------------------------------
(* Why connections end: the datagrams that name no connection.             *)

Begun == 1 \in accepted \/ attempts > 1

\* The client has done with the first connection, or an end has given it up.
Over ==
  \/ attempts > 1
  \/ 1 \in closed[Client] \cup closed[Server]
  \/ 1 \in told /\ open[Client] # 1

\* The server has done with it.
Left == LateRequests \/ (1 \in accepted /\ open[Server] # 1)

\* What can be told from a datagram under way to an end.
Said(e, d) ==
  /\ d.time \in 0..attempts
  /\ d = Plain("Traffic") => Begun
  /\ d = Plain("ShutdownOk") => Over
  /\ d = Plain("PeerNotFound") => Over \/ (e = Client /\ Left)

NewestAtClient ==
  peer[Client].state # "None" => peer[Client].time = attempts /\ attempts > 0

PastAttempts ==
  /\ request \in 0..attempts /\ told \cup accepted \subseteq 0..attempts
  /\ \A e \in Ends : peer[e].time \in 0..attempts /\ closed[e] \subseteq 0..attempts

NotToldYet   == peer[Client].state = "Outgoing" => attempts \notin told
ClientBegun  == peer[Client].state = "Connected" => Begun
OneVersion   == request # NoAttempt \/ accepted # {} => compatible
RequestIsNew == LateRequests \/ request \notin accepted

NothingUnsaid == \A e \in Ends : \A d \in net[e] : Said(e, d)

FirstInv ==
  /\ NewestAtClient /\ PastAttempts /\ NotToldYet /\ ClientBegun
  /\ OneVersion /\ RequestIsNew /\ NothingUnsaid

LEMMA InitFirst == Init => FirstInv
BY SizesArePositive, EndsAreTwo
   DEF Init, FirstInv, NewestAtClient, PastAttempts, NotToldYet, ClientBegun, OneVersion, RequestIsNew,
       NothingUnsaid, NoPeer, NoAttempt

\* What a step may do to all but the datagrams.
Moves ==
  /\ attempts' \in {attempts, attempts + 1}
  /\ Grows /\ told \subseteq told' /\ told' \subseteq told \cup {peer[Client].time}
  /\ \/ accepted' = accepted
     \/ accepted' = accepted \cup {request} /\ request' = NoAttempt /\ request # NoAttempt
  /\ \A e \in Ends : closed'[e] \subseteq closed[e] \cup {peer[e].time, request}
  /\ \/ request' \in {request, NoAttempt}
     \/ /\ Timed("ConnectRequest", request') \in net[Server] /\ compatible
        /\ LateRequests \/ request' \notin accepted
  /\ open'[Server] \in {open[Server], NoAttempt, request}
  /\ \/ open'[Client] \in {open[Client], NoAttempt}
     \/ open'[Client] = peer[Client].time /\ peer[Client].state = "Outgoing"
  /\ peer'[Server].time \in {NoAttempt, peer[Server].time, request}
  /\ \/ peer'[Client].state = "None" /\ peer'[Client].time = NoAttempt
     \/ /\ peer'[Client].time = peer[Client].time /\ attempts' = attempts
        /\ peer[Client].state # "None"
        /\ peer'[Client].state = "Outgoing" => peer[Client].state = "Outgoing" /\ told' = told
        /\ peer'[Client].state = "Connected" =>
             peer[Client].state = "Connected" \/ peer[Client].time \in accepted
     \/ peer'[Client] = peer[Client] /\ peer[Client].state = "None"
     \/ attempts' = attempts + 1 /\ peer'[Client].time = attempts' /\ told' = told
        /\ peer'[Client].state = "Outgoing"

LEMMA MovesKeepFirst ==
  ASSUME Inv, FirstInv, Moves
  PROVE  /\ NewestAtClient' /\ PastAttempts' /\ NotToldYet' /\ ClientBegun'
         /\ OneVersion' /\ RequestIsNew'
         /\ \A e \in Ends, d \in Datagram : Said(e, d) => Said(e, d)'
<1> USE SizesArePositive, EndsAreTwo DEF NoAttempt, Attempts
<1>1. /\ attempts \in Nat /\ attempts <= attempts'
      /\ attempts' \in Nat
      /\ accepted \subseteq accepted' /\ told \subseteq told'
  BY DEF Inv, TypeOK, Moves, Grows
<1>2. NewestAtClient'
  BY <1>1 DEF FirstInv, NewestAtClient, Moves
<1>3. PastAttempts'
  <2>1. \A d \in net[Server] : d.time \in 0..attempts
    BY DEF FirstInv, NothingUnsaid, Said
  <2>2. request' \in 0..attempts'
    BY <1>1, <2>1 DEF FirstInv, PastAttempts, Moves, Timed
  <2>3. told' \cup accepted' \subseteq 0..attempts'
    BY <1>1 DEF FirstInv, PastAttempts, Moves
  <2>4. \A e \in Ends : closed'[e] \subseteq 0..attempts'
    BY <1>1 DEF FirstInv, PastAttempts, Moves
  <2>5. peer'[Client].time \in 0..attempts' /\ peer'[Server].time \in 0..attempts'
    BY <1>1 DEF FirstInv, PastAttempts, Moves
  <2> QED
    BY <2>2, <2>3, <2>4, <2>5 DEF PastAttempts, Ends
<1>4. NotToldYet'
  BY <1>1 DEF FirstInv, NotToldYet, PastAttempts, Moves
<1>5. Begun => Begun'
  BY <1>1 DEF Begun
<1>6. ClientBegun'
  <2>1. attempts > 0 /\ attempts \in accepted => Begun
    BY <1>1 DEF Begun
  <2> QED
    BY <1>5, <2>1 DEF FirstInv, ClientBegun, NewestAtClient, Moves
<1>7. OneVersion'
  BY DEF FirstInv, OneVersion, Moves, Grows
<1>8. RequestIsNew'
  BY DEF FirstInv, RequestIsNew, Moves, Inv, TypeOK
<1>9. Over => Over'
  <2>1. CASE attempts > 1
    BY <1>1, <2>1 DEF Over
  <2>2. CASE 1 \in closed[Client] \cup closed[Server]
    BY <2>2 DEF Over, Moves, Grows
  <2>3. CASE attempts <= 1 /\ 1 \in told /\ open[Client] # 1
    <3>1. attempts = 1
      BY <1>1, <2>3 DEF FirstInv, PastAttempts
    <3> QED
      BY <1>1, <2>3, <3>1 DEF Over, Moves, FirstInv, NewestAtClient, NotToldYet
  <2> QED
    BY <1>1, <2>1, <2>2, <2>3 DEF Over
<1>10. Left => Left'
  BY <1>1 DEF Left, Moves, FirstInv, RequestIsNew
<1>11. ASSUME NEW e \in Ends, NEW d \in Datagram, Said(e, d)
       PROVE  Said(e, d)'
  BY <1>1, <1>5, <1>9, <1>10, <1>11 DEF Said
<1> QED
  BY <1>2, <1>3, <1>4, <1>6, <1>7, <1>8, <1>11

\* A step that sends nothing, or one datagram.
LEMMA QuietSaysNothing ==
  ASSUME Inv, FirstInv, Moves, \A e \in Ends : net'[e] \subseteq net[e]
  PROVE  FirstInv'
<1>1. \A e \in Ends : net[e] \subseteq Datagram
  BY DEF Inv, TypeOK
<1>2. NothingUnsaid'
  BY <1>1, MovesKeepFirst DEF FirstInv, NothingUnsaid
<1> QED
  BY <1>2, MovesKeepFirst DEF FirstInv

LEMMA SendSaysSo ==
  ASSUME Inv, FirstInv, Moves, NEW e \in Ends, NEW d \in Datagram, Transmit(e, d), Said(Other(e), d)'
  PROVE  FirstInv'
<1>1. \A f \in Ends : net[f] \subseteq Datagram /\ net'[f] \subseteq net[f] \cup {d}
  BY TransmitAdds DEF Inv, TypeOK
<1>2. \A f \in Ends \ {Other(e)} : net'[f] = net[f]
  BY EndsAreTwo DEF Transmit, Inv, TypeOK
<1>3. NothingUnsaid'
  BY <1>1, <1>2, MovesKeepFirst DEF FirstInv, NothingUnsaid
<1> QED
  BY <1>3, MovesKeepFirst DEF FirstInv

LEMMA TimedTypes ==
  ASSUME NEW k \in Kinds, NEW t \in Attempts
  PROVE  /\ Timed(k, t) \in Datagram /\ Timed(k, t).time = t
         /\ \A l \in Kinds : Timed(k, t) # Plain(l)
BY DatagramTypes DEF Timed

\* A datagram for an attempt says no more than that there was one.
LEMMA TimedSays ==
  ASSUME NEW k \in Kinds, NEW t \in Attempts, t \in 0..attempts
  PROVE  Timed(k, t) \in Datagram /\ \A f \in Ends : Said(f, Timed(k, t))
BY TimedTypes DEF Said, Kinds

LEMMA ConnectKeepsFirst == ASSUME Inv, FirstInv, Connect PROVE FirstInv'
<1> USE SizesArePositive, EndsAreTwo
<1>1. PICK t \in Attempts : t = attempts + 1
  BY DEF Inv, TypeOK, Connect, Attempts
<1>2. PICK d \in Datagram : d = Timed("ConnectRequest", t) /\ d.time = t /\ \A l \in Kinds : d # Plain(l)
  BY TimedTypes DEF Kinds
<1>3. /\ attempts \in Nat /\ attempts' = t /\ Transmit(Client, d)
      /\ peer' = [peer EXCEPT ![Client] = Outgoing(t)]
      /\ UNCHANGED <<compatible, stops, request, open, accepted, told, closed>>
  BY <1>1, <1>2 DEF Inv, TypeOK, Connect, SetPeer, handlerVars
<1>4. peer'[Client].time = t /\ peer'[Client].state = "Outgoing" /\ peer'[Server] = peer[Server]
  BY <1>3, EndsDiffer DEF Outgoing, Inv, TypeOK
<1>5. Moves
  BY <1>1, <1>3, <1>4 DEF Moves, Grows
<1>6. Said(Other(Client), d)'
  BY <1>1, <1>2, <1>3 DEF Said, Kinds
<1> QED
  BY <1>3, <1>5, <1>6, SendSaysSo

LEMMA ServerKeepsFirst == ASSUME Inv, FirstInv, Reject \/ Accept PROVE FirstInv'
<1> USE SizesArePositive, EndsAreTwo
<1>1. /\ request \in Attempts /\ request' = NoAttempt
      /\ UNCHANGED <<compatible, stops, attempts, told>> /\ request # NoAttempt
  BY DEF Inv, TypeOK, Reject, Accept
<1>2. \A k \in Kinds : Timed(k, request) \in Datagram /\ Said(Client, Timed(k, request))
  BY <1>1, TimedSays DEF FirstInv, PastAttempts
<1>3. /\ peer'[Client] = peer[Client] /\ open'[Client] = open[Client]
      /\ peer'[Server].time \in {peer[Server].time, request}
      /\ open'[Server] \in {open[Server], request}
  BY OpenPeer, EndsDiffer
     DEF Reject, Accept, SetPeer, Accepted, ReportConnected, Inv, TypeOK, NoPeer
<1>4. /\ accepted' = accepted \/ accepted' = accepted \cup {request}
      /\ Grows
      /\ \A e \in Ends : closed'[e] \subseteq closed[e] \cup {request}
  BY DEF Reject, Accept, Grows, Inv, TypeOK
<1>5. Moves
  <2>1. \/ peer[Client].state = "None"
        \/ peer[Client].state # "None"
    OBVIOUS
  <2> QED
    BY <1>1, <1>3, <1>4, <2>1 DEF Moves
<1>6. CASE UNCHANGED net
  BY <1>5, <1>6, QuietSaysNothing
<1>7. ASSUME NEW k \in Kinds, Transmit(Server, Timed(k, request))
      PROVE  FirstInv'
  <2>1. Other(Server) = Client
    BY EndsDiffer DEF Other
  <2> QED
    BY <1>2, <1>5, <1>7, <2>1, MovesKeepFirst, SendSaysSo
<1> QED
  BY <1>6, <1>7 DEF Reject, Accept, Kinds

\* What concerns one peer: it is deleted, or stays for the same attempt; no
\* connection is reported, and only its own attempt is closed or answered.
OnePeer(e) ==
  /\ UNCHANGED <<compatible, attempts, accepted>> /\ request' \in {request, NoAttempt}
  /\ told \subseteq told' /\ told' \subseteq IF e = Client THEN told \cup {peer[Client].time} ELSE told
  /\ closed' = closed \/ closed' = [closed EXCEPT ![e] = @ \cup {peer[e].time}]
  /\ open' = open \/ open' = [open EXCEPT ![e] = NoAttempt]
  /\ \E p \in Peer :
       /\ peer' = [peer EXCEPT ![e] = p]
       /\ \/ p = NoPeer
          \/ /\ p.time = peer[e].time /\ peer[e].state # "None" /\ p.state # "None"
             /\ p.state \in {"Outgoing", "Connected"} => p.state = peer[e].state /\ told' = told

LEMMA OnePeerMoves == ASSUME Inv, NEW e \in Ends, OnePeer(e) PROVE Moves
<1> USE SizesArePositive, EndsAreTwo
<1>1. PICK p \in Peer :
        /\ peer' = [peer EXCEPT ![e] = p]
        /\ \/ p = NoPeer
           \/ /\ p.time = peer[e].time /\ peer[e].state # "None" /\ p.state # "None"
              /\ p.state \in {"Outgoing", "Connected"} => p.state = peer[e].state /\ told' = told
  BY DEF OnePeer
<1>2. peer'[e] = p /\ \A f \in Ends \ {e} : peer'[f] = peer[f]
  BY <1>1 DEF Inv, TypeOK
<1>3. NoPeer.state = "None" /\ NoPeer.time = NoAttempt
  BY DEF NoPeer, NoAttempt
<1>4. Grows /\ \A f \in Ends : closed'[f] \subseteq closed[f] \cup {peer[f].time}
  BY DEF OnePeer, Grows, Inv, TypeOK
<1>5. \A f \in Ends : open'[f] \in {open[f], NoAttempt}
  BY DEF OnePeer, Inv, TypeOK
<1>6. /\ attempts' = attempts /\ accepted' = accepted /\ request' \in {request, NoAttempt}
      /\ told \subseteq told' /\ told' \subseteq told \cup {peer[Client].time}
      /\ e # Client => told' = told
  BY DEF OnePeer
<1>7. peer'[Server].time \in {NoAttempt, peer[Server].time}
  BY <1>1, <1>2, <1>3
<1>8. \/ peer'[Client].state = "None" /\ peer'[Client].time = NoAttempt
      \/ /\ peer'[Client].time = peer[Client].time /\ peer[Client].state # "None"
         /\ peer'[Client].state = "Outgoing" => peer[Client].state = "Outgoing" /\ told' = told
         /\ peer'[Client].state = "Connected" => peer[Client].state = "Connected"
      \/ peer'[Client] = peer[Client] /\ peer[Client].state = "None"
  <2>1. CASE e = Client
    BY <1>1, <1>2, <1>3, <2>1
  <2>2. CASE e # Client
    BY <1>2, <1>6, <2>2
  <2> QED
    BY <2>1, <2>2
<1> QED
  BY <1>4, <1>5, <1>6, <1>7, <1>8 DEF Moves

\* A step on a peer that keeps its attempt.
LEMMA KeptIsOnePeer ==
  ASSUME Inv, NEW e \in Ends, NEW p \in Peer, SetPeer(e, p), peer[e].state # "None",
         p.time = peer[e].time, p.state \in {"Outgoing", "Connected"} => p.state = peer[e].state,
         p.state # "None",
         UNCHANGED <<compatible, attempts, request, accepted, told>>,
         closed' = closed \/ closed' = [closed EXCEPT ![e] = @ \cup {peer[e].time}],
         open' = open \/ open' = [open EXCEPT ![e] = NoAttempt]
  PROVE  OnePeer(e)
BY DEF OnePeer, SetPeer

LEMMA ForceIsOnePeer ==
  ASSUME Inv, NEW e \in Ends, NEW reason, ForceDisconnect(e, reason), peer[e].state # "None",
         UNCHANGED <<compatible, attempts, request, accepted, closed>>
  PROVE  OnePeer(e)
<1>1. peer[e] \in Peer
  BY DEF Inv, TypeOK
<1>2. CASE Reported(e, reason)
  <2>1. NoPeer \in Peer
    BY SizesArePositive DEF NoPeer, Peer, NoAttempt
  <2> QED
    BY <1>2, <2>1 DEF ForceDisconnect, OnePeer, SetPeer, ReportEnded
<1>3. CASE ~Reported(e, reason)
  <2> DEFINE p == [peer[e] EXCEPT !.state = IF @ = "Outgoing" THEN "Disconnected" ELSE @]
  <2>1. /\ p \in Peer /\ p.time = peer[e].time /\ p.state \notin {"None", "Outgoing"}
        /\ p.state = "Connected" => p.state = peer[e].state
    BY <1>1 DEF Peer
  <2>2. SetPeer(e, p) /\ open' = open /\ told' = told
    BY <1>3 DEF ForceDisconnect
  <2> HIDE DEF p
  <2>3. UNCHANGED <<compatible, attempts, request, accepted, told>> /\ closed' = closed
    BY <2>2
  <2> QED
    BY <2>1, <2>2, <2>3, KeptIsOnePeer
<1> QED
  BY <1>2, <1>3

LEMMA StaysAreMoves ==
  ASSUME Inv, UNCHANGED <<compatible, stops, peer, request, attempts, open, accepted, told, closed>>
  PROVE  Moves
<1>1. peer[Client].state = "None" \/ peer[Client].state # "None"
  OBVIOUS
<1> QED
  BY <1>1 DEF Moves, Grows

\* Most steps of one peer send nothing new, or what names an attempt.
LEMMA OnePeerKeepsFirst ==
  ASSUME Inv, FirstInv, NEW e \in Ends, OnePeer(e),
         \/ UNCHANGED net
         \/ \E d \in Datagram : Transmit(e, d) /\ Said(Other(e), d)
  PROVE  FirstInv'
<1>1. Moves
  BY OnePeerMoves
<1>2. CASE UNCHANGED net
  BY <1>1, <1>2, QuietSaysNothing
<1>3. ASSUME NEW d \in Datagram, Transmit(e, d), Said(Other(e), d)
      PROVE  FirstInv'
  BY <1>1, <1>3, MovesKeepFirst, SendSaysSo, EndsAreTwo
<1> QED
  BY <1>2, <1>3

LEMMA StaysKeepFirst ==
  ASSUME Inv, FirstInv,
         UNCHANGED <<compatible, stops, peer, request, attempts, open, accepted, told, closed>>,
         \/ \A e \in Ends : net'[e] \subseteq net[e]
         \/ \E e \in Ends, d \in Datagram : Transmit(e, d) /\ Said(Other(e), d)
  PROVE  FirstInv'
<1>1. Moves
  BY StaysAreMoves
<1>2. CASE \A e \in Ends : net'[e] \subseteq net[e]
  BY <1>1, <1>2, QuietSaysNothing
<1>3. ASSUME NEW e \in Ends, NEW d \in Datagram, Transmit(e, d), Said(Other(e), d)
      PROVE  FirstInv'
  BY <1>1, <1>3, MovesKeepFirst, SendSaysSo, EndsAreTwo
<1> QED
  BY <1>2, <1>3

\* What is sent again and again for a peer's own attempt.
LEMMA OwnAttemptSaid ==
  ASSUME Inv, FirstInv, NEW e \in Ends, peer[e].state # "None", NEW k \in Kinds
  PROVE  Timed(k, peer[e].time) \in Datagram /\ \A f \in Ends : Said(f, Timed(k, peer[e].time))
<1>1. peer[e].time \in Attempts /\ peer[e].time \in 0..attempts
  BY DEF Inv, PeerInv, PeersHaveAttempts, FirstInv, PastAttempts
<1> QED
  BY <1>1, TimedSays

LEMMA CallsKeepFirst ==
  ASSUME Inv, FirstInv, NEW e \in Ends, Disconnect(e) \/ Restart(e)
  PROVE  FirstInv'
<1> USE EndsAreTwo
<1>1. peer[e] \in Peer /\ NoPeer \in Peer
  BY SizesArePositive DEF Inv, TypeOK, NoPeer, Peer, NoAttempt
<1>2. CASE Disconnect(e)
  <2> DEFINE p == With(peer[e], "ShutdownRequested", 0)
  <2>1. p \in Peer /\ p.state = "ShutdownRequested" /\ p.time = peer[e].time
    <3>1. 0 \in 0..Timeout + 1
      BY SizesArePositive
    <3> QED
      BY <1>1, <3>1, PeerWith
  <2>2. /\ SetPeer(e, p) /\ peer[e].state # "None"
        /\ Transmit(e, Timed("Disconnect", peer[e].time))
        /\ closed' = [closed EXCEPT ![e] = @ \cup {peer[e].time}]
        /\ UNCHANGED <<compatible, request, attempts, accepted, told>>
        /\ open' = open \/ open' = [open EXCEPT ![e] = NoAttempt]
    BY <1>2 DEF Disconnect, Shutdown, Is, ReportEnded, With
  <2> HIDE DEF p
  <2>3. OnePeer(e)
    BY <2>1, <2>2, KeptIsOnePeer
  <2>4. Timed("Disconnect", peer[e].time) \in Datagram /\ Said(Other(e), Timed("Disconnect", peer[e].time))
    BY <2>2, OwnAttemptSaid DEF Kinds
  <2> QED
    BY <2>2, <2>3, <2>4, OnePeerKeepsFirst
<1>3. CASE Restart(e)
  <2>1. OnePeer(e)
    BY <1>1, <1>3 DEF Restart, SetPeer, ReportEnded, OnePeer
  <2>2. CASE UNCHANGED net
    BY <2>1, <2>2, OnePeerKeepsFirst
  <2>3. CASE Is(e, {"Outgoing", "Connected"}) /\ Transmit(e, Timed("Disconnect", peer[e].time))
    <3>1. Timed("Disconnect", peer[e].time) \in Datagram /\ Said(Other(e), Timed("Disconnect", peer[e].time))
      BY <2>3, OwnAttemptSaid DEF Kinds, Is
    <3> QED
      BY <2>1, <2>3, <3>1, OnePeerKeepsFirst
  <2> QED
    BY <1>3, <2>2, <2>3 DEF Restart
<1> QED
  BY <1>2, <1>3

LEMMA RequestKeepsFirst ==
  ASSUME Inv, FirstInv, NEW t \in Attempts, ReceiveConnectRequest(t)
  PROVE  FirstInv'
<1> USE SizesArePositive, EndsAreTwo
<1>1. CASE Outdated(t)
  BY <1>1, StaysKeepFirst DEF ReceiveConnectRequest, handlerVars
<1>2. CASE Is(Server, {"Connected"}) /\ t = peer[Server].time /\ ~Outdated(t)
  <2>1. /\ Transmit(Server, Timed("ConnectAccept", t))
        /\ UNCHANGED <<compatible, stops, peer, request, attempts, open, accepted, told, closed>>
    BY <1>2 DEF ReceiveConnectRequest, handlerVars
  <2>2. Timed("ConnectAccept", t) \in Datagram /\ Said(Other(Server), Timed("ConnectAccept", t))
    BY <1>2, OwnAttemptSaid DEF Kinds, Is
  <2> QED
    BY <2>1, <2>2, StaysKeepFirst
<1>3. CASE ~Outdated(t) /\ ~(Is(Server, {"Connected"}) /\ t = peer[Server].time)
  <2>1. /\ peer' = [peer EXCEPT ![Server] = NoPeer] /\ request' = t
        /\ open' = open \/ open' = [open EXCEPT ![Server] = NoAttempt]
        /\ UNCHANGED <<compatible, stops, attempts, net, accepted, told, closed>>
        /\ Timed("ConnectRequest", t) \in net[Server] /\ compatible
        /\ LateRequests \/ ~Late(t)
    BY <1>3 DEF ReceiveConnectRequest, SetPeer, ReportEnded, handlerVars
  <2>2. LateRequests \/ t \notin accepted
    <3> SUFFICES ASSUME ~Late(t), t \in accepted PROVE FALSE
      BY <2>1
    <3>1. open[Server] = t
      BY DEF Late, Attempts
    <3> QED
      BY <1>3, <3>1, OpenPeer DEF Is, NoAttempt, Attempts
  <2>3. /\ peer'[Client] = peer[Client] /\ peer'[Server].time = NoAttempt
        /\ open'[Client] = open[Client] /\ open'[Server] \in {open[Server], NoAttempt}
    <3>1. NoPeer.time = NoAttempt
      BY DEF NoPeer, NoAttempt
    <3>2. peer'[Client] = peer[Client] /\ peer'[Server] = NoPeer
      BY <2>1, EndsDiffer DEF Inv, TypeOK
    <3>3. open'[Client] = open[Client] /\ open'[Server] \in {open[Server], NoAttempt}
      BY <2>1, EndsDiffer DEF Inv, TypeOK
    <3> QED
      BY <3>1, <3>2, <3>3
  <2>4. peer[Client].state = "None" \/ peer[Client].state # "None"
    OBVIOUS
  <2>5. Moves
    BY <2>1, <2>2, <2>3, <2>4 DEF Moves, Grows
  <2> QED
    BY <2>1, <2>5, QuietSaysNothing
<1> QED
  BY <1>1, <1>2, <1>3

LEMMA AcceptedKeepsFirst ==
  ASSUME Inv, FirstInv, NEW t \in Attempts, ReceiveConnectAccept(t)
  PROVE  FirstInv'
<1> USE SizesArePositive, EndsAreTwo
<1> DEFINE p == With(peer[Client], "Connected", 0)
<1>1. p.state = "Connected" /\ p.time = peer[Client].time
  <2>1. peer[Client] \in Peer /\ 0 \in 0..Timeout + 1
    BY DEF Inv, TypeOK
  <2> QED
    BY <2>1, PeerWith
<1>2. /\ peer' = [peer EXCEPT ![Client] = p]
      /\ peer[Client].state = "Outgoing" /\ t = peer[Client].time
      /\ told' = told \cup {peer[Client].time} /\ ReportConnected(Client, t)
      /\ UNCHANGED <<compatible, stops, request, attempts, net, accepted, closed>>
      /\ t \in accepted
  BY DEF ReceiveConnectAccept, Is, Answers, SetPeer, With, Inv, DatagramsAreTrue
<1> HIDE DEF p
<1>3. peer'[Client] = p /\ peer'[Server] = peer[Server]
  BY <1>2, EndsDiffer DEF Inv, TypeOK
<1>4. open'[Client] = t /\ open'[Server] = open[Server]
  BY <1>2, OpenPeer, EndsDiffer DEF ReportConnected, Inv, TypeOK
<1>5. Moves
  BY <1>1, <1>2, <1>3, <1>4 DEF Moves, Grows
<1> QED
  BY <1>2, <1>5, QuietSaysNothing

LEMMA DisconnectKeepsFirst ==
  ASSUME Inv, FirstInv, NEW e \in Ends, NEW t \in Attempts, ReceiveDisconnect(e, t)
  PROVE  FirstInv'
<1> USE SizesArePositive, EndsAreTwo
<1>1. Timed("Disconnect", t) \in net[e] /\ Transmit(e, Plain("ShutdownOk"))
      /\ UNCHANGED <<compatible, stops, request, attempts, accepted, closed>>
  BY DEF ReceiveDisconnect
<1>2. PICK d \in Datagram : d = Plain("ShutdownOk")
  BY PlainTypes DEF Kinds
<1>3. t \in closed[Client] \cup closed[Server]
  BY <1>1 DEF Inv, DatagramsAreTrue
<1>4. t = 1 \/ attempts > 1
  BY <1>3 DEF FirstInv, PastAttempts, Attempts, Inv, TypeOK
<1>5. Said(Other(e), d)
  <2>1. Over
    BY <1>3, <1>4 DEF Over
  <2>2. d # Plain("Traffic") /\ d.time = 0
    BY <1>2 DEF Plain, NoAttempt
  <2> QED
    BY <2>1, <2>2 DEF Said, Inv, TypeOK
<1>6. CASE Concerns(e, t)
  <2>1. PICK reason : ForceDisconnect(e, reason)
    BY <1>6 DEF ReceiveDisconnect
  <2>2. peer[e].state # "None"
    BY <1>6 DEF Concerns, Is
  <2>3. OnePeer(e)
    BY <1>1, <2>1, <2>2, ForceIsOnePeer
  <2> QED
    BY <1>1, <1>2, <1>5, <2>3, OnePeerKeepsFirst
<1>7. CASE ~Concerns(e, t)
  BY <1>1, <1>2, <1>5, <1>7, StaysKeepFirst DEF ReceiveDisconnect
<1> QED
  BY <1>6, <1>7

\* Whoever is answered PeerNotFound is not known, and the first connection has
\* been set up, or others have followed.
LEMMA StrangerKeepsFirst ==
  ASSUME Inv, FirstInv, NEW e \in Ends, ReceiveFromStranger(e)
  PROVE  FirstInv'
<1> USE SizesArePositive, EndsAreTwo
<1>1. /\ Plain("Traffic") \in net[e] \/ Plain("ShutdownOk") \in net[e]
      /\ peer[e] = NoPeer /\ Transmit(e, Plain("PeerNotFound"))
      /\ UNCHANGED <<compatible, stops, peer, request, attempts, open, accepted, told, closed>>
  BY DEF ReceiveFromStranger, Stranger, handlerVars
<1>2. PICK d \in Datagram : d = Plain("PeerNotFound")
  BY PlainTypes DEF Kinds
<1>3. open[e] = NoAttempt /\ peer[e].state = "None"
  BY <1>1, OpenPeer DEF NoPeer
<1>4. Begun => Over \/ (e = Server /\ Left)
  <2> SUFFICES ASSUME 1 \in accepted PROVE Over \/ (e = Server /\ Left)
    BY DEF Begun, Over
  <2>1. CASE e = Server
    BY <1>3, <2>1 DEF Left, NoAttempt
  <2>2. CASE e = Client
    <3>1. compatible /\ 1 \in 1..attempts
      BY DEF FirstInv, OneVersion, PastAttempts, Inv, TypeOK
    <3>2. 1 \in told \cup closed[Client]
      BY <1>3, <2>2, <3>1 DEF Inv, AttemptsAnswered, Is
    <3> QED
      BY <1>3, <2>2, <3>2 DEF Over, NoAttempt
  <2> QED
    BY <2>1, <2>2 DEF Ends
<1>5. Over \/ (e = Server /\ Left)
  BY <1>1, <1>4 DEF FirstInv, NothingUnsaid, Said
<1>6. Said(Other(e), d)
  <2>1. d # Plain("Traffic") /\ d # Plain("ShutdownOk") /\ d.time = 0
    BY <1>2 DEF Plain, NoAttempt
  <2>2. e = Server => Other(e) = Client
    BY EndsDiffer DEF Other
  <2> QED
    BY <1>5, <2>1, <2>2 DEF Said, Inv, TypeOK
<1> QED
  BY <1>1, <1>2, <1>6, StaysKeepFirst

LEMMA ReceiveKeepsFirst ==
  ASSUME Inv, FirstInv, NEW e \in Ends, Receive(e)
  PROVE  FirstInv'
<1> USE SizesArePositive, EndsAreTwo
<1>1. peer[e] \in Peer
  BY DEF Inv, TypeOK
<1>2. CASE ReceivePeerNotFound(e)
  BY <1>2, ForceIsOnePeer, OnePeerKeepsFirst DEF ReceivePeerNotFound, Is
<1>3. CASE ReceiveShutdownOk(e)
  <2> DEFINE p == [peer[e] EXCEPT !.state = "Disconnected"]
  <2>1. p \in Peer /\ p.time = peer[e].time /\ p.state = "Disconnected"
    BY <1>1 DEF Peer
  <2>2. /\ SetPeer(e, p) /\ peer[e].state # "None" /\ net' = net
        /\ UNCHANGED <<compatible, attempts, request, accepted, told>> /\ closed' = closed /\ open' = open
    BY <1>3 DEF ReceiveShutdownOk, Is, handlerVars
  <2> HIDE DEF p
  <2>3. OnePeer(e)
    BY <2>1, <2>2, KeptIsOnePeer
  <2> QED
    BY <2>2, <2>3, OnePeerKeepsFirst
<1>4. CASE ReceiveTraffic(e)
  <2> DEFINE p == [peer[e] EXCEPT !.since = 0]
  <2>1. p \in Peer /\ p.time = peer[e].time /\ p.state = peer[e].state
    BY <1>1 DEF Peer
  <2>2. /\ SetPeer(e, p) /\ peer[e].state # "None"
        /\ UNCHANGED <<compatible, attempts, request, accepted, told>> /\ closed' = closed /\ open' = open
        /\ Plain("Traffic") \in net[e]
        /\ Transmit(e, Plain("Traffic")) \/ UNCHANGED net
    BY <1>4 DEF ReceiveTraffic, Is, handlerVars
  <2> HIDE DEF p
  <2>3. OnePeer(e)
    BY <2>1, <2>2, KeptIsOnePeer
  <2>4. Plain("Traffic") \in Datagram /\ Said(Other(e), Plain("Traffic"))
    <3>1. \A k \in {"ShutdownOk", "PeerNotFound"} : Plain(k) # Plain("Traffic")
      BY DEF Plain
    <3> QED
      BY <2>2, <3>1 DEF FirstInv, NothingUnsaid, Said, Inv, TypeOK
  <2> QED
    BY <2>2, <2>3, <2>4, OnePeerKeepsFirst
<1> QED
  BY <1>2, <1>3, <1>4, DisconnectKeepsFirst, StrangerKeepsFirst DEF Receive

LEMMA UpdateKeepsFirst ==
  ASSUME Inv, FirstInv, NEW e \in Ends, Update(e)
  PROVE  FirstInv'
<1> USE SizesArePositive, EndsAreTwo
<1> DEFINE q == Waited(peer[e])
<1>1. peer[e] \in Peer /\ NoPeer \in Peer
  BY DEF Inv, TypeOK, NoPeer, Peer, NoAttempt
<1>2. q \in Peer /\ q.time = peer[e].time /\ q.state = peer[e].state /\ q.tries = peer[e].tries
  <2>1. IF peer[e].since > Timeout THEN peer[e].since \in 0..Timeout + 1
        ELSE peer[e].since + 1 \in 0..Timeout + 1
    BY <1>1 DEF Peer
  <2> QED
    BY <1>1, <2>1 DEF Waited, Peer
<1>3. /\ UNCHANGED <<compatible, stops, request, attempts, accepted, closed>>
      /\ peer[e].state # "None"
  BY DEF Update, UpdateConnected, UpdateShutdown, UpdateOutgoing, UpdateDisconnected, Is, handlerVars
<1>4. CASE UNCHANGED net /\ \E reason : ForceDisconnect(e, reason)
  BY <1>3, <1>4, ForceIsOnePeer, OnePeerKeepsFirst
<1>5. ASSUME NEW p \in Peer, p.time = peer[e].time, p.state = peer[e].state \/ p.state = "Disconnected",
             SetPeer(e, p), UNCHANGED <<open, told>>,
             \/ UNCHANGED net
             \/ \E k \in {"Disconnect", "ConnectRequest"} : Transmit(e, Timed(k, peer[e].time))
             \/ peer[e].state = "Connected" /\ Transmit(e, Plain("Traffic"))
      PROVE  FirstInv'
  <2>1. OnePeer(e)
    BY <1>3, <1>5, KeptIsOnePeer
  <2>2. ASSUME peer[e].state = "Connected"
        PROVE  Begun
    <3>1. CASE e = Client
      BY <2>2, <3>1 DEF FirstInv, ClientBegun
    <3>2. CASE e = Server
      BY <2>2, <3>2 DEF FirstInv, PastAttempts, Inv, PeerInv, AcceptedIsKnown, PeersHaveAttempts, Attempts,
         Begun, TypeOK
    <3> QED
      BY <3>1, <3>2 DEF Ends
  <2>3. Plain("Traffic") \in Datagram /\ Plain("Traffic").time = 0
        /\ \A k \in {"ShutdownOk", "PeerNotFound"} : Plain(k) # Plain("Traffic")
    BY PlainTypes DEF Kinds, Plain, NoAttempt
  <2>4. Begun => Said(Other(e), Plain("Traffic"))
    BY <2>3 DEF Said, Inv, TypeOK
  <2>5. \A k \in {"Disconnect", "ConnectRequest"} :
          Timed(k, peer[e].time) \in Datagram /\ Said(Other(e), Timed(k, peer[e].time))
    BY <1>3, OwnAttemptSaid DEF Kinds
  <2> QED
    BY <1>5, <2>1, <2>2, <2>3, <2>4, <2>5, OnePeerKeepsFirst
<1>6. CASE UpdateConnected(e)
  <2>1. Silent(e) \/ ~Silent(e)
    OBVIOUS
  <2> HIDE DEF q
  <2> QED
    BY <1>2, <1>4, <1>5, <1>6, <2>1 DEF UpdateConnected, Is, q
<1>7. CASE UpdateShutdown(e)
  <2>1. CASE Silent(e)
    <3> DEFINE p == [q EXCEPT !.state = "Disconnected"]
    <3>1. p \in Peer /\ p.time = peer[e].time /\ p.state = "Disconnected"
      BY <1>2 DEF Peer
    <3>2. SetPeer(e, p) /\ UNCHANGED net /\ UNCHANGED <<open, told>>
      BY <1>7, <2>1 DEF UpdateShutdown, handlerVars
    <3> HIDE DEF p
    <3> QED
      BY <1>5, <3>1, <3>2
  <2>2. CASE ~Silent(e)
    <3>1. SetPeer(e, q) /\ Transmit(e, Timed("Disconnect", peer[e].time)) /\ UNCHANGED <<open, told>>
      BY <1>7, <2>2 DEF UpdateShutdown, Repeat, handlerVars
    <3> HIDE DEF q
    <3> QED
      BY <1>2, <1>5, <3>1
  <2> QED
    BY <2>1, <2>2
<1>8. CASE UpdateOutgoing(e)
  <2>1. CASE Tried(peer[e].tries) > MaxConnectAttempts
    BY <1>4, <1>8, <2>1 DEF UpdateOutgoing
  <2>2. CASE ~(Tried(peer[e].tries) > MaxConnectAttempts)
    <3> DEFINE p == [q EXCEPT !.tries = Tried(@)]
    <3>1. Tried(q.tries) \in 0..MaxConnectAttempts
      BY <1>1, <1>2, <2>2 DEF Tried, Peer
    <3>2. SetPeer(e, p) /\ Transmit(e, Timed("ConnectRequest", peer[e].time)) /\ UNCHANGED <<open, told>>
      BY <1>8, <2>2 DEF UpdateOutgoing
    <3> HIDE DEF q
    <3>3. p \in Peer /\ p.time = peer[e].time /\ p.state = peer[e].state
      BY <1>2, <3>1 DEF Peer
    <3> HIDE DEF p
    <3> QED
      BY <1>5, <3>2, <3>3
  <2> QED
    BY <2>1, <2>2
<1>9. CASE UpdateDisconnected(e)
  <2>1. UNCHANGED <<open, told, net>> /\ (SetPeer(e, NoPeer) \/ SetPeer(e, q))
    BY <1>9 DEF UpdateDisconnected, handlerVars
  <2> HIDE DEF q
  <2>2. CASE SetPeer(e, q)
    BY <1>2, <1>5, <2>1, <2>2
  <2>3. CASE SetPeer(e, NoPeer)
    <3>1. OnePeer(e)
      BY <1>1, <1>3, <2>1, <2>3 DEF OnePeer, SetPeer
    <3> QED
      BY <2>1, <3>1, OnePeerKeepsFirst
  <2> QED
    BY <2>1, <2>2, <2>3
<1> QED
  BY <1>6, <1>7, <1>8, <1>9 DEF Update

LEMMA NextKeepsFirst == Inv /\ FirstInv /\ [Next]_vars => FirstInv'
<1> SUFFICES ASSUME Inv, FirstInv, [Next]_vars PROVE FirstInv'
  OBVIOUS
<1>1. CASE UNCHANGED vars
  BY <1>1, StaysKeepFirst DEF vars, handlerVars
<1>2. ASSUME NEW t \in Attempts, ReceiveIncompatible(t)
      PROVE  FirstInv'
  <2>1. Plain("InvalidProtocol") \in Datagram /\ Plain("InvalidProtocol").time = 0
        /\ \A k \in {"ShutdownOk", "PeerNotFound", "Traffic"} : Plain(k) # Plain("InvalidProtocol")
    BY PlainTypes DEF Kinds, Plain, NoAttempt
  <2>2. Said(Other(Server), Plain("InvalidProtocol"))
    BY <2>1 DEF Said, Inv, TypeOK
  <2> QED
    BY <1>2, <2>1, <2>2, StaysKeepFirst, EndsAreTwo DEF ReceiveIncompatible, handlerVars
<1>3. CASE ReceiveInvalidProtocol
  BY <1>3, ForceIsOnePeer, OnePeerKeepsFirst, EndsAreTwo DEF ReceiveInvalidProtocol, Is
<1>4. ASSUME NEW e \in Ends, NEW d \in net[e], Lose(e, d)
      PROVE  FirstInv'
  <2>1. \A f \in Ends : net'[f] \subseteq net[f]
    BY <1>4 DEF Lose, Inv, TypeOK
  <2> QED
    BY <1>4, <2>1, StaysKeepFirst DEF Lose, handlerVars
<1>5. CASE Connect \/ Reject \/ Accept
  BY <1>5, ConnectKeepsFirst, ServerKeepsFirst
<1>6. ASSUME NEW t \in Attempts, ReceiveConnectRequest(t) \/ ReceiveConnectAccept(t)
      PROVE  FirstInv'
  BY <1>6, RequestKeepsFirst, AcceptedKeepsFirst
<1>7. ASSUME NEW e \in Ends, Disconnect(e) \/ Restart(e) \/ Receive(e) \/ Update(e)
      PROVE  FirstInv'
  BY <1>7, CallsKeepFirst, ReceiveKeepsFirst, UpdateKeepsFirst
<1> QED
  BY <1>1, <1>2, <1>3, <1>4, <1>5, <1>6, <1>7 DEF Next, ReceiveRequest, ReceiveAnswer

\* What has been closed stays closed.
LEMMA ClosedGrows ==
  ASSUME Inv, [Next]_vars
  PROVE  closed[Client] \subseteq closed'[Client] /\ closed[Server] \subseteq closed'[Server]
<1>1. \/ closed' = closed
      \/ \E e \in Ends : \E c : closed' = [closed EXCEPT ![e] = @ \cup c]
  BY EndsAreTwo
     DEF Next, Connect, Reject, Accept, ReceiveRequest, ReceiveAnswer, ReceiveConnectRequest,
         ReceiveIncompatible, ReceiveInvalidProtocol, ReceiveConnectAccept, Disconnect, Shutdown, Restart,
         Receive, ReceiveDisconnect, ReceivePeerNotFound, ReceiveFromStranger, ReceiveShutdownOk,
         ReceiveTraffic, Update, UpdateConnected, UpdateShutdown, UpdateOutgoing, UpdateDisconnected, Lose,
         vars, handlerVars
<1> QED
  BY <1>1, EndsAreTwo DEF Inv, TypeOK

\* A connection ends at one end only because it was disconnected, refused or
\* stopped at one of them, or nothing has been heard for long, or for a newer
\* attempt, or by a PeerNotFound, which names no connection: the first one it
\* spares as long as both ends know it, except at the client when a late
\* request has set it up again (manager.go:384-427, 462-519, 529-560, peer.go:559-656).
THEOREM EndForAReason == Spec => EndsForAReason
<1>1. Inv /\ FirstInv /\ [Next]_vars =>
        \A e \in Ends : open[e] # NoAttempt /\ open'[e] = NoAttempt =>
          \/ open[e] \in closed'[Client] \cup closed'[Server]
          \/ Silent(e) \/ NotFound(e)
          \/ e = Server /\ request' > open[e]
  <2> SUFFICES ASSUME Inv, FirstInv, [Next]_vars,
                      NEW e \in Ends, open[e] # NoAttempt, open'[e] = NoAttempt
               PROVE  \/ open[e] \in closed'[Client] \cup closed'[Server]
                      \/ Silent(e) \/ NotFound(e)
                      \/ e = Server /\ request' > open[e]
    OBVIOUS
  <2>1. NoAttempt \notin Attempts /\ open \in [Ends -> {NoAttempt} \cup Attempts]
    BY DEF NoAttempt, Attempts, Inv, TypeOK
  <2>2. ASSUME NEW t \in Attempts, Promised!Accept(t) \/ Promised!Establish(t)
        PROVE  FALSE
    BY <2>1, <2>2 DEF Promised!Accept, Promised!Establish, Ends
  <2>3. ASSUME NEW f \in Ends, Ended(f)
        PROVE  Reason(e)
    BY <2>1, <2>3 DEF Ended
  <2>4. Reason(e)
    BY <2>2, <2>3, NextReports DEF Report
  <2>5. ASSUME Plain("PeerNotFound") \in net[e], ~NotFound(e)
        PROVE  open[e] \in closed[Client] \cup closed[Server]
    <3>1. open[e] = 1 /\ ~(e = Client /\ LateRequests) /\ open[Other(e)] = 1
      BY <2>5 DEF NotFound
    <3>2. Over \/ (e = Client /\ Left)
      BY <2>5 DEF FirstInv, NothingUnsaid, Said
    <3>3. open[Client] = 1 /\ open[Server] = 1
      BY <3>1, EndsAreTwo DEF Ends
    <3>4. attempts = 1
      BY <3>3, OpenPeer, EndsAreTwo DEF FirstInv, NewestAtClient, NoAttempt
    <3> QED
      BY <3>1, <3>2, <3>3, <3>4 DEF Over, Left
  <2> QED
    BY <2>4, <2>5, ClosedGrows DEF Reason
<1>2. Init => FirstInv
  BY InitFirst
<1> QED
  BY <1>1, <1>2, NextKeepsFirst, ConnectionInvariant, PTL DEF Spec, EndsForAReason

-----------------------------------------------------------------------------
(* The event loops: the types of CommandLoops.                             *)

\* A queue within its bound takes one command more where there is room.
LEMMA AppendKeepsBound ==
  ASSUME NEW q \in Seq({"work", "stop"}), NEW c \in {"work", "stop"}, Len(q) < CommandQueueSize
  PROVE  Append(q, c) \in Seq({"work", "stop"}) /\ Len(Append(q, c)) <= CommandQueueSize
BY QueuesHoldSomething

LEMMA TailKeepsBound ==
  ASSUME NEW q \in Seq({"work", "stop"}), q # <<>>, Len(q) <= CommandQueueSize
  PROVE  Tail(q) \in Seq({"work", "stop"}) /\ Len(Tail(q)) <= CommandQueueSize
BY QueuesHoldSomething

LEMMA LoopsInitTypeOK == LoopsInit => LoopsTypeOK
BY QueuesHoldSomething DEF LoopsInit, LoopsTypeOK, Nobody, Managers, Posters, Stoppers, Steps

\* The types, one lemma for each goroutine.
LEMMA LoopKeepsTypes ==
  ASSUME LoopsTypeOK, NEW m \in Managers,
         TakeEvent(m) \/ TakeCommand(m) \/ Finish(m) \/ EndLoop(m)
  PROVE  LoopsTypeOK'
<1>1. CASE TakeEvent(m)
  BY <1>1 DEF LoopsTypeOK, TakeEvent
<1>2. CASE TakeCommand(m)
  <2>1. /\ Tail(commands[m]) \in Seq({"work", "stop"})
        /\ Len(Tail(commands[m])) <= CommandQueueSize
    BY <1>2, TailKeepsBound DEF LoopsTypeOK, TakeCommand
  <2>2. commands' \in [Managers -> Seq({"work", "stop"})]
        /\ \A n \in Managers : Len(commands'[n]) <= CommandQueueSize
    BY <1>2, <2>1 DEF LoopsTypeOK, TakeCommand
  <2> QED
    BY <1>2, <2>2 DEF LoopsTypeOK, TakeCommand
<1>3. CASE Finish(m)
  BY <1>3 DEF LoopsTypeOK, Finish
<1>4. CASE EndLoop(m)
  BY <1>4 DEF LoopsTypeOK, EndLoop
<1> QED
  BY <1>1, <1>2, <1>3, <1>4

LEMMA PosterKeepsTypes ==
  ASSUME LoopsTypeOK, NEW p \in Posters,
         PostEnds(p) \/ \E m \in Managers : Post(p, m)
  PROVE  LoopsTypeOK'
<1>1. CASE PostEnds(p)
  <2> DEFINE m == posting[p]
  <2>1. m \in Managers
    BY <1>1 DEF LoopsTypeOK, PostEnds, Posters
  <2>2. commands' \in [Managers -> Seq({"work", "stop"})]
        /\ \A n \in Managers : Len(commands'[n]) <= CommandQueueSize
    <3>1. CASE UNCHANGED commands
      BY <3>1 DEF LoopsTypeOK
    <3>2. CASE CommandFits(m) /\ commands' = [commands EXCEPT ![m] = Append(@, "work")]
      BY <3>2, <2>1, AppendKeepsBound DEF LoopsTypeOK, CommandFits
    <3> QED
      BY <1>1, <3>1, <3>2 DEF PostEnds
  <2> QED
    BY <1>1, <2>2 DEF LoopsTypeOK, PostEnds
<1>2. ASSUME NEW m \in Managers, Post(p, m)
      PROVE  LoopsTypeOK'
  BY <1>2, QueuesHoldSomething DEF LoopsTypeOK, Post
<1> QED
  BY <1>1, <1>2

\* Every step of a stopper but NextStop only moves it on.
LEMMA StopperKeepsTypes ==
  ASSUME LoopsTypeOK, NEW s \in Stoppers, CallStop(s) \/ StopStep(s)
  PROVE  LoopsTypeOK'
<1> DEFINE Moved(at) == stop' = [stop EXCEPT ![s].at = at]
<1>1. ASSUME NEW at \in Steps, Moved(at)
      PROVE  stop' \in [Stoppers -> [of : Managers, at : Steps \cup {"none"}]]
  BY <1>1 DEF LoopsTypeOK
<1>2. stop[s].of \in Managers
  BY DEF LoopsTypeOK
<1>3. CASE CallStop(s)
  BY <1>1, <1>3 DEF LoopsTypeOK, CallStop, Reaches, Steps
<1>4. CASE EnterOnce(s)
  BY <1>1, <1>4 DEF LoopsTypeOK, EnterOnce, Reaches, Steps
<1>5. CASE PassOnce(s)
  BY <1>1, <1>5 DEF LoopsTypeOK, PassOnce, Reaches, Steps
<1>6. CASE Offer(s)
  <2>1. commands' \in [Managers -> Seq({"work", "stop"})]
        /\ \A n \in Managers : Len(commands'[n]) <= CommandQueueSize
    BY <1>2, <1>6, AppendKeepsBound DEF LoopsTypeOK, Offer, CommandFits
  <2> QED
    BY <1>1, <1>6, <2>1 DEF LoopsTypeOK, Offer, Reaches, Steps
<1>7. CASE GiveUp(s)
  BY <1>1, <1>7 DEF LoopsTypeOK, GiveUp, Reaches, Steps
<1>8. CASE SeeGoodbye(s)
  BY <1>1, <1>8 DEF LoopsTypeOK, SeeGoodbye, Reaches, Steps
<1>9. CASE CloseDone(s)
  BY <1>1, <1>2, <1>9 DEF LoopsTypeOK, CloseDone, Reaches, Steps
<1>10. CASE Join(s)
  BY <1>1, <1>10 DEF LoopsTypeOK, Join, Reaches, Steps
<1>11. CASE s = Closer /\ NextStop
  BY <1>11 DEF LoopsTypeOK, NextStop, Managers, Steps
<1> QED
  BY <1>3, <1>4, <1>5, <1>6, <1>7, <1>8, <1>9, <1>10, <1>11 DEF StopStep

LEMMA NextKeepsTypes == LoopsTypeOK /\ [LoopsNext]_loopVars => LoopsTypeOK'
<1> SUFFICES ASSUME LoopsTypeOK, [LoopsNext]_loopVars PROVE LoopsTypeOK'
  OBVIOUS
<1>1. CASE UNCHANGED loopVars
  BY <1>1 DEF LoopsTypeOK, loopVars
<1>2. CASE LoopsNext
  BY <1>2, LoopKeepsTypes, PosterKeepsTypes, StopperKeepsTypes DEF LoopsNext
<1> QED
  BY <1>1, <1>2

\* The types, which the proof below rests on.
LEMMA LoopsTypes == LoopsSpec => []LoopsTypeOK
BY LoopsInitTypeOK, NextKeepsTypes, PTL DEF LoopsSpec

-----------------------------------------------------------------------------
(* NoHandlerAfterStop is inductive: a loop that has ended stays so, and a  *)
(* stopper gets through by Join, or after another that did.                *)

LEMMA InitNoHandler == LoopsInit => NoHandlerAfterStop
BY AllDiffer DEF LoopsInit, NoHandlerAfterStop, HasReturned, Stoppers, Managers

\* Steps of others end no Stop and start no loop that has ended.
LEMMA OthersKeepNoHandler ==
  ASSUME LoopsTypeOK, NoHandlerAfterStop, UNCHANGED stop,
         \A m \in Managers : loop[m] = "ended" => loop'[m] = "ended"
  PROVE  NoHandlerAfterStop'
BY DEF NoHandlerAfterStop, HasReturned

LEMMA LoopsStayEnded ==
  ASSUME LoopsTypeOK, LoopsNext
  PROVE  \A m \in Managers : loop[m] = "ended" => loop'[m] = "ended"
<1>1. ASSUME NEW m \in Managers, TakeEvent(m) \/ TakeCommand(m) \/ Finish(m) \/ EndLoop(m)
      PROVE  \A n \in Managers : loop[n] = "ended" => loop'[n] = "ended"
  BY <1>1 DEF LoopsTypeOK, TakeEvent, TakeCommand, Finish, EndLoop
<1>2. ASSUME NEW p \in Posters, PostEnds(p) \/ \E m \in Managers : Post(p, m)
      PROVE  UNCHANGED loop
  BY <1>2 DEF PostEnds, Post
<1>3. ASSUME NEW s \in Stoppers, CallStop(s) \/ StopStep(s)
      PROVE  UNCHANGED loop
  BY <1>3 DEF CallStop, StopStep, EnterOnce, PassOnce, Offer, GiveUp, SeeGoodbye,
              CloseDone, Join, NextStop, Reaches
<1> QED
  BY <1>1, <1>2, <1>3 DEF LoopsNext

\* A step of a stopper that does not return leaves nobody else returned.
LEMMA MovesKeepNoHandler ==
  ASSUME LoopsTypeOK, NoHandlerAfterStop, NEW s \in Stoppers, NEW at \in Steps,
         stop' = [stop EXCEPT ![s].at = at], UNCHANGED loop,
         at = "returned" => loop[stop[s].of] = "ended"
  PROVE  NoHandlerAfterStop'
<1>1. \A r \in Stoppers : stop'[r].of = stop[r].of /\ (r # s => stop'[r] = stop[r])
  BY DEF LoopsTypeOK
<1>2. stop'[s].at = at
  BY DEF LoopsTypeOK
<1> QED
  BY <1>1, <1>2 DEF NoHandlerAfterStop, HasReturned

LEMMA StopperKeepsNoHandler ==
  ASSUME LoopsTypeOK, NoHandlerAfterStop, NEW s \in Stoppers, CallStop(s) \/ StopStep(s)
  PROVE  NoHandlerAfterStop'
<1>1. CASE CallStop(s)
  BY <1>1, MovesKeepNoHandler DEF CallStop, Reaches, Steps
<1>2. CASE EnterOnce(s)
  BY <1>2, MovesKeepNoHandler DEF EnterOnce, Reaches, Steps
<1>3. CASE PassOnce(s)
  <2>1. loop[stop[s].of] = "ended"
    <3>1. PICK r \in Stoppers : stop[r].of = stop[s].of /\ stop[r].at = "returned"
      BY <1>3 DEF PassOnce, OnceIsOver
    <3>2. stop[s].of \in Managers
      BY DEF LoopsTypeOK
    <3> QED
      BY <3>1, <3>2 DEF NoHandlerAfterStop, HasReturned
  <2> QED
    BY <1>3, <2>1, MovesKeepNoHandler DEF PassOnce, Reaches, Steps
<1>4. CASE Offer(s)
  BY <1>4, MovesKeepNoHandler DEF Offer, Reaches, Steps
<1>5. CASE GiveUp(s)
  BY <1>5, MovesKeepNoHandler DEF GiveUp, Reaches, Steps
<1>6. CASE SeeGoodbye(s)
  BY <1>6, MovesKeepNoHandler DEF SeeGoodbye, Reaches, Steps
<1>7. CASE CloseDone(s)
  BY <1>7, MovesKeepNoHandler DEF CloseDone, Reaches, Steps
<1>8. CASE Join(s)
  BY <1>8, MovesKeepNoHandler DEF Join, Reaches, Steps
<1>9. CASE s = Closer /\ NextStop
  <2>1. loop'[Listening] = "ended"
    BY <1>9 DEF NextStop, Stopping, NoHandlerAfterStop, HasReturned, Stoppers, Managers
  <2>2. stop'[Closer].of = Link /\ stop'[Closer].at = "starting"
        /\ \A r \in Stoppers \ {Closer} : stop'[r] = stop[r]
    BY <1>9 DEF NextStop, LoopsTypeOK
  <2> QED
    BY <1>9, <2>1, <2>2 DEF NextStop, NoHandlerAfterStop, HasReturned
<1> QED
  BY <1>1, <1>2, <1>3, <1>4, <1>5, <1>6, <1>7, <1>8, <1>9 DEF StopStep

LEMMA NextKeepsNoHandler == LoopsTypeOK /\ NoHandlerAfterStop /\ [LoopsNext]_loopVars => NoHandlerAfterStop'
<1> SUFFICES ASSUME LoopsTypeOK, NoHandlerAfterStop, [LoopsNext]_loopVars PROVE NoHandlerAfterStop'
  OBVIOUS
<1>1. CASE UNCHANGED loopVars
  BY <1>1 DEF NoHandlerAfterStop, HasReturned, loopVars
<1>2. ASSUME NEW s \in Stoppers, CallStop(s) \/ StopStep(s)
      PROVE  NoHandlerAfterStop'
  BY <1>2, StopperKeepsNoHandler
<1>3. CASE LoopsNext /\ UNCHANGED stop
  BY <1>3, LoopsStayEnded, OthersKeepNoHandler
<1>4. LoopsNext => UNCHANGED stop \/ \E s \in Stoppers : CallStop(s) \/ StopStep(s)
  BY DEF LoopsNext, TakeEvent, TakeCommand, Finish, EndLoop, PostEnds, Post
<1> QED
  BY <1>1, <1>2, <1>3, <1>4

\* Once Stop has returned to any of its callers no handler of that manager
\* runs, although each may time out, race with the other and leave its command
\* in the queue (manager.go:227-250).
THEOREM NoHandlerIsLeft == LoopsSpec => []NoHandlerAfterStop
BY InitNoHandler, NextKeepsNoHandler, LoopsTypes, PTL DEF LoopsSpec
=================================================================================
