--------------------------- MODULE ReliableChannel ---------------------------
(***************************************************************************)
(* The reliable channels of internal/litenetlib/channel.go, one direction: *)
(* the sending half at one peer, the receiving half at the other, and the  *)
(* UDP datagrams between them, which may be lost, repeated and reordered.  *)
(*                                                                         *)
(* A message is named by its place among those enqueued and travels in one *)
(* packet; its sequence number is given modulo MaxSequence when it enters  *)
(* the window.  Both halves keep their per-packet state in arrays indexed  *)
(* by the sequence number modulo WindowSize, as the code does.             *)
(*                                                                         *)
(* A datagram is assumed not to survive Lifetime packets that enter the    *)
(* window after it: with 2^15 numbers and a window of 64 that is what      *)
(* makes wrapping around safe at all.                                      *)
(*                                                                         *)
(* Definitions named ..._Slip are plausible mistakes; nothing uses them.   *)
(***************************************************************************)
EXTENDS SequenceNumbers, Sequences

CONSTANTS
  MaxMessages,   \* bound on the messages enqueued
  MaxBacklog,    \* bound on those that wait to enter the window
  WindowSize,
  Lifetime

ASSUME SizesArePositive ==
  MaxMessages \in Nat /\ MaxBacklog \in Nat /\ WindowSize \in Nat \ {0} /\ Lifetime \in Nat
ASSUME ArraysWrapEvenly == MaxSequence % WindowSize = 0
ASSUME WindowsAreApart  == 2 * (Lifetime + WindowSize) <= MaxSequence
ASSUME PacketsOutliveWindow == WindowSize <= Lifetime

VARIABLES
  ordered,
  \* the sending half
  sent,            \* messages enqueued so far
  entered,         \* messages that have entered the window
  localSequence, localWindow,
  pending,         \* index -> the unacknowledged packet there, or NoPacket
  inQueue,         \* the channel is in the peer's send queue
  \* the receiving half
  remoteSequence, remoteWindow,
  ackStart, ackBits,   \* the packet outgoingAcks: its number, its bits
  held,            \* index -> message received early, or None
  mustSendAcks,
  delivered,
  \* the datagrams
  data, acks

senderVars   == <<sent, entered, localSequence, localWindow, pending, inQueue>>
receiverVars == <<remoteSequence, remoteWindow, ackStart, ackBits, held, mustSendAcks, delivered>>
vars == <<ordered, senderVars, receiverVars, data, acks>>

None     == 0
NoPacket == [seq |-> 0, msg |-> None]
Packet   == [seq : 0..MaxSequence - 1, msg : 1..MaxMessages]

Index == 0..WindowSize - 1

At(seq) == seq % WindowSize

Init ==
  /\ ordered \in BOOLEAN
  /\ sent = 0 /\ entered = 0
  /\ localSequence = 0 /\ localWindow = 0
  /\ pending = [i \in Index |-> NoPacket]
  /\ inQueue = FALSE
  /\ remoteSequence = 0 /\ remoteWindow = 0
  /\ ackStart = 0 /\ ackBits = {}
  /\ held = [i \in Index |-> None]
  /\ mustSendAcks = FALSE
  /\ delivered = <<>>
  /\ data = {} /\ acks = {}

-----------------------------------------------------------------------------
(* The sending half.                                                       *)

\* Peer.send: the message joins the outgoing queue of the channel.
Send ==
  /\ sent < MaxMessages
  /\ sent - entered < MaxBacklog
  /\ sent' = sent + 1
  /\ inQueue' = TRUE
  /\ UNCHANGED <<ordered, entered, localSequence, localWindow, pending, receiverVars, data, acks>>

\* Slip: the window takes one packet too many.
Room_Slip == WindowSize + 1 - Relative(localSequence, localWindow)

Room == WindowSize - Relative(localSequence, localWindow)

\* The packets that enter the window now, and how many they are.
Fitting  == IF sent - entered <= Room THEN sent - entered ELSE Room
Entering == {[seq |-> Plus(localSequence, i - 1), msg |-> entered + i] : i \in 1..Fitting}

\* Slip: packets that wait for their acknowledgement do not count.
Unfinished_Slip(n, window) == n < sent

\* What sendNextPackets returns: the channel stays in the send queue.
Unfinished(n, window) == n < sent \/ \E i \in Index : window[i] # NoPacket

\* sendNextPackets: packets enter the window and are sent; of those already
\* there any may have waited for resendDelay and is sent again.
SendNextPackets ==
  LET n       == entered + Fitting
      filled  == [i \in Index |-> IF \E p \in Entering : At(p.seq) = i
                                 THEN CHOOSE p \in Entering : At(p.seq) = i
                                 ELSE pending[i]]
      waiting == {pending[i] : i \in Index} \ {NoPacket}
  IN
  /\ inQueue
  /\ entered' = n
  /\ localSequence' = Plus(localSequence, n - entered)
  /\ pending' = filled
  /\ \E again \in SUBSET waiting :
       data' = {p \in data : n - p.msg < Lifetime} \cup Entering \cup again
  /\ acks' = {a \in acks : n - a.born < Lifetime}
  /\ inQueue' = Unfinished(n, filled)
  /\ UNCHANGED <<ordered, sent, localWindow, receiverVars>>

\* The acknowledgement says that seq has arrived.
Covers(a, seq) == Relative(seq, a.start) < WindowSize /\ At(seq) \in a.bits

\* processAck: acknowledged packets are cleared, and the window moves over
\* those at its start.
ProcessAck(a) ==
  LET size  == Relative(localSequence, localWindow)
      acked == {i \in 0..size - 1 : Covers(a, Plus(localWindow, i))}
      moved == CHOOSE n \in 0..size : 0..n - 1 \subseteq acked /\ n \notin acked
  IN
  /\ a \in acks
  /\ Relative(localWindow, a.start) \in Index
  /\ localWindow' = Plus(localWindow, moved)
  /\ pending' = [i \in Index |->
                   IF \E j \in acked : At(Plus(localWindow, j)) = i THEN NoPacket ELSE pending[i]]
  /\ UNCHANGED <<ordered, sent, entered, localSequence, inQueue, receiverVars, data, acks>>

-----------------------------------------------------------------------------
(* The receiving half.                                                     *)

\* The packet is neither too far ahead nor behind the window.
Acceptable(seq) ==
  /\ Relative(seq, remoteSequence) <= WindowSize
  /\ Relative(seq, remoteWindow) \in 0..2 * WindowSize - 1

\* Slip: the bit of the first number that stays is cleared too.
SlideTooFar_Slip(start) ==
  ackBits \ {At(Plus(remoteWindow, i)) : i \in 0..Relative(start, remoteWindow)}

\* The bits of the numbers that leave the window are cleared.
SlideTo(start) ==
  ackBits \ {At(Plus(remoteWindow, i)) : i \in 0..Relative(start, remoteWindow) - 1}

\* How many messages held follow one another from seq on.
Run(h, seq) ==
  CHOOSE n \in 0..WindowSize :
    /\ \A i \in 0..n - 1 : h[At(Plus(seq, i))] # None
    /\ n < WindowSize => h[At(Plus(seq, n))] = None

\* The packet that is waited for goes out, and in an ordered channel those
\* held behind it; an unordered one only skips what went out early.
Arrive(p) ==
  LET next == Plus(remoteSequence, 1)
      run  == Run(held, next)
      gone == {At(Plus(next, i)) : i \in 0..run - 1}
  IN
  /\ remoteSequence' = Plus(next, run)
  /\ held' = [i \in Index |-> IF i \in gone THEN None ELSE held[i]]
  /\ delivered' = delivered \o <<p.msg>> \o
                  (IF ordered THEN [i \in 1..run |-> held[At(Plus(next, i - 1))]] ELSE <<>>)

\* An early packet is held, or goes out at once and is noted.
ArriveEarly(p) ==
  /\ held' = [held EXCEPT ![At(p.seq)] = p.msg]
  /\ delivered' = IF ordered THEN delivered ELSE Append(delivered, p.msg)
  /\ UNCHANGED remoteSequence

\* processPacket.
ProcessPacket(p) ==
  LET start == IF Relative(p.seq, remoteWindow) < WindowSize THEN remoteWindow
               ELSE Plus(p.seq, MaxSequence + 1 - WindowSize)
      bits  == SlideTo(start)
  IN
  /\ p \in data
  /\ Acceptable(p.seq)
  /\ remoteWindow' = start
  /\ ackStart' = start
  /\ ackBits' = bits \cup {At(p.seq)}
  /\ mustSendAcks' = TRUE
  /\ IF At(p.seq) \in bits THEN UNCHANGED <<remoteSequence, held, delivered>>
     ELSE IF p.seq = remoteSequence THEN Arrive(p)
     ELSE ArriveEarly(p)
  /\ UNCHANGED <<ordered, senderVars, data, acks>>

\* sendNextPackets of the receiving half.
SendAcks ==
  /\ mustSendAcks
  /\ mustSendAcks' = FALSE
  /\ acks' = acks \cup {[start |-> ackStart, bits |-> ackBits, born |-> entered]}
  /\ UNCHANGED <<ordered, senderVars, remoteSequence, remoteWindow, ackStart, ackBits, held,
                 delivered, data>>

-----------------------------------------------------------------------------
\* A datagram is lost, or its last copy has arrived.
Lose ==
  \/ \E p \in data : data' = data \ {p} /\ UNCHANGED acks
  \/ \E a \in acks : acks' = acks \ {a} /\ UNCHANGED data

Next ==
  \/ Send \/ SendNextPackets \/ SendAcks
  \/ \E p \in data : ProcessPacket(p)
  \/ \E a \in acks : ProcessAck(a)
  \/ Lose /\ UNCHANGED <<ordered, senderVars, receiverVars>>

Spec == Init /\ [][Next]_vars

\* What the peer's updates and the network are trusted with: the oldest
\* packet is sent again when it has waited for resendDelay, and what is sent
\* again and again arrives now and then.
Oldest        == pending[At(localWindow)]
Update        == SendNextPackets /\ (Oldest # NoPacket => Oldest \in data')
OldestArrives == \E p \in data : p = Oldest /\ ProcessPacket(p)
NewestAckArrives ==
  \E a \in acks : a.start = ackStart /\ a.bits = ackBits /\ ProcessAck(a)

FairSpec ==
  /\ Spec
  /\ WF_vars(Update) /\ SF_vars(OldestArrives)
  /\ WF_vars(SendAcks) /\ SF_vars(NewestAckArrives)

-----------------------------------------------------------------------------
TypeOK ==
  /\ ordered \in BOOLEAN
  /\ sent \in 0..MaxMessages /\ entered \in 0..sent
  /\ {localSequence, localWindow, remoteSequence, remoteWindow, ackStart} \subseteq Seqs
  /\ pending \in [Index -> Packet \cup {NoPacket}]
  /\ inQueue \in BOOLEAN /\ mustSendAcks \in BOOLEAN
  /\ ackBits \subseteq Index
  /\ held \in [Index -> 0..MaxMessages]
  /\ delivered \in Seq(1..MaxMessages)
  /\ data \subseteq Packet
  /\ acks \subseteq [start : Seqs, bits : SUBSET Index, born : 0..MaxMessages]

Delivery == INSTANCE ReliableDelivery WITH
  ordered <- ordered, sent <- sent, delivered <- delivered

\* The channel implements what it promises: each message is handed out at
\* most once and none that was not sent, in order if the channel is ordered,
\* although datagrams are lost, repeated and reordered and the numbers wrap
\* (channel.go:118-284).
DeliversOnce == Delivery!Init /\ [][Delivery!Next]_Delivery!vars

\* As long as a message is outstanding one will be handed out: the window
\* does not close for good on either side, and what is pending is sent again
\* until it is acknowledged (channel.go:118-187).
DeliversAll == WF_Delivery!vars(Delivery!Deliver)

\* The receiver's window never gets ahead of the sender's: otherwise
\* processAck ignores every acknowledgement from then on and the channel is
\* stuck (channel.go:122-131, 210-218).
WindowsInStep == Relative(localWindow, remoteWindow) \in 0..WindowSize

\* A message that is neither delivered nor held can still be sent again: the
\* sender gives up a packet only when it has arrived (channel.go:139-156).
NothingGivenUp ==
  \A m \in 1..entered :
    \/ \E i \in 1..Len(delivered) : delivered[i] = m
    \/ \E i \in Index : held[i] = m \/ pending[i].msg = m
=============================================================================
