--------------------------- MODULE SequencedChannel ---------------------------
(***************************************************************************)
(* The sequenced channels of internal/litenetlib/channel.go, one           *)
(* direction: the sending half at one peer, the receiving half at the      *)
(* other, and the datagrams between them, which may be lost, repeated and  *)
(* reordered.  A reliable channel repeats its last packet, and only that,  *)
(* until it is acknowledged.                                               *)
(*                                                                         *)
(* A message is named by its place among those enqueued and has its        *)
(* sequence number, modulo MaxSequence, once it has been sent.             *)
(*                                                                         *)
(* Two things are taken for granted that the numbers cannot ensure: a      *)
(* datagram does not survive Lifetime packets sent after it, and no more   *)
(* than MaxSilence packets are sent while none of them arrives (a peer     *)
(* that hears nothing for disconnectTimeout ends the connection).          *)
(*                                                                         *)
(* Definitions named ..._Slip are plausible mistakes; nothing uses them.   *)
(***************************************************************************)
EXTENDS SequenceNumbers

CONSTANTS
  MaxMessages,   \* bound on the messages enqueued
  MaxBacklog,    \* bound on those that wait for the next update
  Lifetime, MaxSilence

ASSUME SizesAreNatural ==
  MaxMessages \in Nat /\ MaxBacklog \in Nat /\ MaxSilence \in Nat /\ Lifetime \in Nat \ {0}
ASSUME NumbersAreApart == 2 * Lifetime <= MaxSequence /\ 2 * MaxSilence < MaxSequence

VARIABLES
  reliable,
  \* the sending half
  enqueued,        \* messages enqueued so far
  numbered,        \* messages that have been sent, and have a number
  localSequence,
  lastPacket,      \* the packet to repeat, or NoPacket
  inQueue,         \* the channel is in the peer's send queue
  \* the receiving half
  remoteSeq,
  mustSendAck,
  received,        \* the message delivered last, 0 before the first
  handed,          \* how many have been delivered
  \* the datagrams
  data, acks

senderVars   == <<enqueued, numbered, localSequence, lastPacket, inQueue>>
receiverVars == <<remoteSeq, mustSendAck, received, handed>>
vars == <<reliable, senderVars, receiverVars, data, acks>>

NoPacket == [seq |-> 0, msg |-> 0]
Packet   == [seq : Seqs, msg : 1..MaxMessages]

\* The number of the m-th message: localSequence starts at 0 and is counted
\* up before each.
Number(m) == Plus(0, m)

Init ==
  /\ reliable \in BOOLEAN
  /\ enqueued = 0 /\ numbered = 0
  /\ localSequence = 0
  /\ lastPacket = NoPacket
  /\ inQueue = FALSE
  /\ remoteSeq = 0
  /\ mustSendAck = FALSE
  /\ received = 0 /\ handed = 0
  /\ data = {} /\ acks = {}

-----------------------------------------------------------------------------
(* The sending half.                                                       *)

\* Peer.send: the message joins the outgoing queue of the channel.
Send ==
  /\ enqueued < MaxMessages
  /\ enqueued - numbered < MaxBacklog
  /\ enqueued - received < MaxSilence
  /\ enqueued' = enqueued + 1
  /\ inQueue' = TRUE
  /\ UNCHANGED <<reliable, numbered, localSequence, lastPacket, receiverVars, data, acks>>

\* Datagrams as old as that have gone by the time n packets have been sent.
Young(n, ds) == {d \in ds : n - d.msg < Lifetime}

\* Slip: the packet that is repeated is the first of those sent.
Repeated_Slip(n) == [seq |-> Number(numbered + 1), msg |-> numbered + 1]

\* The packet that is repeated is the last of those sent.
Repeated(n) == [seq |-> Number(n), msg |-> n]

\* sendNextPackets with messages in the queue: all of them are sent.
SendOutgoing ==
  /\ inQueue
  /\ enqueued > numbered
  /\ numbered' = enqueued
  /\ localSequence' = Number(enqueued)
  /\ data' = Young(enqueued, data \cup {[seq |-> Number(m), msg |-> m] : m \in numbered + 1 .. enqueued})
  /\ acks' = Young(enqueued, acks)
  /\ lastPacket' = IF reliable THEN Repeated(enqueued) ELSE NoPacket
  /\ inQueue' = (lastPacket' # NoPacket)
  /\ UNCHANGED <<reliable, enqueued, receiverVars>>

\* sendNextPackets with an empty queue: the last packet is sent again when
\* it has waited for resendDelay, and the channel leaves the send queue when
\* there is none.
Resend ==
  /\ inQueue
  /\ enqueued = numbered
  /\ data' = IF lastPacket = NoPacket THEN data ELSE data \cup {lastPacket}
  /\ inQueue' = (lastPacket # NoPacket)
  /\ UNCHANGED <<reliable, enqueued, numbered, localSequence, lastPacket, receiverVars, acks>>

\* Slip: any acknowledgement is taken for one of the last packet.
Acknowledges_Slip(a) == TRUE

\* The acknowledgement is for the last packet.
Acknowledges(a) == a.seq = lastPacket.seq

\* processPacket of an acknowledgement.
ProcessAck(a) ==
  /\ a \in acks
  /\ lastPacket # NoPacket
  /\ Acknowledges(a)
  /\ lastPacket' = NoPacket
  /\ UNCHANGED <<reliable, enqueued, numbered, localSequence, inQueue, receiverVars, data, acks>>

-----------------------------------------------------------------------------
(* The receiving half.                                                     *)

\* Slip: a packet that is repeated is delivered again.
Newer_Slip(p) == Relative(p.seq, remoteSeq) >= 0

Newer(p) == Relative(p.seq, remoteSeq) > 0

\* processPacket: what is newer is delivered, and the newest number seen is
\* acknowledged whatever has arrived.
ProcessPacket(p) ==
  /\ p \in data
  /\ IF Newer(p) THEN remoteSeq' = p.seq /\ received' = p.msg /\ handed' = handed + 1
                 ELSE UNCHANGED <<remoteSeq, received, handed>>
  /\ mustSendAck' = reliable
  /\ UNCHANGED <<reliable, senderVars, data, acks>>

\* sendNextPackets of the receiving half.  An acknowledgement is as old as
\* the newest packet sent when it left.
SendAck ==
  /\ mustSendAck
  /\ mustSendAck' = FALSE
  /\ acks' = acks \cup {[seq |-> remoteSeq, msg |-> numbered]}
  /\ UNCHANGED <<reliable, senderVars, remoteSeq, received, handed, data>>

-----------------------------------------------------------------------------
\* A datagram is lost, or its last copy has arrived.
Lose ==
  /\ \/ \E p \in data : data' = data \ {p} /\ UNCHANGED acks
     \/ \E a \in acks : acks' = acks \ {a} /\ UNCHANGED data
  /\ UNCHANGED <<reliable, senderVars, receiverVars>>

Next ==
  \/ Send \/ SendOutgoing \/ Resend \/ SendAck
  \/ \E p \in data : ProcessPacket(p)
  \/ \E a \in acks : ProcessAck(a)
  \/ Lose

Spec == Init /\ [][Next]_vars

\* The peer is updated for ever, and what is sent again and again arrives
\* now and then.
LastArrives == \E p \in data : p = lastPacket /\ ProcessPacket(p)
AckArrives  == \E a \in acks : ProcessAck(a)

FairSpec ==
  /\ Spec
  /\ WF_vars(SendOutgoing) /\ WF_vars(Resend) /\ WF_vars(SendAck)
  /\ SF_vars(LastArrives) /\ SF_vars(AckArrives)

-----------------------------------------------------------------------------
TypeOK ==
  /\ reliable \in BOOLEAN
  /\ enqueued \in 0..MaxMessages /\ numbered \in 0..enqueued
  /\ {localSequence, remoteSeq} \subseteq Seqs
  /\ lastPacket \in Packet \cup {NoPacket}
  /\ inQueue \in BOOLEAN /\ mustSendAck \in BOOLEAN
  /\ received \in 0..numbered /\ handed \in 0..received
  /\ data \subseteq Packet
  /\ acks \subseteq Packet

\* A message of the channel is a message of the promise; where the code has a
\* number modulo MaxSequence, the promise has the message itself.
Newest == INSTANCE NewestDelivery WITH sent <- enqueued, newest <- received

\* The channel implements its promise: no message is handed out twice or after
\* a newer one, although datagrams are late or repeated and the numbers wrap
\* (channel.go:387-401).
DeliversNewest == Newest!Init /\ [][Newest!Next]_Newest!vars

\* A reliable channel hands out newer messages as long as there are any, the
\* very last one included: whatever else is lost, the last packet is repeated
\* until it has arrived (channel.go:340-372).
DeliversLast == WF_Newest!vars(reliable /\ Newest!Deliver)

\* The packet to repeat is given up only when its message has been delivered,
\* although an acknowledgement names no more than a number that is used again
\* (channel.go:379-385).
LastNotForgotten == reliable => received = numbered \/ lastPacket.msg = numbered
=============================================================================
