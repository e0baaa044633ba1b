------------------------------- MODULE Messages -------------------------------
(***************************************************************************)
(* Messages over the reliable channels of one peer of internal/litenetlib, *)
(* one direction: Peer.send splits a message that is too large for a       *)
(* packet into fragments, Peer.addReliablePacket puts them together again. *)
(*                                                                         *)
(* The channels are not modelled again: here each does what                *)
(* ReliableDelivery promises of its packets.  In turn each is shown to     *)
(* keep that promise for messages.                                         *)
(*                                                                         *)
(* All channels of a peer draw their fragment ids from one counter of 16   *)
(* bits, and the receiver collects fragments by that id alone.  What is    *)
(* relied on is IdFree: an id is not used again while fragments that bear  *)
(* it are still on their way.                                              *)
(*                                                                         *)
(* Definitions named ..._Slip are plausible mistakes; nothing uses them.   *)
(***************************************************************************)
EXTENDS Integers, Sequences, FiniteSets, Functions

CONSTANTS
  Channels,
  Ordered,         \* those that are ordered
  MaxMessages,     \* bound on the messages of a channel
  MaxParts,        \* bound on the packets of a message
  MaxFragmentId    \* 2^16 in the code

ASSUME OrderedAreChannels == Ordered \subseteq Channels
ASSUME SizesAreNatural == MaxMessages \in Nat /\ MaxParts \in Nat /\ MaxFragmentId \in Nat \ {0}

VARIABLES
  \* the sending peer
  fragmentID,
  sent,         \* channel -> messages handed in
  packets,      \* channel -> the packets enqueued
  \* the channels
  out,          \* channel -> the packets it has handed out, by their places
  \* the receiving peer
  heldFrags,    \* fragment id -> the fragments collected
  delivered     \* channel -> messages handed out

vars == <<fragmentID, sent, packets, out, heldFrags, delivered>>

\* A message that is not what was sent: made of fragments of several, or of
\* too few.
Garbage == 0

Init ==
  /\ fragmentID = 0
  /\ sent = [c \in Channels |-> 0]
  /\ packets = [c \in Channels |-> <<>>]
  /\ out = [c \in Channels |-> <<>>]
  /\ heldFrags = <<>>
  /\ delivered = [c \in Channels |-> <<>>]

-----------------------------------------------------------------------------
(* The sending peer.                                                       *)

Undelivered(c) == DOMAIN packets[c] \ Range(out[c])

\* No fragment with this id is on its way or waits for others.
IdFree(id) ==
  /\ \A c \in Channels : \A k \in Undelivered(c) : packets[c][k].total > 0 => packets[c][k].id # id
  /\ id \notin DOMAIN heldFrags

\* Slip: every message gets the same id.
NextId_Slip == fragmentID

NextId == (fragmentID + 1) % MaxFragmentId

\* A message in one packet; total is 0 where a packet is no fragment.
Whole(m) == <<[msg |-> m, id |-> 0, part |-> 0, total |-> 0]>>

Fragments(m, n) == [i \in 1..n |-> [msg |-> m, id |-> NextId, part |-> i - 1, total |-> n]]

\* Peer.send of a message that fits into a packet.
SendWhole(c) ==
  /\ sent[c] < MaxMessages
  /\ sent' = [sent EXCEPT ![c] = @ + 1]
  /\ packets' = [packets EXCEPT ![c] = @ \o Whole(sent[c] + 1)]
  /\ UNCHANGED <<fragmentID, out, heldFrags, delivered>>

\* Peer.send of a message that needs n packets; one that would need more than
\* can be numbered is dropped, as if it had not been handed in.
SendFragmented(c, n) ==
  /\ sent[c] < MaxMessages
  /\ IdFree((fragmentID + 1) % MaxFragmentId)
  /\ sent' = [sent EXCEPT ![c] = @ + 1]
  /\ fragmentID' = NextId
  /\ packets' = [packets EXCEPT ![c] = @ \o Fragments(sent[c] + 1, n)]
  /\ UNCHANGED <<out, heldFrags, delivered>>

-----------------------------------------------------------------------------
(* The channels.  Where the promise lets several packets out in one step,  *)
(* the code passes them to addReliablePacket one after the other.          *)

Channel(c) == INSTANCE ReliableDelivery WITH
  MaxMessages <- MaxMessages * MaxParts,
  ordered <- c \in Ordered, sent <- Len(packets[c]), delivered <- out[c]

-----------------------------------------------------------------------------
(* The receiving peer.                                                     *)

Unstarted(c, p) == [channel |-> c, total |-> p.total, parts |-> {}]

\* What has been collected under the id of the fragment.
Collected(c, p) == IF p.id \in DOMAIN heldFrags THEN heldFrags[p.id] ELSE Unstarted(c, p)

\* The fragment belongs to the collection and is not there yet.
Fits(h, c, p) == p.part < h.total /\ (\A q \in h.parts : q.part # p.part) /\ h.channel = c

With(h, p) == [h EXCEPT !.parts = @ \cup {p}]

\* Slip: the last fragment counts as the whole.
Complete_Slip(h) == \E p \in h.parts : p.part = h.total - 1

Complete(h) == Cardinality(h.parts) = h.total

\* Every place is taken by the fragment of m that belongs there.
MadeOf(h, m) == \A i \in 0 .. h.total - 1 : \E p \in h.parts : p.part = i /\ p.msg = m

\* The message that the fragments make, one after the other.
Joined(h) ==
  IF \E m \in 1..MaxMessages : MadeOf(h, m) THEN CHOOSE m \in 1..MaxMessages : MadeOf(h, m) ELSE Garbage

\* Slip: what has been put together stays.
Remaining_Slip(id) == DOMAIN heldFrags \cup {id}

\* The collections there are when that of id is complete.
Remaining(id) == DOMAIN heldFrags \ {id}

\* addReliablePacket.
AddWhole(c, p) ==
  /\ p.total = 0
  /\ delivered' = [delivered EXCEPT ![c] = Append(@, p.msg)]
  /\ UNCHANGED heldFrags

AddFragment(c, p) ==
  LET h == With(Collected(c, p), p) IN
  /\ p.total > 0
  /\ Fits(Collected(c, p), c, p)
  /\ IF Complete(h)
     THEN /\ heldFrags' = [id \in Remaining(p.id) |-> IF id = p.id THEN h ELSE heldFrags[id]]
          /\ delivered' = [delivered EXCEPT ![c] = Append(@, Joined(h))]
     ELSE /\ heldFrags' = [id \in DOMAIN heldFrags \cup {p.id} |-> IF id = p.id THEN h ELSE heldFrags[id]]
          /\ UNCHANGED delivered

DropFragment(c, p) ==
  /\ p.total > 0
  /\ ~Fits(Collected(c, p), c, p)
  /\ UNCHANGED <<heldFrags, delivered>>

\* A channel hands out one more packet.
Receive(c) ==
  \E k \in Undelivered(c) :
    /\ out' = [out EXCEPT ![c] = Append(@, k)]
    /\ UNCHANGED <<fragmentID, sent, packets>>
    /\ Channel(c)!Deliver
    /\ AddWhole(c, packets[c][k]) \/ AddFragment(c, packets[c][k]) \/ DropFragment(c, packets[c][k])

-----------------------------------------------------------------------------
Next ==
  \E c \in Channels :
    \/ SendWhole(c)
    \/ \E n \in 2..MaxParts : SendFragmented(c, n)
    \/ Receive(c)

Spec == Init /\ [][Next]_vars

\* What the channels promise.
FairSpec == Spec /\ \A c \in Channels : WF_vars(Receive(c))

-----------------------------------------------------------------------------
\* What a channel promises of its packets, it promises of messages.
Promise(c) == INSTANCE ReliableDelivery WITH
  ordered <- c \in Ordered, sent <- sent[c], delivered <- delivered[c]

\* Each message is handed out once and as it was sent, in order if the
\* channel is ordered, however the packets of several channels are mixed on
\* their way (peer.go:211-287, 339-387).
MessagesOnce ==
  /\ \A c \in Channels : Promise(c)!Init
  /\ [][\A c \in Channels : [Promise(c)!Next]_(Promise(c)!vars)]_vars

\* Every message is handed out in the end: no fragment is dropped for one of
\* another message (peer.go:356-358).
MessagesAll ==
  \A c \in Channels : \A m \in 1..MaxMessages : sent[c] >= m ~> m \in Range(delivered[c])

\* What is collected are fragments of one message, and there are others of
\* it on their way: nothing is left behind in heldFrags (peer.go:345-385).
CollectionsEnd ==
  \A id \in DOMAIN heldFrags :
    LET h == heldFrags[id] IN
    \E m \in 1..sent[h.channel] :
      /\ \A p \in h.parts : p.msg = m
      /\ \E k \in Undelivered(h.channel) : packets[h.channel][k].msg = m
=============================================================================
