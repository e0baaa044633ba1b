---------------------------- MODULE Messages_proofs ----------------------------
(***************************************************************************)
(* Proofs about Messages, for every number of channels, messages, packets  *)
(* and fragment ids: nothing is left behind among the fragments collected, *)
(* and what the channels promise of packets the peers keep of messages.    *)
(***************************************************************************)
EXTENDS Messages, FiniteSetTheorems, TLAPS

-----------------------------------------------------------------------------
(* The inductive invariant.                                                *)

Ids    == 0 .. MaxFragmentId - 1
Packet == [msg : 1..MaxMessages, id : Ids, part : Nat, total : Nat]

\* The packets of a message are together, one for each part, and those of a
\* message handed in later come later.
PacketInv ==
  /\ fragmentID \in Ids
  /\ sent \in [Channels -> 0..MaxMessages]
  /\ packets \in [Channels -> Seq(Packet)]
  /\ \A c \in Channels :
       /\ \A k \in DOMAIN packets[c] : packets[c][k].msg <= sent[c]
       /\ \A m \in 1..sent[c] : \E k \in DOMAIN packets[c] : packets[c][k].msg = m
       /\ \A j, k \in DOMAIN packets[c] : j <= k => packets[c][j].msg <= packets[c][k].msg

PartsInv ==
  \A c \in Channels : \A k \in DOMAIN packets[c] :
    LET p == packets[c][k] IN
    /\ IF p.total = 0 THEN p.part = 0 ELSE p.part < p.total
    /\ \A i \in 0 .. p.total - 1 : \E j \in DOMAIN packets[c] : packets[c][j] = [p EXCEPT !.part = i]
    /\ \A j \in DOMAIN packets[c] : packets[c][j].msg = p.msg =>
         /\ packets[c][j].id = p.id /\ packets[c][j].total = p.total
         /\ packets[c][j].part = p.part => j = k

\* What the channels have handed out.
OutInv ==
  /\ out \in [Channels -> Seq(Nat \ {0})]
  /\ \A c \in Channels : Range(out[c]) \subseteq DOMAIN packets[c]
  /\ \A c \in Ordered : out[c] = [i \in 1..Len(out[c]) |-> i]

\* The packets of a message at the places R, those that have been received, and
\* whether others are on their way.
At(c, m, R) == {packets[c][k] : k \in {j \in R : packets[c][j].msg = m}}

Got(c, m) == At(c, m, Range(out[c]))

Missing(c, m) == \E k \in Undelivered(c) : packets[c][k].msg = m

\* No two messages on their way have the same id.
IdInv ==
  \A c, d \in Channels : \A j \in Undelivered(c), k \in Undelivered(d) :
    packets[c][j].total > 0 /\ packets[d][k].total > 0 /\ packets[c][j].id = packets[d][k].id =>
      c = d /\ packets[c][j].msg = packets[d][k].msg

\* What is collected under id is what has been received of message m.
Collects(id, c, m) ==
  \A k \in DOMAIN packets[c] : packets[c][k].msg = m =>
    packets[c][k].id = id /\ heldFrags[id] = [channel |-> c, total |-> packets[c][k].total, parts |-> Got(c, m)]

\* There is a collection for every message that has been received in part, and
\* for no other.
HeldInv ==
  /\ \A id \in DOMAIN heldFrags :
       \E c \in Channels : \E m \in 1..sent[c] : Collects(id, c, m) /\ Missing(c, m) /\ Got(c, m) # {}
  /\ \A c \in Channels : \A j \in Range(out[c]), k \in Undelivered(c) :
       packets[c][j].msg = packets[c][k].msg =>
         packets[c][k].id \in DOMAIN heldFrags /\ Collects(packets[c][k].id, c, packets[c][k].msg)

\* A message is handed out when none of its packets is missing.
DeliveredInv ==
  /\ delivered \in [Channels -> Seq(1..MaxMessages)]
  /\ \A c \in Channels : Range(delivered[c]) = {m \in 1..sent[c] : ~Missing(c, m)}
  /\ \A c \in Ordered : delivered[c] = [i \in 1..Len(delivered[c]) |-> i]

MessagesInv == PacketInv /\ PartsInv /\ OutInv /\ IdInv /\ HeldInv /\ DeliveredInv

-----------------------------------------------------------------------------
(* The sets the invariant is made of.                                      *)

\* A function on 1..n is a sequence.
LEMMA FragmentsAreASequence ==
  ASSUME NEW S, NEW m, NEW n \in Nat,
         \A i \in 1..n : Fragments(m, n)[i] \in S
  PROVE  Fragments(m, n) \in Seq(S) /\ Len(Fragments(m, n)) = n
  BY DEF Fragments

\* An element more at the end of a sequence is one more in its range.
LEMMA RangeOfAppend ==
  ASSUME NEW S, NEW s \in Seq(S), NEW x \in S
  PROVE  /\ Append(s, x) \in Seq(S) /\ Len(Append(s, x)) = Len(s) + 1
         /\ Range(Append(s, x)) = Range(s) \cup {x}
<1>1. /\ Append(s, x) \in Seq(S) /\ Len(Append(s, x)) = Len(s) + 1
      /\ DOMAIN Append(s, x) = 1 .. Len(s) + 1 /\ DOMAIN s = 1..Len(s)
      /\ \A i \in 1..Len(s) : Append(s, x)[i] = s[i]
      /\ Append(s, x)[Len(s) + 1] = x
  OBVIOUS
<1>2. \A y \in Range(Append(s, x)) : y \in Range(s) \cup {x}
  BY <1>1 DEF Range
<1>3. \A y \in Range(s) \cup {x} : y \in Range(Append(s, x))
  BY <1>1 DEF Range
<1> QED
  BY <1>1, <1>2, <1>3

\* The list of the first numbers, and one more.
LEMMA NextInOrder ==
  ASSUME NEW S, NEW s \in Seq(S), s = [i \in 1..Len(s) |-> i], Len(s) + 1 \in S
  PROVE  /\ Append(s, Len(s) + 1) = [i \in 1 .. Len(s) + 1 |-> i]
<1>1. Len(s) \in Nat /\ DOMAIN s = 1..Len(s) /\ \A i \in 1..Len(s) : s[i] = i
  OBVIOUS
<1>2. /\ DOMAIN Append(s, Len(s) + 1) = 1 .. Len(s) + 1
      /\ \A i \in 1 .. Len(s) + 1 : Append(s, Len(s) + 1)[i] = i
      /\ Append(s, Len(s) + 1) \in Seq(S)
  BY <1>1
<1>3. Append(s, Len(s) + 1) = [i \in 1 .. Len(s) + 1 |-> i]
  <2> DEFINE a == Append(s, Len(s) + 1)
             b == [i \in 1 .. Len(s) + 1 |-> i]
  <2>1. DOMAIN a = DOMAIN b /\ \A i \in DOMAIN a : a[i] = b[i]
    BY <1>2
  <2>2. a = [i \in DOMAIN a |-> a[i]] /\ b = [i \in DOMAIN b |-> b[i]]
    BY <1>2
  <2> QED
    BY <2>1, <2>2
<1> QED
  BY <1>3

\* Those it has.
LEMMA RangeInOrder ==
  ASSUME NEW s, Len(s) \in Nat, s = [i \in 1..Len(s) |-> i]
  PROVE  Range(s) = 1..Len(s)
<1> DEFINE n == Len(s)
<1>1. n \in Nat /\ s = [i \in 1..n |-> i]
  OBVIOUS
<1> HIDE DEF n
<1>2. Range(s) = 1..n
  BY <1>1 DEF Range
<1> QED
  BY <1>2 DEF n

\* What Receive does to a channel that has handed out a packet more.
LEMMA DeliversNext ==
  ASSUME MessagesInv, NEW c \in Channels, NEW k \in Undelivered(c),
         out' = [out EXCEPT ![c] = Append(@, k)], UNCHANGED packets, Channel(c)!Deliver
  PROVE  c \in Ordered => k = Len(out[c]) + 1
<1>1. out[c] \in Seq(Nat \ {0}) /\ k \in Nat \ {0} /\ out'[c] = Append(out[c], k)
  BY DEF MessagesInv, OutInv, PacketInv, Undelivered
<1> SUFFICES ASSUME c \in Ordered
             PROVE  k = Len(out[c]) + 1
  OBVIOUS
<1>2. PICK n \in Len(out[c]) + 1 .. Len(packets[c]) : out'[c] = [i \in 1..n |-> i]
  BY DEF Channel!Deliver, Channel!DeliverOrdered, Channel!DeliverUnordered
<1>3. Len(out'[c]) = Len(out[c]) + 1 /\ out'[c][Len(out[c]) + 1] = k
  BY <1>1
<1> QED
  BY <1>1, <1>2, <1>3 DEF MessagesInv, PacketInv

-----------------------------------------------------------------------------
(* Fragments and collections.                                              *)

\* All the fragments of the message that p is of.
AllParts(p) == {[p EXCEPT !.part = i] : i \in 0 .. p.total - 1}

\* The numbers below n.
LEMMA CountTo ==
  ASSUME NEW n \in Nat
  PROVE  IsFiniteSet(0 .. n - 1) /\ Cardinality(0 .. n - 1) = n
  BY FS_Interval

\* There are as many as p says, and no fewer make the message.
LEMMA PartsCount ==
  ASSUME NEW p \in Packet, p.total > 0, NEW S \in SUBSET AllParts(p)
  PROVE  Cardinality(S) = p.total <=> S = AllParts(p)
<1> DEFINE n == p.total
           f == [i \in 0 .. n - 1 |-> [p EXCEPT !.part = i]]
<1>1. n \in Nat /\ n > 0
  BY DEF Packet
<1>2. IsFiniteSet(0 .. n - 1) /\ Cardinality(0 .. n - 1) = n
  BY <1>1, CountTo
<1>3. \A i \in 0 .. n - 1 : f[i].part = i
  BY DEF Packet
<1>4. f \in Bijection(0 .. n - 1, AllParts(p))
  <2>1. f \in [0 .. n - 1 -> AllParts(p)]
    BY DEF AllParts
  <2>2. \A i, j \in 0 .. n - 1 : f[i] = f[j] => i = j
    BY <1>3
  <2>3. \A x \in AllParts(p) : \E i \in 0 .. n - 1 : f[i] = x
    BY DEF AllParts
  <2> QED
    BY <2>1, <2>2, <2>3 DEF Bijection, Injection, Surjection, IsInjective
<1>5. IsFiniteSet(AllParts(p)) /\ Cardinality(AllParts(p)) = n
  BY <1>2, <1>4, FS_Bijection DEF ExistsBijection
<1> QED
  BY <1>5, FS_Subset

\* The packets at the places R that are of the same message as that at k make
\* it up when they are all there are.
LEMMA PlacesCount ==
  ASSUME PacketInv, PartsInv, NEW c \in Channels, NEW k \in DOMAIN packets[c],
         packets[c][k].total > 0, NEW R \in SUBSET DOMAIN packets[c]
  PROVE  /\ At(c, packets[c][k].msg, R) \subseteq AllParts(packets[c][k])
         /\ At(c, packets[c][k].msg, R) = AllParts(packets[c][k]) <=>
              \A j \in DOMAIN packets[c] : packets[c][j].msg = packets[c][k].msg => j \in R
         /\ Cardinality(At(c, packets[c][k].msg, R)) = packets[c][k].total <=>
              \A j \in DOMAIN packets[c] : packets[c][j].msg = packets[c][k].msg => j \in R
<1> DEFINE P == packets[c]
           p == P[k]
           S == At(c, p.msg, R)
<1>1. p \in Packet /\ \A j \in DOMAIN P : P[j] \in Packet
  BY DEF PacketInv
<1>2. \A j \in DOMAIN P : P[j].msg = p.msg =>
        P[j].part \in 0 .. p.total - 1 /\ P[j] = [p EXCEPT !.part = P[j].part]
  <2> SUFFICES ASSUME NEW j \in DOMAIN P, P[j].msg = p.msg
               PROVE  P[j].part \in 0 .. p.total - 1 /\ P[j] = [p EXCEPT !.part = P[j].part]
    OBVIOUS
  <2>1. P[j].id = p.id /\ P[j].total = p.total
    BY DEF PartsInv
  <2>2. P[j].part < P[j].total
    BY <2>1 DEF PartsInv
  <2> QED
    BY <1>1, <2>1, <2>2 DEF Packet
<1>3. \A i \in 0 .. p.total - 1 : \E j \in DOMAIN P : P[j] = [p EXCEPT !.part = i]
  BY DEF PartsInv
<1>4. \A i, j \in DOMAIN P : P[i] = P[j] /\ P[i].msg = p.msg => i = j
  BY DEF PartsInv
<1> HIDE DEF P, p, S
<1>5. S = {P[j] : j \in {i \in R : P[i].msg = p.msg}}
  BY DEF P, p, S, At
<1>6. S \subseteq AllParts(p)
  <2>1. ASSUME NEW j \in R, P[j].msg = p.msg PROVE P[j] \in AllParts(p)
    <3>1. j \in DOMAIN P
      BY DEF P
    <3> QED
      BY <1>2, <2>1, <3>1 DEF AllParts
  <2> QED
    BY <1>5, <2>1
<1>7. ASSUME \A j \in DOMAIN P : P[j].msg = p.msg => j \in R
      PROVE  AllParts(p) \subseteq S
  <2> SUFFICES ASSUME NEW i \in 0 .. p.total - 1
               PROVE  [p EXCEPT !.part = i] \in S
    BY DEF AllParts
  <2>1. PICK j \in DOMAIN P : P[j] = [p EXCEPT !.part = i]
    BY <1>3
  <2>2. P[j].msg = p.msg
    BY <1>1, <2>1 DEF Packet
  <2> QED
    BY <1>5, <1>7, <2>1, <2>2
<1>8. ASSUME AllParts(p) \subseteq S, NEW j \in DOMAIN P, P[j].msg = p.msg
      PROVE  j \in R
  <2>1. P[j] \in S
    BY <1>2, <1>8 DEF AllParts
  <2>2. PICK i \in {l \in R : P[l].msg = p.msg} : P[j] = P[i]
    BY <1>5, <2>1, Zenon
  <2> QED
    BY <1>4, <1>8, <2>2 DEF P
<1>9. S = AllParts(p) <=> \A j \in DOMAIN P : P[j].msg = p.msg => j \in R
  BY <1>6, <1>7, <1>8
<1>10. Cardinality(S) = p.total <=> S = AllParts(p)
  <2>1. p.total > 0
    BY DEF p, P
  <2> QED
    BY <1>1, <1>6, <2>1, PartsCount
<1> QED
  BY <1>6, <1>9, <1>10 DEF p, P, S

\* A whole message is the only packet with its name.
LEMMA WholeIsAlone ==
  ASSUME PacketInv, PartsInv, NEW c \in Channels, NEW j \in DOMAIN packets[c], NEW k \in DOMAIN packets[c],
         packets[c][k].total = 0, packets[c][j].msg = packets[c][k].msg
  PROVE  j = k
<1>1. packets[c][j].total = packets[c][k].total
  BY DEF PartsInv
<1>2. packets[c][j].part = 0 /\ packets[c][k].part = 0
  BY <1>1 DEF PartsInv
<1> QED
  BY <1>2 DEF PartsInv

\* What addReliablePacket finds for a fragment is what has been received of
\* its message.
LEMMA CollectedIs ==
  ASSUME MessagesInv, NEW c \in Channels, NEW k \in Undelivered(c), packets[c][k].total > 0
  PROVE  Collected(c, packets[c][k]) =
           [channel |-> c, total |-> packets[c][k].total, parts |-> Got(c, packets[c][k].msg)]
<1> DEFINE p == packets[c][k]
<1>1. k \in DOMAIN packets[c] /\ k \notin Range(out[c]) /\ p \in Packet
  BY DEF Undelivered, MessagesInv, PacketInv
<1>2. CASE p.id \in DOMAIN heldFrags
  <2> PICK d \in Channels : \E m \in 1..sent[d] :
          Collects(p.id, d, m) /\ Missing(d, m) /\ Got(d, m) # {}
    BY <1>2 DEF MessagesInv, HeldInv
  <2>1. PICK m \in 1..sent[d] : Collects(p.id, d, m) /\ Missing(d, m) /\ Got(d, m) # {}
    OBVIOUS
  <2>2. PICK j \in Undelivered(d) : packets[d][j].msg = m
    BY <2>1 DEF Missing
  <2>3. PICK i \in Range(out[d]) : packets[d][i].msg = m
    BY <2>1 DEF Got, At
  <2>4. i \in DOMAIN packets[d] /\ j \in DOMAIN packets[d] /\ i # j
    BY <2>2, <2>3 DEF MessagesInv, OutInv, Undelivered
  <2>5. packets[d][j].total > 0
    <3>1. packets[d][j].total # 0
      BY <2>2, <2>3, <2>4, WholeIsAlone DEF MessagesInv
    <3>2. packets[d][j] \in Packet
      BY <2>4 DEF MessagesInv, PacketInv
    <3> QED
      BY <3>1, <3>2 DEF Packet
  <2>6. packets[d][j].id = p.id
    BY <2>1, <2>2, <2>4 DEF Collects
  <2>7. d = c /\ m = p.msg
    BY <2>2, <2>5, <2>6 DEF MessagesInv, IdInv
  <2>8. heldFrags[p.id] = [channel |-> c, total |-> p.total, parts |-> Got(c, p.msg)]
    BY <1>1, <2>1, <2>7 DEF Collects
  <2> QED
    BY <1>2, <2>8 DEF Collected
<1>3. CASE p.id \notin DOMAIN heldFrags
  <2>1. \A j \in Range(out[c]) : packets[c][j].msg # p.msg
    BY <1>3 DEF MessagesInv, HeldInv
  <2>2. Got(c, p.msg) = {}
    BY <2>1 DEF Got, At
  <2> QED
    BY <1>3, <2>2 DEF Collected, Unstarted
<1> QED
  BY <1>2, <1>3

-----------------------------------------------------------------------------
(* A packet is received.                                                   *)

\* Receive of the packet at place k.
ReceiveAt(c, k) ==
  /\ out' = [out EXCEPT ![c] = Append(@, k)]
  /\ UNCHANGED <<fragmentID, sent, packets>>
  /\ Channel(c)!Deliver
  /\ AddWhole(c, packets[c][k]) \/ AddFragment(c, packets[c][k]) \/ DropFragment(c, packets[c][k])

\* The place is taken off those that are missing, the packet is added to what
\* has been received of its message.
PlaceTaken(c, k) ==
  /\ out' \in [Channels -> Seq(Nat \ {0})]
  /\ \A d \in Channels : d # c => out'[d] = out[d]
  /\ Range(out'[c]) = Range(out[c]) \cup {k}
  /\ \A d \in Channels : Undelivered(d)' = IF d = c THEN Undelivered(c) \ {k} ELSE Undelivered(d)
  /\ \A d \in Channels : \A m : Got(d, m)' = IF d = c /\ m = packets[c][k].msg
                                     THEN Got(c, m) \cup {packets[c][k]} ELSE Got(d, m)

\* What a received packet changes of what the two ends have, in one place.
LEMMA PlaceReceived ==
  ASSUME MessagesInv, NEW c \in Channels, NEW k \in Undelivered(c), ReceiveAt(c, k)
  PROVE  PlaceTaken(c, k)
<1>1. out \in [Channels -> Seq(Nat \ {0})] /\ k \in Nat \ {0} /\ k \in DOMAIN packets[c]
  BY DEF MessagesInv, OutInv, PacketInv, Undelivered
<1>2. out' = [out EXCEPT ![c] = Append(out[c], k)] /\ packets' = packets
  BY DEF ReceiveAt
<1>3. /\ Append(out[c], k) \in Seq(Nat \ {0})
      /\ Range(Append(out[c], k)) = Range(out[c]) \cup {k}
  BY <1>1, RangeOfAppend
<1>4. /\ out' \in [Channels -> Seq(Nat \ {0})]
      /\ \A d \in Channels : d # c => out'[d] = out[d]
      /\ Range(out'[c]) = Range(out[c]) \cup {k}
  BY <1>1, <1>2, <1>3
<1>5. \A d \in Channels : Undelivered(d)' = IF d = c THEN Undelivered(c) \ {k} ELSE Undelivered(d)
  BY <1>2, <1>4 DEF Undelivered
<1>6. ASSUME NEW d \in Channels, NEW m
      PROVE  Got(d, m)' = IF d = c /\ m = packets[c][k].msg THEN Got(c, m) \cup {packets[c][k]} ELSE Got(d, m)
  <2>1. CASE d # c
    BY <1>2, <1>4, <2>1 DEF Got, At
  <2>2. CASE d = c /\ m # packets[c][k].msg
    BY <1>2, <1>4, <2>2 DEF Got, At
  <2>3. CASE d = c /\ m = packets[c][k].msg
    BY <1>2, <1>4, <2>3 DEF Got, At
  <2> QED
    BY <2>1, <2>2, <2>3
<1> QED
  BY <1>4, <1>5, <1>6 DEF PlaceTaken

\* Only the message of the packet may be missing no longer.
OnlyItsMessage(c, k) ==
  /\ \A d \in Channels : \A m : d # c \/ m # packets[c][k].msg => (Missing(d, m)' <=> Missing(d, m))
  /\ \A m : m = packets[c][k].msg =>
       /\ Missing(c, m)
       /\ Missing(c, m)' <=> \E j \in Undelivered(c) : j # k /\ packets[c][j].msg = m

\* So a packet that arrives settles nothing about any other message.
LEMMA MissingAfter ==
  ASSUME MessagesInv, NEW c \in Channels, NEW k \in Undelivered(c), ReceiveAt(c, k)
  PROVE  OnlyItsMessage(c, k)
<1>0. PlaceTaken(c, k)
  BY PlaceReceived
<1>1. packets' = packets
  BY DEF ReceiveAt
<1>2. \A d \in Channels : Undelivered(d)' = IF d = c THEN Undelivered(c) \ {k} ELSE Undelivered(d)
  BY <1>0 DEF PlaceTaken
<1>3. ASSUME NEW d \in Channels, NEW m, d # c \/ m # packets[c][k].msg
      PROVE  Missing(d, m)' <=> Missing(d, m)
  BY <1>1, <1>2, <1>3 DEF Missing
<1>4. ASSUME NEW m, m = packets[c][k].msg
      PROVE  /\ Missing(c, m)
             /\ Missing(c, m)' <=> \E j \in Undelivered(c) : j # k /\ packets[c][j].msg = m
  BY <1>1, <1>2, <1>4 DEF Missing
<1> QED
  BY <1>3, <1>4 DEF OnlyItsMessage

\* A fragment is never dropped; the message is complete when nothing of it is
\* missing, and then it is handed out as it was sent.
FragmentAdded(c, k, m) ==
  LET p == packets[c][k]
      h == [channel |-> c, total |-> p.total, parts |-> Got(c, m)']
  IN  \/ /\ Missing(c, m)'
         /\ heldFrags' = [id \in DOMAIN heldFrags \cup {p.id} |-> IF id = p.id THEN h ELSE heldFrags[id]]
         /\ delivered' = delivered
      \/ /\ ~Missing(c, m)'
         /\ heldFrags' = [id \in DOMAIN heldFrags \ {p.id} |-> heldFrags[id]]
         /\ delivered' = [delivered EXCEPT ![c] = Append(@, m)]

\* AddFragment either keeps the collection or hands the message out and drops it.
LEMMA FragmentReceived ==
  ASSUME MessagesInv, NEW c \in Channels, NEW k \in Undelivered(c), ReceiveAt(c, k),
         packets[c][k].total > 0, NEW m, m = packets[c][k].msg
  PROVE  FragmentAdded(c, k, m)
<1>0. PlaceTaken(c, k) /\ OnlyItsMessage(c, k)
  BY PlaceReceived, MissingAfter
<1> DEFINE p == packets[c][k]
           h == [channel |-> c, total |-> p.total, parts |-> Got(c, m)']
<1>1. k \in DOMAIN packets[c] /\ k \notin Range(out[c]) /\ p \in Packet
  BY DEF Undelivered, MessagesInv, PacketInv
<1>2. Collected(c, p) = [channel |-> c, total |-> p.total, parts |-> Got(c, m)]
  BY CollectedIs
<1>3. Got(c, m)' = Got(c, m) \cup {p}
  BY <1>0 DEF PlaceTaken
<1>4. With(Collected(c, p), p) = h
  BY <1>2, <1>3 DEF With
<1>5. Fits(Collected(c, p), c, p)
  <2>1. p.part < p.total
    BY <1>1 DEF MessagesInv, PartsInv
  <2>2. ASSUME NEW q \in Got(c, m) PROVE q.part # p.part
    <3>1. PICK j \in Range(out[c]) : packets[c][j].msg = m /\ q = packets[c][j]
      BY <2>2 DEF Got, At
    <3>2. j \in DOMAIN packets[c] /\ j # k
      BY <1>1, <3>1 DEF MessagesInv, OutInv
    <3> QED
      BY <1>1, <3>1, <3>2 DEF MessagesInv, PartsInv
  <2> QED
    BY <1>2, <2>1, <2>2 DEF Fits
<1>6. AddFragment(c, p)
  BY <1>5 DEF ReceiveAt, AddWhole, DropFragment
<1>7. /\ h.parts \subseteq AllParts(p)
      /\ h.parts = AllParts(p) <=> ~Missing(c, m)'
      /\ Complete(h) <=> ~Missing(c, m)'
  <2> DEFINE R == Range(out[c]) \cup {k}
             S == At(c, m, R)
             All == \A j \in DOMAIN packets[c] : packets[c][j].msg = packets[c][k].msg => j \in R
  <2>1. R \in SUBSET DOMAIN packets[c]
    BY <1>1 DEF MessagesInv, OutInv
  <2>2. S = Got(c, m)'
    <3>1. R = Range(out'[c]) /\ packets' = packets
      BY <1>0 DEF PlaceTaken, ReceiveAt
    <3> HIDE DEF R
    <3> QED
      BY <3>1 DEF Got, At
  <2>3. Missing(c, m)' <=> ~All
    BY <1>0 DEF OnlyItsMessage, Undelivered
  <2> HIDE DEF R
  <2>4. /\ S \subseteq AllParts(p)
        /\ S = AllParts(p) <=> All
        /\ Cardinality(S) = p.total <=> All
    BY <1>1, <2>1, PlacesCount DEF MessagesInv
  <2> HIDE DEF S, All
  <2> QED
    BY <2>2, <2>3, <2>4 DEF Complete
<1>8. ASSUME ~Missing(c, m)' PROVE Joined(h) = m
  <2>1. h.parts = AllParts(p) /\ h.total = p.total /\ p.total \in Nat /\ p.total > 0
    BY <1>1, <1>7, <1>8 DEF Packet
  <2>2. m \in 1..MaxMessages
    BY <1>1 DEF Packet
  <2>3. \A i \in 0 .. p.total - 1 : [p EXCEPT !.part = i] \in h.parts /\ [p EXCEPT !.part = i].part = i
                                    /\ [p EXCEPT !.part = i].msg = m
    BY <1>1, <2>1 DEF AllParts, Packet
  <2>4. \A q \in h.parts : q.msg = m
    BY <1>1, <2>1 DEF AllParts, Packet
  <2> HIDE DEF h
  <2>5. MadeOf(h, m)
    BY <2>1, <2>3 DEF MadeOf
  <2>6. ASSUME NEW l, MadeOf(h, l) PROVE l = m
    <3>1. 0 \in 0 .. h.total - 1
      BY <2>1
    <3> QED
      BY <2>4, <2>6, <3>1 DEF MadeOf
  <2> QED
    BY <2>2, <2>5, <2>6 DEF Joined
<1>9. CASE Missing(c, m)'
  <2>1. ~Complete(With(Collected(c, p), p))
    BY <1>4, <1>7, <1>9
  <2>2. heldFrags' = [id \in DOMAIN heldFrags \cup {p.id} |-> IF id = p.id THEN With(Collected(c, p), p) ELSE heldFrags[id]]
        /\ delivered' = delivered
    BY <1>6, <2>1 DEF AddFragment
  <2>3. heldFrags' = [id \in DOMAIN heldFrags \cup {p.id} |-> IF id = p.id THEN h ELSE heldFrags[id]]
    BY <1>4, <2>2
  <2> QED
    BY <1>9, <2>2, <2>3 DEF FragmentAdded
<1>10. CASE ~Missing(c, m)'
  <2>1. Complete(With(Collected(c, p), p))
    BY <1>4, <1>7, <1>10
  <2>2. /\ heldFrags' = [id \in Remaining(p.id) |-> IF id = p.id THEN With(Collected(c, p), p) ELSE heldFrags[id]]
        /\ delivered' = [delivered EXCEPT ![c] = Append(@, Joined(With(Collected(c, p), p)))]
    BY <1>6, <2>1 DEF AddFragment
  <2>3. heldFrags' = [id \in DOMAIN heldFrags \ {p.id} |-> heldFrags[id]]
    BY <2>2 DEF Remaining
  <2>4. delivered' = [delivered EXCEPT ![c] = Append(@, m)]
    BY <1>4, <1>8, <1>10, <2>2
  <2> QED
    BY <1>10, <2>3, <2>4 DEF FragmentAdded
<1> QED
  BY <1>9, <1>10

\* A message in one packet is complete when it comes.
WholeHandedOut(c, m) ==
  /\ ~Missing(c, m)' /\ Got(c, m) = {}
  /\ heldFrags' = heldFrags /\ delivered' = [delivered EXCEPT ![c] = Append(@, m)]

\* AddWhole hands its message out at once.
LEMMA WholeReceived ==
  ASSUME MessagesInv, NEW c \in Channels, NEW k \in Undelivered(c), ReceiveAt(c, k),
         packets[c][k].total = 0, NEW m, m = packets[c][k].msg
  PROVE  WholeHandedOut(c, m)
<1>0. OnlyItsMessage(c, k)
  BY MissingAfter
<1>1. k \in DOMAIN packets[c] /\ k \notin Range(out[c]) /\ PacketInv /\ PartsInv
      /\ Range(out[c]) \subseteq DOMAIN packets[c]
  BY DEF Undelivered, MessagesInv, OutInv
<1>2. \A j \in DOMAIN packets[c] : packets[c][j].msg = m => j = k
  BY <1>1, WholeIsAlone
<1>3. ~Missing(c, m)'
  BY <1>2, <1>0 DEF OnlyItsMessage, Undelivered
<1>4. Got(c, m) = {}
  BY <1>1, <1>2 DEF Got, At
<1> QED
  BY <1>3, <1>4 DEF WholeHandedOut, ReceiveAt, AddWhole, AddFragment, DropFragment

\* In an ordered channel the message that is complete is the next one.
LEMMA NextMessage ==
  ASSUME MessagesInv, NEW c \in Ordered, NEW k \in Undelivered(c), ReceiveAt(c, k),
         NEW m, m = packets[c][k].msg
  PROVE  m = Len(delivered[c]) + 1 /\ m \in 1..sent[c]
<1> DEFINE P == packets[c]
<1>1. c \in Channels /\ k = Len(out[c]) + 1
  BY DeliversNext, OrderedAreChannels DEF ReceiveAt
<1>2. Range(out[c]) = 1..Len(out[c]) /\ Len(out[c]) \in Nat
  <2>1. out[c] \in Seq(Nat \ {0}) /\ out[c] = [i \in 1..Len(out[c]) |-> i]
    BY <1>1 DEF MessagesInv, OutInv
  <2> QED
    BY <2>1, RangeInOrder
<1>3. k \in DOMAIN P /\ DOMAIN P \subseteq Nat \ {0} /\ \A j \in DOMAIN P : P[j] \in Packet /\ P[j].msg \in Nat \ {0}
  <2>1. P \in Seq(Packet) /\ k \in DOMAIN P
    BY <1>1 DEF Undelivered, MessagesInv, PacketInv
  <2> HIDE DEF P
  <2>2. DOMAIN P \subseteq Nat \ {0} /\ \A j \in DOMAIN P : P[j] \in Packet
    BY <2>1
  <2>3. \A p \in Packet : p.msg \in Nat \ {0}
    BY DEF Packet
  <2> QED
    BY <2>1, <2>2, <2>3
<1>4. /\ \A j \in DOMAIN P : P[j].msg <= sent[c]
      /\ \A l \in 1..sent[c] : \E j \in DOMAIN P : P[j].msg = l
      /\ \A i, j \in DOMAIN P : i <= j => P[i].msg <= P[j].msg
      /\ sent[c] \in Nat
  BY <1>1 DEF MessagesInv, PacketInv
<1>5. \A j \in DOMAIN P : j \in Undelivered(c) <=> j >= k
  BY <1>1, <1>2, <1>3 DEF Undelivered
<1>6. m \in 1..sent[c]
  BY <1>3, <1>4
<1>7. ASSUME NEW l \in 1..sent[c] PROVE Missing(c, l) <=> l >= m
  <2>1. ASSUME l < m, NEW j \in DOMAIN P, P[j].msg = l PROVE j \notin Undelivered(c)
    BY <1>3, <1>4, <1>5, <2>1
  <2>2. CASE l > m
    <3>1. PICK j \in DOMAIN P : P[j].msg = l
      BY <1>4
    <3>2. j >= k
      BY <1>3, <1>4, <2>2, <3>1
    <3> QED
      BY <1>5, <1>6, <2>2, <3>1, <3>2 DEF Missing
  <2>3. CASE l = m
    BY <1>6, <2>3 DEF Missing
  <2>4. CASE l < m
    BY <1>6, <2>1, <2>4 DEF Missing, Undelivered
  <2> QED
    BY <1>6, <2>2, <2>3, <2>4
<1>8. Range(delivered[c]) = 1..Len(delivered[c]) /\ Len(delivered[c]) \in Nat
      /\ Range(delivered[c]) = {l \in 1..sent[c] : ~Missing(c, l)}
  <2>1. delivered[c] \in Seq(1..MaxMessages) /\ delivered[c] = [i \in 1..Len(delivered[c]) |-> i]
    BY <1>1 DEF MessagesInv, DeliveredInv
  <2>2. Range(delivered[c]) = {l \in 1..sent[c] : ~Missing(c, l)}
    BY <1>1 DEF MessagesInv, DeliveredInv
  <2> QED
    BY <2>1, <2>2, RangeInOrder
<1>9. \A l \in Nat : l \in 1..Len(delivered[c]) <=> l \in 1 .. m - 1
  <2> DEFINE n == Len(delivered[c])
             R == Range(delivered[c])
  <2>1. /\ R = 1..n /\ n \in Nat /\ R = {l \in 1..sent[c] : ~Missing(c, l)}
        /\ m \in 1..sent[c] /\ sent[c] \in Nat
    BY <1>4, <1>6, <1>8
  <2> HIDE DEF n, R
  <2>2. ASSUME NEW l \in Nat PROVE l \in R <=> l \in 1 .. m - 1
    <3>1. CASE l \in 1..sent[c]
      <4>1. l \in R <=> ~Missing(c, l)
        BY <2>1, <3>1
      <4>2. l \in R <=> ~(l >= m)
        BY <1>7, <3>1, <4>1
      <4> QED
        BY <2>1, <3>1, <4>2
    <3>2. CASE l \notin 1..sent[c]
      <4>1. l \notin R
        BY <2>1, <3>2
      <4>2. l \notin 1 .. m - 1
        BY <2>1, <3>2
      <4> QED
        BY <4>1, <4>2
    <3> QED
      BY <3>1, <3>2
  <2>3. R = 1..n
    BY <2>1
  <2>4. \A l \in Nat : l \in 1..n <=> l \in 1 .. m - 1
    BY <2>2, <2>3
  <2> QED
    BY <2>4 DEF n
<1>10. Len(delivered[c]) = m - 1
  <2> DEFINE n == Len(delivered[c])
  <2>1. n \in Nat /\ m \in Nat /\ m >= 1
    BY <1>4, <1>6, <1>8
  <2>2. (n \in 1..n <=> n \in 1 .. m - 1) /\ (m - 1 \in 1..n <=> m - 1 \in 1 .. m - 1)
    BY <1>9, <2>1
  <2> HIDE DEF n
  <2> QED
    BY <2>1, <2>2 DEF n
<1> QED
  BY <1>4, <1>6, <1>8, <1>10

\* Nothing else is touched by the packet.
LEMMA OthersCollected ==
  ASSUME MessagesInv, NEW c \in Channels, NEW k \in Undelivered(c), ReceiveAt(c, k),
         NEW d \in Channels, NEW m, d # c \/ m # packets[c][k].msg,
         NEW id, Collects(id, d, m), heldFrags'[id] = heldFrags[id]
  PROVE  Collects(id, d, m)'
<1>0. PlaceTaken(c, k)
  BY PlaceReceived
<1>1. packets' = packets
  BY DEF ReceiveAt
<1>2. Got(d, m)' = Got(d, m)
  BY <1>0 DEF PlaceTaken
<1> QED
  BY <1>1, <1>2 DEF Collects

\* The collection that the fragment is put into.
LEMMA ItsCollection ==
  ASSUME MessagesInv, NEW c \in Channels, NEW k \in Undelivered(c), ReceiveAt(c, k),
         NEW m, m = packets[c][k].msg, Missing(c, m)'
  PROVE  /\ packets[c][k].total > 0 /\ packets[c][k].id \in DOMAIN heldFrags'
         /\ Collects(packets[c][k].id, c, m)' /\ Got(c, m)' # {}
<1>0. PlaceTaken(c, k)
  BY PlaceReceived
<1> DEFINE p == packets[c][k]
           h == [channel |-> c, total |-> p.total, parts |-> Got(c, m)']
<1>1. k \in DOMAIN packets[c] /\ p.total \in Nat
  <2>1. k \in DOMAIN packets[c] /\ p \in Packet
    BY DEF Undelivered, MessagesInv, PacketInv
  <2> QED
    BY <2>1 DEF Packet
<1>2. p.total > 0
  <2>1. p.total = 0 => WholeHandedOut(c, m)
    BY WholeReceived
  <2> QED
    BY <1>1, <2>1 DEF WholeHandedOut
<1>3. heldFrags' = [id \in DOMAIN heldFrags \cup {p.id} |-> IF id = p.id THEN h ELSE heldFrags[id]]
  <2>1. FragmentAdded(c, k, m)
    BY <1>2, FragmentReceived
  <2> QED
    BY <2>1 DEF FragmentAdded
<1>4. p.id \in DOMAIN heldFrags' /\ heldFrags'[p.id] = h
  BY <1>3
<1>5. \A j \in DOMAIN packets[c] : packets[c][j].msg = m => packets[c][j].id = p.id /\ packets[c][j].total = p.total
  BY <1>1 DEF MessagesInv, PartsInv
<1>6. Collects(p.id, c, m)'
  <2>1. packets' = packets
    BY DEF ReceiveAt
  <2> QED
    BY <1>4, <1>5, <2>1 DEF Collects
<1>7. p \in Got(c, m)'
  BY <1>0 DEF PlaceTaken
<1> QED
  BY <1>2, <1>4, <1>6, <1>7

\* The collections after a packet: those of other messages as before, that of
\* its own message with it, or none when it is complete.
LEMMA ReceiveKeepsHeld ==
  ASSUME MessagesInv, NEW c \in Channels, NEW k \in Undelivered(c), ReceiveAt(c, k)
  PROVE  HeldInv'
<1>0. PlaceTaken(c, k) /\ OnlyItsMessage(c, k)
  BY PlaceReceived, MissingAfter
<1> PICK m : m = packets[c][k].msg
  OBVIOUS
<1> DEFINE p == packets[c][k]
<1>1. k \in DOMAIN packets[c] /\ k \notin Range(out[c]) /\ p \in Packet /\ p.total \in Nat /\ m \in Nat
      /\ m \in 1..sent[c]
  <2>1. k \in DOMAIN packets[c] /\ k \notin Range(out[c]) /\ p \in Packet
    BY DEF Undelivered, MessagesInv, PacketInv
  <2>2. m <= sent[c] /\ m \in 1..MaxMessages /\ sent[c] \in 0..MaxMessages
    BY <2>1 DEF MessagesInv, PacketInv, Packet
  <2> QED
    BY <2>1, <2>2, SizesAreNatural DEF Packet
<1>2. packets' = packets /\ sent' = sent
  BY DEF ReceiveAt
<1>3. \A id : id # p.id \/ p.total = 0 =>
        /\ id \in DOMAIN heldFrags' <=> id \in DOMAIN heldFrags
        /\ id \in DOMAIN heldFrags => heldFrags'[id] = heldFrags[id]
  <2>1. p.total = 0 => WholeHandedOut(c, m)
    BY WholeReceived
  <2>2. p.total > 0 => FragmentAdded(c, k, m)
    BY FragmentReceived
  <2> QED
    BY <1>1, <2>1, <2>2 DEF WholeHandedOut, FragmentAdded
<1>4. ASSUME NEW id \in DOMAIN heldFrags'
      PROVE  \E d \in Channels : \E l \in 1..sent'[d] : Collects(id, d, l)' /\ Missing(d, l)' /\ Got(d, l)' # {}
  <2>1. CASE id = p.id /\ p.total # 0
    <3>1. Missing(c, m)'
      <4>1. p.total > 0
        BY <1>1, <2>1
      <4>2. FragmentAdded(c, k, m)
        BY <4>1, FragmentReceived
      <4> QED
        BY <2>1, <4>2 DEF FragmentAdded
    <3> QED
      BY <1>1, <1>2, <2>1, <3>1, ItsCollection
  <2>2. CASE id # p.id \/ p.total = 0
    <3>1. id \in DOMAIN heldFrags /\ heldFrags'[id] = heldFrags[id]
      BY <1>3, <2>2
    <3>2. PICK d \in Channels : \E l \in 1..sent[d] : Collects(id, d, l) /\ Missing(d, l) /\ Got(d, l) # {}
      BY <3>1 DEF MessagesInv, HeldInv
    <3>3. PICK l \in 1..sent[d] : Collects(id, d, l) /\ Missing(d, l) /\ Got(d, l) # {}
      BY <3>2
    <3>4. d # c \/ l # m
      <4>1. p.total = 0 => Got(c, m) = {}
        BY WholeReceived DEF WholeHandedOut
      <4>2. d = c /\ l = m => id = p.id
        BY <1>1, <3>3 DEF Collects
      <4> QED
        BY <2>2, <3>3, <4>1, <4>2
    <3>5. Collects(id, d, l)' /\ Missing(d, l)' /\ Got(d, l)' # {}
      BY <3>1, <3>3, <3>4, <1>0, OthersCollected DEF OnlyItsMessage, PlaceTaken
    <3> QED
      BY <1>2, <3>5
  <2> QED
    BY <2>1, <2>2
<1>5. ASSUME NEW d \in Channels, NEW j \in Range(out'[d]), NEW l \in Undelivered(d)',
             packets[d][j].msg = packets[d][l].msg
      PROVE  packets[d][l].id \in DOMAIN heldFrags' /\ Collects(packets[d][l].id, d, packets[d][l].msg)'
  <2>1. l \in Undelivered(d) /\ l \in DOMAIN packets[d] /\ (d = c => l # k)
    BY <1>0 DEF PlaceTaken, Undelivered
  <2>2. CASE d = c /\ packets[d][l].msg = m
    <3>1. Missing(c, m)'
      BY <2>1, <2>2, <1>0 DEF OnlyItsMessage
    <3>2. packets[c][l].id = p.id
      BY <1>1, <2>1, <2>2 DEF MessagesInv, PartsInv
    <3>3. p.id \in DOMAIN heldFrags' /\ Collects(p.id, c, m)'
      BY <1>2, <3>1, ItsCollection
    <3> QED
      BY <1>2, <2>2, <3>2, <3>3
  <2>3. CASE d # c \/ packets[d][l].msg # m
    <3>1. j \in Range(out[d]) /\ j \in DOMAIN packets[d] /\ j # l
      BY <1>5, <2>1, <2>3, <1>0 DEF PlaceTaken, Undelivered, MessagesInv, OutInv
    <3>2. packets[d][l].id \in DOMAIN heldFrags /\ Collects(packets[d][l].id, d, packets[d][l].msg)
      BY <1>5, <2>1, <3>1 DEF MessagesInv, HeldInv
    <3>3. packets[d][l].total > 0
      <4>1. packets[d][l].total # 0
        BY <1>5, <2>1, <3>1, WholeIsAlone DEF MessagesInv
      <4>2. packets[d][l] \in Packet
        BY <2>1 DEF MessagesInv, PacketInv
      <4> QED
        BY <4>1, <4>2 DEF Packet
    <3>4. packets[d][l].id # p.id \/ p.total = 0
      BY <1>1, <2>1, <2>3, <3>3 DEF MessagesInv, IdInv
    <3>5. packets[d][l].id \in DOMAIN heldFrags' /\ heldFrags'[packets[d][l].id] = heldFrags[packets[d][l].id]
      BY <1>3, <3>2, <3>4
    <3>6. PICK i, n : i = packets[d][l].id /\ n = packets[d][l].msg
      OBVIOUS
    <3>7. Collects(i, d, n)'
      BY <2>3, <3>2, <3>5, <3>6, OthersCollected
    <3> QED
      BY <1>2, <3>5, <3>6, <3>7
  <2> QED
    BY <2>2, <2>3
<1> QED
  BY <1>2, <1>4, <1>5 DEF HeldInv

\* Fewer packets are on their way.
LEMMA ReceiveKeepsIds ==
  ASSUME MessagesInv, NEW c \in Channels, NEW k \in Undelivered(c), ReceiveAt(c, k)
  PROVE  IdInv'
<1>0. PlaceTaken(c, k)
  BY PlaceReceived
<1>1. packets' = packets /\ \A d \in Channels : Undelivered(d)' \subseteq Undelivered(d)
  BY <1>0 DEF PlaceTaken, ReceiveAt
<1> QED
  BY <1>1 DEF MessagesInv, IdInv

\* The channel has handed out one packet more, the next one if it is ordered.
LEMMA ReceiveKeepsOut ==
  ASSUME MessagesInv, NEW c \in Channels, NEW k \in Undelivered(c), ReceiveAt(c, k)
  PROVE  OutInv'
<1>0. PlaceTaken(c, k)
  BY PlaceReceived
<1>1. packets' = packets /\ k \in DOMAIN packets[c] /\ k \in Nat \ {0}
  BY DEF ReceiveAt, Undelivered, MessagesInv, PacketInv
<1>2. \A d \in Channels : Range(out'[d]) \subseteq DOMAIN packets'[d]
  BY <1>1, <1>0 DEF PlaceTaken, MessagesInv, OutInv
<1>3. ASSUME NEW d \in Ordered PROVE out'[d] = [i \in 1..Len(out'[d]) |-> i]
  <2>1. d \in Channels
    BY OrderedAreChannels
  <2>2. CASE d # c
    BY <2>1, <2>2, <1>0 DEF PlaceTaken, MessagesInv, OutInv
  <2>3. CASE d = c
    <3> DEFINE s == out[c]
    <3>1. s \in Seq(Nat \ {0}) /\ s = [i \in 1..Len(s) |-> i] /\ k = Len(s) + 1 /\ out'[c] = Append(s, k)
      BY <2>3, DeliversNext DEF ReceiveAt, MessagesInv, OutInv
    <3> HIDE DEF s
    <3>2. Append(s, k) = [i \in 1 .. Len(s) + 1 |-> i] /\ Len(Append(s, k)) = Len(s) + 1
      BY <1>1, <3>1, NextInOrder
    <3> QED
      BY <2>3, <3>1, <3>2
  <2> QED
    BY <2>2, <2>3
<1> QED
  BY <1>2, <1>3, <1>0 DEF PlaceTaken, OutInv

\* The message of the packet has been handed out if nothing of it is missing.
LEMMA ReceiveKeepsDelivered ==
  ASSUME MessagesInv, NEW c \in Channels, NEW k \in Undelivered(c), ReceiveAt(c, k)
  PROVE  DeliveredInv'
<1>0. OnlyItsMessage(c, k)
  BY MissingAfter
<1> PICK m : m = packets[c][k].msg
  OBVIOUS
<1> DEFINE s == delivered[c]
<1>1. sent' = sent /\ m \in 1..sent[c] /\ m \in 1..MaxMessages /\ packets[c][k].total \in Nat
  <2>1. k \in DOMAIN packets[c] /\ packets[c][k] \in Packet /\ sent[c] \in 0..MaxMessages
    BY DEF MessagesInv, PacketInv, Undelivered
  <2> QED
    BY <2>1, SizesAreNatural DEF ReceiveAt, MessagesInv, PacketInv, Packet
<1>2. /\ delivered \in [Channels -> Seq(1..MaxMessages)]
      /\ \A d \in Channels : Range(delivered[d]) = {l \in 1..sent[d] : ~Missing(d, l)}
      /\ \A d \in Ordered : delivered[d] = [i \in 1..Len(delivered[d]) |-> i]
  BY DEF MessagesInv, DeliveredInv
<1>3. \/ Missing(c, m)' /\ delivered' = delivered
      \/ ~Missing(c, m)' /\ delivered' = [delivered EXCEPT ![c] = Append(@, m)]
  <2>1. packets[c][k].total = 0 => WholeHandedOut(c, m)
    BY WholeReceived
  <2>2. packets[c][k].total > 0 => FragmentAdded(c, k, m)
    BY FragmentReceived
  <2> QED
    BY <1>1, <2>1, <2>2 DEF WholeHandedOut, FragmentAdded
<1>4. Missing(c, m) /\ \A d \in Channels : \A l : d # c \/ l # m => (Missing(d, l)' <=> Missing(d, l))
  BY <1>0 DEF OnlyItsMessage
<1>5. CASE Missing(c, m)' /\ delivered' = delivered
  <2>1. \A d \in Channels : \A l : Missing(d, l)' <=> Missing(d, l)
    BY <1>4, <1>5
  <2> QED
    BY <1>1, <1>2, <1>5, <2>1 DEF DeliveredInv
<1>6. CASE ~Missing(c, m)' /\ delivered' = [delivered EXCEPT ![c] = Append(@, m)]
  <2>1. s \in Seq(1..MaxMessages)
    BY <1>2
  <2>2. /\ Append(s, m) \in Seq(1..MaxMessages) /\ Len(Append(s, m)) = Len(s) + 1
        /\ Range(Append(s, m)) = Range(s) \cup {m}
    <3> DEFINE S == 1..MaxMessages
    <3>1. s \in Seq(S) /\ m \in S
      BY <1>1, <2>1
    <3> HIDE DEF s, S
    <3>2. /\ Append(s, m) \in Seq(S) /\ Len(Append(s, m)) = Len(s) + 1
          /\ Range(Append(s, m)) = Range(s) \cup {m}
      BY <3>1, RangeOfAppend
    <3> QED
      BY <3>2 DEF S
  <2>3. /\ delivered' \in [Channels -> Seq(1..MaxMessages)]
        /\ delivered'[c] = Append(s, m)
        /\ \A d \in Channels : d # c => delivered'[d] = delivered[d]
    BY <1>2, <1>6, <2>2
  <2>4. ASSUME NEW d \in Channels PROVE Range(delivered'[d]) = {l \in 1..sent'[d] : ~Missing(d, l)'}
    <3>1. CASE d # c
      BY <1>1, <1>2, <1>4, <2>3, <3>1
    <3>2. CASE d = c
      <4>1. \A l : ~Missing(c, l)' <=> (~Missing(c, l) \/ l = m)
        BY <1>4, <1>6
      <4>2. Range(s) = {l \in 1..sent[c] : ~Missing(c, l)}
        BY <1>2
      <4>3. {l \in 1..sent[c] : ~Missing(c, l)'} = Range(s) \cup {m}
        BY <1>1, <4>1, <4>2
      <4> QED
        BY <1>1, <2>2, <2>3, <3>2, <4>3
    <3> QED
      BY <3>1, <3>2
  <2>5. ASSUME NEW d \in Ordered PROVE delivered'[d] = [i \in 1..Len(delivered'[d]) |-> i]
    <3>1. d \in Channels
      BY OrderedAreChannels
    <3>2. CASE d # c
      BY <1>2, <2>3, <3>1, <3>2
    <3>3. CASE d = c
      <4>1. m = Len(s) + 1 /\ s = [i \in 1..Len(s) |-> i]
        BY <1>2, <3>3, NextMessage
      <4> HIDE DEF s
      <4>2. Append(s, m) = [i \in 1 .. Len(s) + 1 |-> i]
        BY <1>1, <2>1, <4>1, NextInOrder
      <4> QED
        BY <2>2, <2>3, <3>3, <4>2
    <3> QED
      BY <3>2, <3>3
  <2> QED
    BY <2>3, <2>4, <2>5 DEF DeliveredInv
<1> QED
  BY <1>3, <1>5, <1>6

\* Receive keeps the invariant.
LEMMA ReceiveKeepsInv ==
  ASSUME MessagesInv, NEW c \in Channels, Receive(c)
  PROVE  MessagesInv'
<1>1. PICK k \in Undelivered(c) : ReceiveAt(c, k)
  BY DEF Receive, ReceiveAt
<1>2. PacketInv' /\ PartsInv'
  <2>1. UNCHANGED <<fragmentID, sent, packets>>
    BY <1>1 DEF ReceiveAt
  <2>2. PacketInv /\ PartsInv
    BY DEF MessagesInv
  <2>3. PacketInv'
    BY <2>1, <2>2 DEF PacketInv
  <2>4. PartsInv'
    BY <2>1, <2>2 DEF PartsInv
  <2> QED
    BY <2>3, <2>4
<1> QED
  BY <1>1, <1>2, ReceiveKeepsHeld, ReceiveKeepsIds, ReceiveKeepsOut, ReceiveKeepsDelivered DEF MessagesInv

-----------------------------------------------------------------------------
(* A message is sent.                                                      *)

\* The packets of message m, and what is relied on of their id.
PacketsOf(new, m, id, total) ==
  /\ new \in Seq(Packet)
  /\ \A i \in DOMAIN new : new[i] = [msg |-> m, id |-> id, part |-> i - 1, total |-> total]
  /\ total \in Nat
  /\ IF total = 0 THEN Len(new) = 1 ELSE Len(new) = total /\ IdFree(id)

\* Peer.send enqueues them.
Enqueues(c, new, id, total) ==
  /\ sent[c] < MaxMessages
  /\ PacketsOf(new, sent[c] + 1, id, total)
  /\ sent' = [sent EXCEPT ![c] = @ + 1]
  /\ packets' = [packets EXCEPT ![c] = @ \o new]
  /\ fragmentID' \in Ids
  /\ UNCHANGED <<out, heldFrags, delivered>>

\* The places that are new.
Places(c, new) == Len(packets[c]) + 1 .. Len(packets[c]) + Len(new)

\* A message has a packet at least.
LEMMA SomePacket ==
  ASSUME NEW new, NEW m, NEW id, NEW total, PacketsOf(new, m, id, total)
  PROVE  Len(new) \in Nat /\ Len(new) > 0
<1> DEFINE n == Len(new)
<1>1. total \in Nat /\ (total = 0 => n = 1) /\ (total # 0 => n = total)
  BY Zenon DEF PacketsOf
<1> HIDE DEF n
<1>2. n \in Nat /\ n > 0
  BY <1>1
<1> QED
  BY <1>2 DEF n

\* Where they are put.
PacketsAdded(c, new, id, total) ==
  /\ packets' \in [Channels -> Seq(Packet)]
  /\ sent' \in [Channels -> 0..MaxMessages] /\ sent'[c] = sent[c] + 1
  /\ \A d \in Channels : d # c => packets'[d] = packets[d] /\ sent'[d] = sent[d]
  /\ DOMAIN packets'[c] = DOMAIN packets[c] \cup Places(c, new)
  /\ DOMAIN packets[c] \cap Places(c, new) = {}
  /\ \A k \in DOMAIN packets[c] : packets'[c][k] = packets[c][k]
  /\ \A k \in Places(c, new) :
       /\ packets'[c][k].msg = sent[c] + 1
       /\ packets'[c][k] = [msg |-> sent[c] + 1, id |-> id, part |-> k - Len(packets[c]) - 1, total |-> total]

\* Sending appends the packets of one message after those already sent.
LEMMA PlacesEnqueued ==
  ASSUME MessagesInv, NEW c \in Channels, NEW new, NEW id, NEW total, Enqueues(c, new, id, total)
  PROVE  PacketsAdded(c, new, id, total)
<1> DEFINE p == packets[c]
           L == Len(p)
           n == Len(new)
<1>1. /\ packets \in [Channels -> Seq(Packet)] /\ p \in Seq(Packet) /\ new \in Seq(Packet)
      /\ sent \in [Channels -> 0..MaxMessages]
      /\ \A i \in DOMAIN new : new[i] = [msg |-> sent[c] + 1, id |-> id, part |-> i - 1, total |-> total]
  BY DEF MessagesInv, PacketInv, Enqueues, PacketsOf
<1>2. sent' \in [Channels -> 0..MaxMessages] /\ sent'[c] = sent[c] + 1
      /\ \A d \in Channels : d # c => sent'[d] = sent[d]
  BY <1>1, SizesAreNatural DEF Enqueues
<1>3. packets' = [packets EXCEPT ![c] = p \o new]
  BY DEF Enqueues
<1> HIDE DEF p
<1>4. /\ L \in Nat /\ n \in Nat /\ DOMAIN p = 1..L /\ DOMAIN new = 1..n
      /\ p \o new \in Seq(Packet) /\ DOMAIN (p \o new) = 1 .. L + n
      /\ \A k \in 1..L : (p \o new)[k] = p[k]
      /\ \A k \in L + 1 .. L + n : (p \o new)[k] = new[k - L]
  BY <1>1
<1>5. packets' \in [Channels -> Seq(Packet)] /\ packets'[c] = p \o new
      /\ \A d \in Channels : d # c => packets'[d] = packets[d]
  BY <1>1, <1>3, <1>4
<1>6. ASSUME NEW k \in L + 1 .. L + n
      PROVE  /\ (p \o new)[k].msg = sent[c] + 1
             /\ (p \o new)[k] = [msg |-> sent[c] + 1, id |-> id, part |-> k - L - 1, total |-> total]
  <2>1. k - L \in 1..n
    BY <1>4
  <2>2. new[k - L] = [msg |-> sent[c] + 1, id |-> id, part |-> k - L - 1, total |-> total]
    BY <1>1, <1>4, <2>1
  <2> QED
    BY <1>4, <2>2
<1>7. 1 .. L + n = 1..L \cup L + 1 .. L + n /\ 1..L \cap L + 1 .. L + n = {}
  BY <1>4
<1> QED
  BY <1>2, <1>4, <1>5, <1>6, <1>7 DEF PacketsAdded, p, Places

\* They are missing; what has been received stays as it is.
PacketsMissing(c, new) ==
  /\ Undelivered(c)' = Undelivered(c) \cup Places(c, new)
  /\ \A d \in Channels : d # c => Undelivered(d)' = Undelivered(d)
  /\ \A d \in Channels : \A m : Got(d, m)' = Got(d, m)
  /\ \A m : m = sent[c] + 1 => Missing(c, m)'
  /\ \A d \in Channels : \A m \in 1..sent[d] : Missing(d, m)' <=> Missing(d, m)

\* A message just sent is missing, and no other message changes its standing.
LEMMA MissingEnqueued ==
  ASSUME MessagesInv, NEW c \in Channels, NEW new, NEW id, NEW total, Enqueues(c, new, id, total)
  PROVE  PacketsMissing(c, new)
<1>0. PacketsAdded(c, new, id, total)
  BY PlacesEnqueued
<1> DEFINE N == Places(c, new)
<1>1. out' = out /\ \A d \in Channels : Range(out[d]) \subseteq DOMAIN packets[d]
  BY DEF Enqueues, MessagesInv, OutInv
<1>2. /\ \A d \in Channels : d # c => packets'[d] = packets[d]
      /\ DOMAIN packets'[c] = DOMAIN packets[c] \cup N /\ DOMAIN packets[c] \cap N = {}
      /\ \A k \in DOMAIN packets[c] : packets'[c][k] = packets[c][k]
      /\ \A k \in N : packets'[c][k].msg = sent[c] + 1
  BY <1>0 DEF PacketsAdded
<1>3. \E k \in N : TRUE
  <2>1. Len(new) \in Nat /\ Len(new) > 0 /\ Len(packets[c]) \in Nat
    BY SomePacket DEF Enqueues, MessagesInv, PacketInv
  <2>2. Len(packets[c]) + 1 \in N
    BY <2>1 DEF Places
  <2> QED
    BY <2>2
<1> HIDE DEF N
<1>4. Undelivered(c)' = Undelivered(c) \cup N
  BY <1>1, <1>2 DEF Undelivered
<1>5. \A d \in Channels : d # c => Undelivered(d)' = Undelivered(d)
  BY <1>1, <1>2 DEF Undelivered
<1>6. \A d \in Channels : \A k \in DOMAIN packets[d] : packets'[d][k] = packets[d][k]
  BY <1>2
<1>7. ASSUME NEW d \in Channels, NEW m PROVE Got(d, m)' = Got(d, m)
  BY <1>1, <1>6 DEF Got, At
<1>8. ASSUME NEW m, m = sent[c] + 1 PROVE Missing(c, m)'
  BY <1>2, <1>3, <1>4, <1>8 DEF Missing
<1>9. ASSUME NEW d \in Channels, NEW m \in 1..sent[d] PROVE Missing(d, m)' <=> Missing(d, m)
  <2>1. sent[d] \in Nat
    BY SizesAreNatural DEF MessagesInv, PacketInv
  <2>2. \A k \in N : d = c => packets'[c][k].msg # m
    BY <1>2, <2>1
  <2>3. Undelivered(d) \subseteq DOMAIN packets[d]
    BY DEF Undelivered
  <2> QED
    BY <1>4, <1>5, <1>6, <2>2, <2>3 DEF Missing
<1> QED
  BY <1>4, <1>5, <1>7, <1>8, <1>9 DEF PacketsMissing, N

\* The new packets come last and are of the last message.
LEMMA EnqueueKeepsPackets ==
  ASSUME MessagesInv, NEW c \in Channels, NEW new, NEW id, NEW total, Enqueues(c, new, id, total)
  PROVE  PacketInv'
<1>0. PacketsAdded(c, new, id, total)
  BY PlacesEnqueued
<1> DEFINE N == Places(c, new)
           P == packets'[c]
           Q == packets[c]
           s == sent[c]
<1>1. /\ DOMAIN P = DOMAIN Q \cup N /\ DOMAIN Q \cap N = {}
      /\ \A k \in DOMAIN Q : P[k] = Q[k]
      /\ \A k \in N : P[k].msg = s + 1
      /\ sent'[c] = s + 1
  BY <1>0 DEF PacketsAdded
<1>2. s \in Nat /\ \A k \in DOMAIN Q : Q[k].msg \in Nat
  <2>1. Q \in Seq(Packet) /\ s \in 0..MaxMessages
    BY DEF MessagesInv, PacketInv
  <2> HIDE DEF Q, s
  <2>2. \A k \in DOMAIN Q : Q[k] \in Packet
    BY <2>1
  <2>3. \A k \in DOMAIN Q : Q[k].msg \in 1..MaxMessages
    BY <2>2 DEF Packet
  <2> QED
    BY <2>1, <2>3, SizesAreNatural
<1>3. /\ \A k \in DOMAIN Q : Q[k].msg <= s
      /\ \A m \in 1..s : \E k \in DOMAIN Q : Q[k].msg = m
      /\ \A j, k \in DOMAIN Q : j <= k => Q[j].msg <= Q[k].msg
  BY DEF MessagesInv, PacketInv
<1>4. /\ \A j \in DOMAIN Q, k \in N : j < k
      /\ \A j \in N : j \in Nat
      /\ DOMAIN Q \subseteq Nat
      /\ \E k \in N : TRUE
  <2>1. Q \in Seq(Packet) /\ Len(new) \in Nat /\ Len(new) > 0
    BY SomePacket DEF MessagesInv, PacketInv, Enqueues
  <2> HIDE DEF Q
  <2>2. Len(Q) \in Nat /\ DOMAIN Q = 1..Len(Q)
    BY <2>1
  <2>3. N = Len(Q) + 1 .. Len(Q) + Len(new)
    BY Zenon DEF N, Q, Places
  <2> HIDE DEF N
  <2>4. PICK a \in Nat, b \in Nat : b > 0 /\ DOMAIN Q = 1..a /\ N = a + 1 .. a + b
    BY <2>1, <2>2, <2>3, Zenon
  <2>5. a + 1 \in N
    BY <2>4
  <2> QED
    BY <2>4, <2>5
<1> HIDE DEF N, P, Q, s
<1>5. \A k \in DOMAIN P : P[k].msg <= s + 1
  BY <1>1, <1>2, <1>3
<1>6. \A m \in 1 .. s + 1 : \E k \in DOMAIN P : P[k].msg = m
  <2> SUFFICES ASSUME NEW m \in 1 .. s + 1 PROVE \E k \in DOMAIN P : P[k].msg = m
    OBVIOUS
  <2>1. CASE m = s + 1
    BY <1>1, <1>4, <2>1
  <2>2. CASE m # s + 1
    <3>1. m \in 1..s
      BY <1>2, <2>2
    <3> QED
      BY <1>1, <1>3, <3>1
  <2> QED
    BY <2>1, <2>2
<1>7. \A j, k \in DOMAIN P : j <= k => P[j].msg <= P[k].msg
  <2> SUFFICES ASSUME NEW j \in DOMAIN P, NEW k \in DOMAIN P, j <= k
               PROVE  P[j].msg <= P[k].msg
    OBVIOUS
  <2>1. CASE k \in N
    BY <1>1, <1>2, <1>5, <2>1
  <2>2. CASE j \in DOMAIN Q /\ k \in DOMAIN Q
    BY <1>1, <1>3, <2>2
  <2>3. CASE j \in N /\ k \in DOMAIN Q
    BY <1>4, <2>3
  <2> QED
    BY <1>1, <2>1, <2>2, <2>3
<1>8. /\ \A k \in DOMAIN packets'[c] : packets'[c][k].msg <= sent'[c]
      /\ \A m \in 1..sent'[c] : \E k \in DOMAIN packets'[c] : packets'[c][k].msg = m
      /\ \A j, k \in DOMAIN packets'[c] : j <= k => packets'[c][j].msg <= packets'[c][k].msg
  BY <1>1, <1>5, <1>6, <1>7 DEF P, s
<1>9. ASSUME NEW d \in Channels, d # c
      PROVE  /\ \A k \in DOMAIN packets'[d] : packets'[d][k].msg <= sent'[d]
             /\ \A m \in 1..sent'[d] : \E k \in DOMAIN packets'[d] : packets'[d][k].msg = m
             /\ \A j, k \in DOMAIN packets'[d] : j <= k => packets'[d][j].msg <= packets'[d][k].msg
  <2>1. packets'[d] = packets[d] /\ sent'[d] = sent[d]
    BY <1>0, <1>9 DEF PacketsAdded
  <2> QED
    BY <2>1 DEF MessagesInv, PacketInv
<1>10. /\ fragmentID' \in Ids /\ sent' \in [Channels -> 0..MaxMessages]
       /\ packets' \in [Channels -> Seq(Packet)]
  BY <1>0 DEF PacketsAdded, Enqueues
<1> QED
  BY <1>8, <1>9, <1>10 DEF PacketInv

\* There is one of them for each part.
LEMMA EnqueueKeepsParts ==
  ASSUME MessagesInv, NEW c \in Channels, NEW new, NEW id, NEW total, Enqueues(c, new, id, total)
  PROVE  PartsInv'
<1>0. PacketsAdded(c, new, id, total)
  BY PlacesEnqueued
<1> DEFINE N == Places(c, new)
           P == packets'[c]
           Q == packets[c]
           L == Len(Q)
           s == sent[c]
           Good(R, k) ==
             /\ IF R[k].total = 0 THEN R[k].part = 0 ELSE R[k].part < R[k].total
             /\ \A i \in 0 .. R[k].total - 1 : \E j \in DOMAIN R : R[j] = [R[k] EXCEPT !.part = i]
             /\ \A j \in DOMAIN R : R[j].msg = R[k].msg =>
                  /\ R[j].id = R[k].id /\ R[j].total = R[k].total
                  /\ R[j].part = R[k].part => j = k
<1>1. /\ DOMAIN P = DOMAIN Q \cup N /\ DOMAIN Q \cap N = {}
      /\ \A k \in DOMAIN Q : P[k] = Q[k]
      /\ \A k \in N : P[k] = [msg |-> s + 1, id |-> id, part |-> k - L - 1, total |-> total]
  BY <1>0, Zenon DEF PacketsAdded
<1>2. s \in Nat /\ \A k \in DOMAIN Q : Q[k].msg <= s /\ Q[k].msg \in Nat
  <2>1. Q \in Seq(Packet) /\ s \in 0..MaxMessages /\ \A k \in DOMAIN Q : Q[k].msg <= s
    BY DEF MessagesInv, PacketInv
  <2> HIDE DEF Q, s
  <2>2. \A k \in DOMAIN Q : Q[k] \in Packet
    BY <2>1
  <2>3. \A k \in DOMAIN Q : Q[k].msg \in 1..MaxMessages /\ Q[k].msg <= s /\ s \in 0..MaxMessages
    BY <2>1, <2>2 DEF Packet
  <2> QED
    BY <2>1, <2>3, SizesAreNatural
<1>3. L \in Nat /\ total \in Nat /\ N = IF total = 0 THEN {L + 1} ELSE L + 1 .. L + total
  <2>1. Q \in Seq(Packet) /\ Len(new) \in Nat /\ total \in Nat
        /\ IF total = 0 THEN Len(new) = 1 ELSE Len(new) = total
    BY DEF MessagesInv, PacketInv, Enqueues, PacketsOf
  <2> HIDE DEF Q
  <2>2. L \in Nat /\ N = L + 1 .. L + Len(new)
    BY <2>1 DEF Places, Q
  <2> HIDE DEF L, N
  <2>3. L + 1 .. L + 1 = {L + 1}
    BY <2>2
  <2>4. CASE total = 0
    <3>1. Len(new) = 1
      BY <2>1, <2>4
    <3>2. N = L + 1 .. L + 1
      BY <2>2, <3>1
    <3> QED
      BY <2>1, <2>2, <2>3, <2>4, <3>2
  <2>5. CASE total # 0
    BY <2>1, <2>2, <2>5
  <2> QED
    BY <2>4, <2>5
<1>4. \A k \in DOMAIN Q : Good(Q, k)
  BY DEF MessagesInv, PartsInv
<1> HIDE DEF N, P, Q, L, s
<1>5. ASSUME NEW k \in DOMAIN Q PROVE Good(P, k)
  <2>1. P[k] = Q[k] /\ Good(Q, k) /\ DOMAIN Q \subseteq DOMAIN P
    BY <1>1, <1>4
  <2>2. \A j \in DOMAIN P : P[j].msg = P[k].msg => j \in DOMAIN Q
    BY <1>1, <1>2
  <2> QED
    BY <1>1, <2>1, <2>2
<1>6. ASSUME NEW k \in N PROVE Good(P, k)
  <2>1. P[k] = [msg |-> s + 1, id |-> id, part |-> k - L - 1, total |-> total]
    BY <1>1
  <2>2. IF total = 0 THEN P[k].part = 0 ELSE P[k].part < total
    BY <1>3, <2>1
  <2>3. \A i \in 0 .. total - 1 : \E j \in DOMAIN P : P[j] = [P[k] EXCEPT !.part = i]
    <3> SUFFICES ASSUME NEW i \in 0 .. total - 1
                 PROVE  \E j \in DOMAIN P : P[j] = [P[k] EXCEPT !.part = i]
      OBVIOUS
    <3>1. L + 1 + i \in N /\ (L + 1 + i) - L - 1 = i
      BY <1>3
    <3>2. P[L + 1 + i] = [msg |-> s + 1, id |-> id, part |-> i, total |-> total]
      BY <1>1, <3>1
    <3> QED
      BY <1>1, <2>1, <3>1, <3>2
  <2>4. \A j \in DOMAIN P : P[j].msg = s + 1 => j \in N
    BY <1>1, <1>2
  <2>5. ASSUME NEW j \in N
        PROVE  P[j].id = id /\ P[j].total = total /\ (P[j].part = P[k].part => j = k)
    <3>1. P[j].id = id /\ P[j].total = total /\ P[j].part = j - L - 1 /\ P[k].part = k - L - 1
      BY <1>1, <2>1
    <3>2. j \in Int /\ k \in Int
      BY <1>3
    <3> QED
      BY <1>3, <3>1, <3>2
  <2> QED
    BY <2>1, <2>2, <2>3, <2>4, <2>5
<1>7. \A k \in DOMAIN packets'[c] : Good(packets'[c], k)
  BY <1>1, <1>5, <1>6 DEF P
<1>8. ASSUME NEW d \in Channels, d # c
      PROVE  \A k \in DOMAIN packets'[d] : Good(packets'[d], k)
  <2>1. packets'[d] = packets[d]
    BY <1>0, <1>8 DEF PacketsAdded
  <2> QED
    BY <2>1 DEF MessagesInv, PartsInv
<1> QED
  BY <1>7, <1>8 DEF PartsInv

\* Nothing is handed out.
LEMMA EnqueueKeepsOut ==
  ASSUME MessagesInv, NEW c \in Channels, NEW new, NEW id, NEW total, Enqueues(c, new, id, total)
  PROVE  OutInv'
<1>0. PacketsAdded(c, new, id, total)
  BY PlacesEnqueued
<1>1. out' = out /\ \A d \in Channels : DOMAIN packets[d] \subseteq DOMAIN packets'[d]
  BY <1>0 DEF PacketsAdded, Enqueues
<1> QED
  BY <1>1 DEF MessagesInv, OutInv

\* The id of the new fragments is not that of others.
LEMMA EnqueueKeepsIds ==
  ASSUME MessagesInv, NEW c \in Channels, NEW new, NEW id, NEW total, Enqueues(c, new, id, total)
  PROVE  IdInv'
<1>0. PacketsAdded(c, new, id, total) /\ PacketsMissing(c, new)
  BY PlacesEnqueued, MissingEnqueued
<1> DEFINE N == Places(c, new)
<1>1. /\ Undelivered(c)' = Undelivered(c) \cup N
      /\ \A d \in Channels : d # c => Undelivered(d)' = Undelivered(d)
  BY <1>0 DEF PacketsMissing
<1>2. \A d \in Channels : \A k \in Undelivered(d) : packets'[d][k] = packets[d][k]
  BY <1>0 DEF PacketsAdded, Undelivered
<1>3. /\ \A k \in N : packets'[c][k].msg = sent[c] + 1 /\ packets'[c][k].id = id /\ packets'[c][k].total = total
      /\ total \in Nat
      /\ total > 0 => IdFree(id)
  BY <1>0 DEF PacketsAdded, Enqueues, PacketsOf
<1>4. total > 0 => \A d \in Channels : \A k \in Undelivered(d) : packets[d][k].total > 0 => packets[d][k].id # id
  BY <1>3 DEF IdFree
<1> HIDE DEF N
<1> SUFFICES ASSUME NEW d \in Channels, NEW e \in Channels, NEW j \in Undelivered(d)', NEW k \in Undelivered(e)',
                    packets'[d][j].total > 0, packets'[e][k].total > 0, packets'[d][j].id = packets'[e][k].id
             PROVE  d = e /\ packets'[d][j].msg = packets'[e][k].msg
  BY DEF IdInv
<1>5. CASE j \in Undelivered(d) /\ k \in Undelivered(e)
  BY <1>2, <1>5 DEF MessagesInv, IdInv
<1>6. CASE j \in Undelivered(d) /\ e = c /\ k \in N
  BY <1>2, <1>3, <1>4, <1>6
<1>7. CASE d = c /\ j \in N /\ k \in Undelivered(e)
  BY <1>2, <1>3, <1>4, <1>7
<1>8. CASE d = c /\ j \in N /\ e = c /\ k \in N
  BY <1>3, <1>8
<1> QED
  BY <1>1, <1>5, <1>6, <1>7, <1>8

\* What is collected is of earlier messages.
LEMMA EnqueueKeepsHeld ==
  ASSUME MessagesInv, NEW c \in Channels, NEW new, NEW id, NEW total, Enqueues(c, new, id, total)
  PROVE  HeldInv'
<1>0. PacketsAdded(c, new, id, total) /\ PacketsMissing(c, new)
  BY PlacesEnqueued, MissingEnqueued
<1> DEFINE N == Places(c, new)
<1>1. heldFrags' = heldFrags /\ out' = out
  BY DEF Enqueues
<1>2. /\ sent \in [Channels -> Nat]
      /\ \A d \in Channels : \A k \in DOMAIN packets[d] : packets[d][k].msg \in 1..sent[d]
  <2>1. /\ sent \in [Channels -> 0..MaxMessages]
        /\ \A d \in Channels : \A k \in DOMAIN packets[d] :
             packets[d][k] \in Packet /\ packets[d][k].msg <= sent[d]
    BY DEF MessagesInv, PacketInv
  <2>2. \A d \in Channels : sent[d] \in Nat
    BY <2>1, SizesAreNatural
  <2>3. ASSUME NEW d \in Channels, NEW k \in DOMAIN packets[d] PROVE packets[d][k].msg \in 1..sent[d]
    BY <2>1, <2>2, <2>3, SizesAreNatural DEF Packet
  <2> QED
    BY <2>1, <2>2, <2>3
<1>3. \A d \in Channels : sent'[d] \in Nat /\ sent[d] <= sent'[d]
  BY <1>2, <1>0 DEF PacketsAdded
<1>4. ASSUME NEW d \in Channels, NEW k \in DOMAIN packets'[d], packets'[d][k].msg \in 1..sent[d]
      PROVE  k \in DOMAIN packets[d] /\ packets'[d][k] = packets[d][k]
  <2>1. \A j \in N : packets'[c][j].msg = sent[c] + 1
    BY <1>0 DEF PacketsAdded
  <2>2. ~(d = c /\ k \in N)
    BY <1>2, <1>4, <2>1
  <2> HIDE DEF N
  <2>3. d # c => packets'[d] = packets[d]
    BY <1>0, Zenon DEF PacketsAdded
  <2>4. DOMAIN packets'[c] = DOMAIN packets[c] \cup N /\ \A j \in DOMAIN packets[c] : packets'[c][j] = packets[c][j]
    BY <1>0 DEF PacketsAdded, N
  <2> QED
    BY <2>2, <2>3, <2>4
<1>5. ASSUME NEW i, NEW d \in Channels, NEW m \in 1..sent[d], Collects(i, d, m)
      PROVE  Collects(i, d, m)'
  <2>1. Got(d, m)' = Got(d, m)
    BY <1>0, Zenon DEF PacketsMissing
  <2> QED
    BY <1>1, <1>4, <1>5, <2>1 DEF Collects
<1>6. ASSUME NEW i \in DOMAIN heldFrags'
      PROVE  \E d \in Channels : \E m \in 1..sent'[d] : Collects(i, d, m)' /\ Missing(d, m)' /\ Got(d, m)' # {}
  <2>1. PICK d \in Channels : \E m \in 1..sent[d] : Collects(i, d, m) /\ Missing(d, m) /\ Got(d, m) # {}
    BY <1>1, <1>6 DEF MessagesInv, HeldInv
  <2>2. PICK m \in 1..sent[d] : Collects(i, d, m) /\ Missing(d, m) /\ Got(d, m) # {}
    BY <2>1
  <2>3. Collects(i, d, m)' /\ Missing(d, m)' /\ Got(d, m)' # {}
    BY <1>5, <2>2, <1>0, Zenon DEF PacketsMissing
  <2>4. m \in 1..sent'[d]
    BY <1>2, <1>3
  <2> QED
    BY <2>3, <2>4
<1>7. ASSUME NEW d \in Channels, NEW j \in Range(out'[d]), NEW k \in Undelivered(d)',
             packets'[d][j].msg = packets'[d][k].msg
      PROVE  packets'[d][k].id \in DOMAIN heldFrags' /\ Collects(packets[d][k].id, d, packets[d][k].msg)'
  <2>1. j \in Range(out[d]) /\ j \in DOMAIN packets[d] /\ j \in DOMAIN packets'[d] /\ packets'[d][j] = packets[d][j]
    BY <1>1, <1>0 DEF PacketsAdded, MessagesInv, OutInv
  <2>2. k \in DOMAIN packets'[d] /\ packets'[d][k].msg \in 1..sent[d]
    BY <1>2, <1>7, <2>1 DEF Undelivered
  <2>3. k \in Undelivered(d) /\ packets'[d][k] = packets[d][k]
    BY <1>1, <1>4, <2>2 DEF Undelivered
  <2>4. packets[d][k].id \in DOMAIN heldFrags /\ Collects(packets[d][k].id, d, packets[d][k].msg)
    BY <1>7, <2>1, <2>3 DEF MessagesInv, HeldInv
  <2> QED
    BY <1>1, <1>5, <2>2, <2>3, <2>4
<1> QED
  BY <1>6, <1>7, Zenon DEF HeldInv

\* The new message is missing, the others are as before.
LEMMA EnqueueKeepsDelivered ==
  ASSUME MessagesInv, NEW c \in Channels, NEW new, NEW id, NEW total, Enqueues(c, new, id, total)
  PROVE  DeliveredInv'
<1>0. PacketsAdded(c, new, id, total) /\ PacketsMissing(c, new)
  BY PlacesEnqueued, MissingEnqueued
<1>1. delivered' = delivered /\ sent'[c] = sent[c] + 1 /\ \A d \in Channels : d # c => sent'[d] = sent[d]
  BY <1>0 DEF PacketsAdded, Enqueues
<1>2. \A d \in Channels : sent[d] \in Nat
  BY SizesAreNatural DEF MessagesInv, PacketInv
<1>3. (\A m : m = sent[c] + 1 => Missing(c, m)') /\ \A d \in Channels : \A m \in 1..sent[d] : Missing(d, m)' <=> Missing(d, m)
  BY <1>0 DEF PacketsMissing
<1>4. ASSUME NEW d \in Channels
      PROVE  {m \in 1..sent'[d] : ~Missing(d, m)'} = {m \in 1..sent[d] : ~Missing(d, m)}
  <2>1. CASE d # c
    BY <1>1, <1>3, <2>1
  <2>2. CASE d = c
    <3>1. 1..sent'[c] = 1..sent[c] \cup {sent[c] + 1}
      BY <1>1, <1>2
    <3> QED
      BY <1>3, <2>2, <3>1
  <2> QED
    BY <2>1, <2>2
<1> QED
  BY <1>1, <1>4 DEF MessagesInv, DeliveredInv

\* Sending keeps the invariant.
LEMMA EnqueueKeepsInv ==
  ASSUME MessagesInv, NEW c \in Channels, NEW new, NEW id, NEW total, Enqueues(c, new, id, total)
  PROVE  MessagesInv'
  BY EnqueueKeepsPackets, EnqueueKeepsParts, EnqueueKeepsOut, EnqueueKeepsIds, EnqueueKeepsHeld,
     EnqueueKeepsDelivered DEF MessagesInv

\* Both ways of Peer.send do that.
LEMMA SendWholeEnqueues ==
  ASSUME MessagesInv, NEW c \in Channels, SendWhole(c)
  PROVE  Enqueues(c, Whole(sent[c] + 1), 0, 0)
<1> DEFINE m == sent[c] + 1
           p == [msg |-> m, id |-> 0, part |-> 0, total |-> 0]
<1>1. sent[c] \in 0..MaxMessages /\ fragmentID \in Ids /\ sent[c] < MaxMessages
  BY DEF MessagesInv, PacketInv, SendWhole
<1>2. m \in 1..MaxMessages
  BY <1>1, SizesAreNatural
<1>3. p \in Packet
  BY <1>2, SizesAreNatural DEF Packet, Ids
<1> HIDE DEF m
<1>4. PacketsOf(Whole(m), m, 0, 0)
  BY <1>3 DEF PacketsOf, Whole
<1> QED
  BY <1>1, <1>4 DEF SendWhole, Enqueues, m

\* The id of the fragments is free, or they are not sent.
LEMMA SendFragmentedEnqueues ==
  ASSUME MessagesInv, NEW c \in Channels, NEW n \in 2..MaxParts, SendFragmented(c, n)
  PROVE  Enqueues(c, Fragments(sent[c] + 1, n), NextId, n)
<1> DEFINE m == sent[c] + 1
<1>1. sent[c] \in 0..MaxMessages /\ fragmentID \in Ids /\ sent[c] < MaxMessages /\ IdFree(NextId)
  BY DEF MessagesInv, PacketInv, SendFragmented, NextId
<1>2. m \in 1..MaxMessages
  BY <1>1, SizesAreNatural
<1>3. NextId \in Ids
  BY <1>1, SizesAreNatural DEF NextId, Ids
<1> HIDE DEF m
<1>4. \A i \in 1..n : Fragments(m, n)[i] = [msg |-> m, id |-> NextId, part |-> i - 1, total |-> n]
                      /\ Fragments(m, n)[i] \in Packet
  <2> SUFFICES ASSUME NEW i \in 1..n
               PROVE  Fragments(m, n)[i] = [msg |-> m, id |-> NextId, part |-> i - 1, total |-> n]
                      /\ Fragments(m, n)[i] \in Packet
    OBVIOUS
  <2>1. Fragments(m, n)[i] = [msg |-> m, id |-> NextId, part |-> i - 1, total |-> n]
    BY DEF Fragments
  <2>2. [msg |-> m, id |-> NextId, part |-> i - 1, total |-> n] \in Packet
    BY <1>2, <1>3, SizesAreNatural DEF Packet
  <2> QED
    BY <2>1, <2>2
<1>5. Fragments(m, n) \in Seq(Packet) /\ Len(Fragments(m, n)) = n /\ n \in Nat /\ n # 0
  <2>1. n \in Nat /\ n # 0
    BY SizesAreNatural
  <2>2. \A i \in 1..n : Fragments(m, n)[i] \in Packet
    BY <1>4
  <2> QED
    BY <2>1, <2>2, FragmentsAreASequence
<1>6. PacketsOf(Fragments(m, n), m, NextId, n)
  BY <1>1, <1>4, <1>5 DEF PacketsOf
<1> QED
  BY <1>1, <1>3, <1>6 DEF SendFragmented, Enqueues, m

-----------------------------------------------------------------------------
(* The theorems.                                                           *)

\* Nothing has been sent.
LEMMA MessagesInvInit == Init => MessagesInv
<1> SUFFICES ASSUME Init PROVE MessagesInv
  OBVIOUS
<1>1. \A c \in Channels : /\ sent[c] = 0 /\ packets[c] = <<>> /\ out[c] = <<>> /\ delivered[c] = <<>>
                          /\ DOMAIN packets[c] = {} /\ Range(out[c]) = {} /\ Range(delivered[c]) = {}
                          /\ Undelivered(c) = {}
  BY DEF Init, Range, Undelivered
<1>2. DOMAIN heldFrags = {} /\ fragmentID \in Ids
  BY SizesAreNatural DEF Init, Ids
<1>3. PacketInv
  BY <1>1, <1>2, SizesAreNatural DEF PacketInv, Init
<1>4. \A c \in Channels : out[c] = [i \in 1..Len(out[c]) |-> i] /\ delivered[c] = [i \in 1..Len(delivered[c]) |-> i]
  BY <1>1
<1>5. OutInv
  BY <1>1, <1>4, OrderedAreChannels DEF OutInv, Init
<1>6. DeliveredInv
  BY <1>1, <1>4, OrderedAreChannels DEF DeliveredInv, Init
<1>7. PartsInv /\ IdInv /\ HeldInv
  BY <1>1, <1>2 DEF PartsInv, IdInv, HeldInv
<1> QED
  BY <1>3, <1>5, <1>6, <1>7 DEF MessagesInv

\* Every step keeps the invariant.
LEMMA MessagesInvStep == MessagesInv /\ [Next]_vars => MessagesInv'
<1> SUFFICES ASSUME MessagesInv, [Next]_vars PROVE MessagesInv'
  OBVIOUS
<1>1. CASE UNCHANGED vars
  <2>1. UNCHANGED <<fragmentID, sent, packets, out, heldFrags, delivered>>
    BY <1>1 DEF vars
  <2>2. PacketInv' /\ PartsInv'
    BY <2>1 DEF MessagesInv, PacketInv, PartsInv
  <2>3. OutInv'
    BY <2>1 DEF MessagesInv, OutInv
  <2>4. \A c : Undelivered(c)' = Undelivered(c)
    BY <2>1 DEF Undelivered
  <2>5. \A c, m : (Missing(c, m)' <=> Missing(c, m)) /\ Got(c, m)' = Got(c, m)
    BY <2>1, <2>4 DEF Missing, Got, At
  <2>6. \A id, c, m : Collects(id, c, m)' <=> Collects(id, c, m)
    BY <2>1, <2>5 DEF Collects
  <2>7. IdInv'
    BY <2>1, <2>4 DEF MessagesInv, IdInv
  <2>8. HeldInv'
    BY <2>1, <2>4, <2>5, <2>6 DEF MessagesInv, HeldInv
  <2>9. DeliveredInv'
    BY <2>1, <2>5 DEF MessagesInv, DeliveredInv
  <2> QED
    BY <2>2, <2>3, <2>7, <2>8, <2>9 DEF MessagesInv
<1>2. ASSUME NEW c \in Channels, SendWhole(c) PROVE MessagesInv'
  BY <1>2, SendWholeEnqueues, EnqueueKeepsInv
<1>3. ASSUME NEW c \in Channels, NEW n \in 2..MaxParts, SendFragmented(c, n) PROVE MessagesInv'
  BY <1>3, SendFragmentedEnqueues, EnqueueKeepsInv
<1>4. ASSUME NEW c \in Channels, Receive(c) PROVE MessagesInv'
  BY <1>4, ReceiveKeepsInv
<1> QED
  BY <1>1, <1>2, <1>3, <1>4 DEF Next

\* So it always holds.
LEMMA MessagesInvariant == Spec => []MessagesInv
  BY MessagesInvInit, MessagesInvStep, PTL DEF Spec

\* A collection is of a message that misses a packet still.
LEMMA CollectionsEndInv == MessagesInv => CollectionsEnd
<1> SUFFICES ASSUME MessagesInv, NEW id \in DOMAIN heldFrags
             PROVE  LET h == heldFrags[id] IN
                    \E m \in 1..sent[h.channel] :
                      /\ \A p \in h.parts : p.msg = m
                      /\ \E k \in Undelivered(h.channel) : packets[h.channel][k].msg = m
  BY DEF CollectionsEnd
<1>1. PICK c \in Channels : \E m \in 1..sent[c] : Collects(id, c, m) /\ Missing(c, m) /\ Got(c, m) # {}
  BY DEF MessagesInv, HeldInv
<1>2. PICK m \in 1..sent[c] : Collects(id, c, m) /\ Missing(c, m) /\ Got(c, m) # {}
  BY <1>1
<1>3. PICK k \in Undelivered(c) : packets[c][k].msg = m
  BY <1>2 DEF Missing
<1>4. heldFrags[id] = [channel |-> c, total |-> packets[c][k].total, parts |-> Got(c, m)]
  BY <1>2, <1>3 DEF Collects, Undelivered
<1>5. \A p \in Got(c, m) : p.msg = m
  BY DEF Got, At
<1> QED
  BY <1>3, <1>4, <1>5

\* Nothing is left behind in heldFrags: what is collected is of one message, and
\* the packet that completes it is on its way, however the channels mix their
\* fragments and use the ids again (peer.go:345-385).
THEOREM CollectionsAreFinished == Spec => []CollectionsEnd
  BY MessagesInvariant, CollectionsEndInv, PTL

\* The steps of a channel and of what it promises.
LEMMA SendIsPromised ==
  ASSUME MessagesInv, NEW c \in Channels, NEW new, NEW id, NEW total, Enqueues(c, new, id, total),
         NEW d \in Channels
  PROVE  [Promise(d)!Next]_(Promise(d)!vars)
<1>0. PacketsAdded(c, new, id, total)
  BY PlacesEnqueued
<1>1. sent'[c] = sent[c] + 1 /\ sent[c] < MaxMessages /\ delivered' = delivered
  BY <1>0 DEF PacketsAdded, Enqueues
<1>2. d # c => sent'[d] = sent[d]
  BY <1>0, Zenon DEF PacketsAdded
<1>3. CASE d = c
  <2>1. Promise(d)!Send
    BY <1>1, <1>3 DEF Promise!Send
  <2> QED
    BY <2>1 DEF Promise!Next
<1>4. CASE d # c
  BY <1>1, <1>2, <1>4 DEF Promise!vars
<1> QED
  BY <1>3, <1>4

\* A packet received delivers its message, the next one if the channel is
\* ordered, or nothing.
LEMMA ReceiveIsPromised ==
  ASSUME MessagesInv, NEW c \in Channels, Receive(c), NEW d \in Channels
  PROVE  [Promise(d)!Next]_(Promise(d)!vars)
<1>1. PICK k \in Undelivered(c) : ReceiveAt(c, k)
  BY DEF Receive, ReceiveAt
<1> PICK m : m = packets[c][k].msg
  OBVIOUS
<1>0. OnlyItsMessage(c, k)
  BY <1>1, MissingAfter
<1> DEFINE s == delivered[c]
<1>2. sent' = sent /\ m \in 1..sent[c] /\ sent[c] \in Nat /\ packets[c][k].total \in Nat /\ m \in 1..MaxMessages
  <2>1. k \in DOMAIN packets[c] /\ packets[c][k] \in Packet /\ sent[c] \in 0..MaxMessages
    BY DEF MessagesInv, PacketInv, Undelivered
  <2> QED
    BY <1>1, <2>1, SizesAreNatural DEF ReceiveAt, MessagesInv, PacketInv, Packet
<1>3. \/ delivered' = delivered
      \/ delivered' = [delivered EXCEPT ![c] = Append(@, m)]
  <2>1. packets[c][k].total = 0 => WholeHandedOut(c, m)
    BY <1>1, WholeReceived
  <2>2. packets[c][k].total > 0 => FragmentAdded(c, k, m)
    BY <1>1, FragmentReceived
  <2> QED
    BY <1>2, <2>1, <2>2 DEF WholeHandedOut, FragmentAdded
<1>4. /\ delivered \in [Channels -> Seq(1..MaxMessages)]
      /\ Range(s) = {l \in 1..sent[c] : ~Missing(c, l)}
      /\ c \in Ordered => s = [i \in 1..Len(s) |-> i]
  BY DEF MessagesInv, DeliveredInv
<1>5. m \in (1..sent[c]) \ Range(s)
  BY <1>1, <1>2, <1>4, <1>0 DEF OnlyItsMessage
<1>6. CASE delivered'[d] = delivered[d]
  BY <1>2, <1>6 DEF Promise!vars
<1>7. CASE d = c /\ delivered' = [delivered EXCEPT ![c] = Append(@, m)]
  <2>1. delivered'[c] = Append(s, m)
    BY <1>4, <1>7
  <2>2. CASE c \notin Ordered
    <3>1. m \in 1..sent[d] \ Range(delivered[d]) /\ delivered'[d] = Append(delivered[d], m)
          /\ sent'[d] = sent[d] /\ d \notin Ordered
      BY <1>2, <1>5, <1>7, <2>1, <2>2
    <3>2. \E l \in Promise(d)!Outstanding : delivered'[d] = Append(delivered[d], l)
      BY <3>1 DEF Promise!Outstanding, Promise!Range, Range
    <3>3. Promise(d)!DeliverUnordered
      BY <3>1, <3>2 DEF Promise!DeliverUnordered
    <3> QED
      BY <3>3 DEF Promise!Next, Promise!Deliver
  <2>3. CASE c \in Ordered
    <3>1. m = Len(s) + 1
      BY <1>1, <2>3, NextMessage
    <3>2. s \in Seq(1..MaxMessages) /\ s = [i \in 1..Len(s) |-> i] /\ Len(s) \in Nat
      BY <1>4, <2>3
    <3> HIDE DEF s
    <3>3. Append(s, m) = [i \in 1 .. Len(s) + 1 |-> i]
      BY <1>2, <3>1, <3>2, NextInOrder
    <3>4. Len(s) + 1 \in Len(s) + 1 .. sent[c]
      BY <1>2, <3>1, <3>2
    <3>5. Promise(d)!DeliverOrdered
      BY <1>2, <1>7, <2>1, <2>3, <3>3, <3>4 DEF Promise!DeliverOrdered, s
    <3> QED
      BY <3>5 DEF Promise!Next, Promise!Deliver
  <2> QED
    BY <2>2, <2>3
<1> QED
  BY <1>3, <1>4, <1>6, <1>7

\* Every step is one that each channel promises, or one it does not see.
LEMMA StepIsPromised ==
  MessagesInv /\ [Next]_vars => \A c \in Channels : [Promise(c)!Next]_(Promise(c)!vars)
<1> SUFFICES ASSUME MessagesInv, [Next]_vars, NEW d \in Channels
             PROVE  [Promise(d)!Next]_(Promise(d)!vars)
  OBVIOUS
<1>1. CASE UNCHANGED vars
  BY <1>1 DEF vars, Promise!vars
<1>2. ASSUME NEW c \in Channels, SendWhole(c) PROVE [Promise(d)!Next]_(Promise(d)!vars)
  BY <1>2, SendWholeEnqueues, SendIsPromised
<1>3. ASSUME NEW c \in Channels, NEW n \in 2..MaxParts, SendFragmented(c, n)
      PROVE  [Promise(d)!Next]_(Promise(d)!vars)
  BY <1>3, SendFragmentedEnqueues, SendIsPromised
<1>4. ASSUME NEW c \in Channels, Receive(c) PROVE [Promise(d)!Next]_(Promise(d)!vars)
  BY <1>4, ReceiveIsPromised
<1> QED
  BY <1>1, <1>2, <1>3, <1>4 DEF Next

\* At first nothing has been handed in or out.
LEMMA InitIsPromised == Init => \A c \in Channels : Promise(c)!Init
BY DEF Init, Promise!Init

\* On every channel each message is handed out once, as it was sent and in order
\* where that is promised, for any number of channels, sizes of messages and ids
\* (peer.go:211-287, 339-387).
THEOREM MessagesAreOnce == Spec => MessagesOnce
<1>1. Spec => []MessagesInv
  BY MessagesInvariant
<1>2. MessagesInv /\ [Next]_vars => \A c \in Channels : [Promise(c)!Next]_(Promise(c)!vars)
  BY StepIsPromised
<1> DEFINE A == \A c \in Channels : [Promise(c)!Next]_(Promise(c)!vars)
           B == \A c \in Channels : Promise(c)!Init
<1>3. MessagesInv /\ [Next]_vars => A
  BY <1>2
<1>4. Init => B
  BY InitIsPromised
<1> HIDE DEF A, B
<1>5. Spec => B /\ [][A]_vars
  BY <1>1, <1>3, <1>4, PTL DEF Spec
<1> QED
  BY <1>5 DEF A, B, MessagesOnce

=============================================================================
