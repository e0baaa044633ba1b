----------------------- MODULE SequencedChannel_proofs -----------------------
(***************************************************************************)
(* Proofs about SequencedChannel, for every number of messages and of      *)
(* sequence numbers: it implements NewestDelivery, and the last packet of  *)
(* a reliable channel is repeated until its message has been delivered.    *)
(***************************************************************************)
EXTENDS SequencedChannel, TLAPS

-----------------------------------------------------------------------------
(* The arithmetic of the sequence numbers, as in ReliableChannel_proofs.   *)

\* A multiple of d that is not zero is at least d away from zero.
LEMMA MultiplesAreApart ==
  ASSUME NEW d \in Nat \ {0}, NEW k \in Int, k # 0
  PROVE  d * k >= d \/ d * k <= -d
<1>1. CASE k >= 1
  BY <1>1, SMT
<1>2. CASE k <= -1
  BY <1>2, SMT
<1> QED
  BY <1>1, <1>2

\* Quotient and remainder.
LEMMA Division ==
  ASSUME NEW d \in Nat \ {0}, NEW x \in Int
  PROVE  /\ x % d \in 0..d - 1
         /\ x \div d \in Int
         /\ x = d * (x \div d) + (x % d)
  BY SMT

\* They are unique.
LEMMA Remainder ==
  ASSUME NEW d \in Nat \ {0}, NEW x \in Int, NEW k \in Int, NEW c \in 0..d - 1, x = d * k + c
  PROVE  x % d = c
<1> DEFINE q == x \div d
           r == x % d
<1>1. r \in 0..d - 1 /\ q \in Int /\ x = d * q + r
  BY Division
<1>2. d * (q - k) = c - r
  BY <1>1, SMT
<1>3. q - k = 0
  <2>1. q - k \in Int
    BY <1>1
  <2>2. SUFFICES ASSUME q - k # 0 PROVE FALSE
    OBVIOUS
  <2>3. d * (q - k) >= d \/ d * (q - k) <= -d
    BY <2>1, <2>2, MultiplesAreApart
  <2> HIDE DEF q, r
  <2> QED
    BY <1>1, <1>2, <2>3, SMT
<1>4. c - r = 0
  BY <1>1, <1>2, <1>3, SMT
<1> QED
  BY <1>1, <1>4

\* A remainder names one of d numbers in a row.
LEMMA RemainderIsUnique ==
  ASSUME NEW d \in Nat \ {0}, NEW a \in Int, NEW b \in Int, a % d = b % d, -d < a - b, a - b < d
  PROVE  a = b
<1> DEFINE q == (a \div d) - (b \div d)
<1>1. a % d \in 0..d - 1 /\ a \div d \in Int /\ a = d * (a \div d) + (a % d)
  BY Division
<1>2. b % d \in 0..d - 1 /\ b \div d \in Int /\ b = d * (b \div d) + (b % d)
  BY Division
<1>3. a - b = d * q /\ q \in Int
  BY <1>1, <1>2, SMT
<1>4. q = 0
  <2> HIDE DEF q
  <2> QED
    BY <1>3, MultiplesAreApart, SMT
<1>5. a - b = 0
  BY <1>3, <1>4, SMT
<1> QED
  BY <1>5

\* relativeSequence gives the distance of two counters from their numbers.
LEMMA RelativeIsDistance ==
  ASSUME NEW a \in Int, NEW b \in Int,
         -HalfMaxSequence <= a - b, a - b < HalfMaxSequence
  PROVE  Relative(a % MaxSequence, b % MaxSequence) = a - b
<1> DEFINE h  == HalfMaxSequence
           qa == a \div MaxSequence
           qb == b \div MaxSequence
           x  == (a % MaxSequence) - (b % MaxSequence) + MaxSequence + h
           c  == a - b + h
           k  == qb - qa + 1
<1> USE NumbersHalve DEF Seqs
<1>1. a % MaxSequence \in Seqs /\ qa \in Int /\ a = MaxSequence * qa + (a % MaxSequence)
  BY Division
<1>2. b % MaxSequence \in Seqs /\ qb \in Int /\ b = MaxSequence * qb + (b % MaxSequence)
  BY Division
<1>3. h \in Nat /\ MaxSequence = 2 * h /\ MaxSequence \in Nat \ {0}
  BY NumbersHalve, SMT DEF HalfMaxSequence
<1>4. MaxSequence * k = MaxSequence * qb - MaxSequence * qa + MaxSequence /\ k \in Int
  <2>1. qa \in Int /\ qb \in Int /\ MaxSequence \in Int
    BY <1>1, <1>2, <1>3
  <2> HIDE DEF qa, qb
  <2> QED
    BY <2>1, SMT
<1>5. x = MaxSequence * k + c /\ x \in Int
  <2> DEFINE ra == a % MaxSequence
             rb == b % MaxSequence
             ma == MaxSequence * qa
             mb == MaxSequence * qb
             mk == MaxSequence * k
  <2>1. ra \in Int /\ rb \in Int /\ ma \in Int /\ mb \in Int /\ h \in Int /\ MaxSequence \in Int
    BY <1>1, <1>2, <1>3, SMT DEF Seqs
  <2>2. a = ma + ra /\ b = mb + rb /\ mk = mb - ma + MaxSequence
    BY <1>1, <1>2, <1>4
  <2>3. x = ra - rb + MaxSequence + h
    OBVIOUS
  <2> HIDE DEF ra, rb, ma, mb, mk, h, x, qa, qb, k
  <2>4. x = mk + (a - b + h) /\ x \in Int
    BY <2>1, <2>2, <2>3, SMT
  <2> QED
    BY <2>4 DEF mk
<1>6. c \in Seqs
  BY <1>3, SMT DEF Seqs
<1>7. x % MaxSequence = c
  BY <1>4, <1>5, <1>6, Remainder
<1> QED
  BY <1>7, <1>3 DEF Relative

\* A number names one counter among MaxSequence in a row.
LEMMA NumberIsUnique ==
  ASSUME NEW a \in Int, NEW b \in Int,
         a % MaxSequence = b % MaxSequence,
         -MaxSequence < a - b, a - b < MaxSequence
  PROVE  a = b
  BY NumbersHalve, RemainderIsUnique

-----------------------------------------------------------------------------
(* The invariant.                                                          *)

\* The counters behind the numbers.
CounterInv ==
  /\ localSequence = Number(numbered) /\ remoteSeq = Number(received)
  /\ enqueued - received <= MaxSilence
  /\ mustSendAck => numbered > 0

\* The last packet is the one numbered last.
LastInv == lastPacket = NoPacket \/ (lastPacket = Repeated(numbered) /\ numbered > 0)

\* A datagram carries the number of its message, and is young.
DataInv ==
  \A p \in data :
    /\ p.msg \in 1..numbered /\ p.seq = Number(p.msg)
    /\ numbered - p.msg < Lifetime

\* An acknowledgement carries the number of a message that had been received
\* when it left, and is young.
AckInv ==
  \A a \in acks :
    /\ a.msg \in 1..numbered /\ numbered - a.msg < Lifetime
    /\ \E m \in 0..received : a.seq = Number(m) /\ m <= a.msg /\ a.msg - m <= MaxSilence

SequencedInv == TypeOK /\ CounterInv /\ LastInv /\ DataInv /\ AckInv /\ LastNotForgotten

-----------------------------------------------------------------------------
\* A number is one of the sequence numbers.
LEMMA NumberType == ASSUME NEW m \in Nat PROVE Number(m) \in Seqs /\ Number(m) = m % MaxSequence
<1>1. 0 + m = m /\ m \in Int
  OBVIOUS
<1> QED
  BY <1>1, Division, NumbersHalve DEF Number, Plus, Seqs

\* The half of the numbers is a natural number.
LEMMA HalfType == HalfMaxSequence \in Nat /\ MaxSequence = 2 * HalfMaxSequence /\ MaxSequence \in Nat \ {0}
  BY NumbersHalve, SMT DEF HalfMaxSequence

\* What is compared with remoteSeq is newer exactly if its message is.
LEMMA NewerIsNewer ==
  ASSUME SequencedInv, NEW p \in data
  PROVE  Newer(p) <=> p.msg > received
<1>1. p.msg \in 1..numbered /\ p.seq = Number(p.msg) /\ numbered - p.msg < Lifetime
  BY DEF SequencedInv, DataInv
<1>2. received \in 0..numbered /\ numbered \in 0..enqueued /\ enqueued \in Nat /\ remoteSeq = Number(received)
      /\ enqueued - received <= MaxSilence
  BY SizesAreNatural DEF SequencedInv, TypeOK, CounterInv
<1>3. p.seq = p.msg % MaxSequence /\ remoteSeq = received % MaxSequence
  BY <1>1, <1>2, NumberType
<1> DEFINE m == p.msg
<1>4. m \in Int /\ received \in Int /\ m - received <= MaxSilence /\ received - m < Lifetime
  BY <1>1, <1>2, SizesAreNatural
<1>5. -HalfMaxSequence <= m - received /\ m - received < HalfMaxSequence
  <2> HIDE DEF m
  <2> QED
    BY <1>4, HalfType, NumbersAreApart, SizesAreNatural
<1>6. Relative(m % MaxSequence, received % MaxSequence) = m - received
  <2> HIDE DEF m
  <2> QED
    BY <1>4, <1>5, RelativeIsDistance
<1> QED
  BY <1>3, <1>4, <1>6 DEF Newer

\* An acknowledgement taken for one of the last packet is one: its message
\* has been delivered.
LEMMA AckIsMeant ==
  ASSUME SequencedInv, lastPacket # NoPacket, NEW a \in acks, Acknowledges(a)
  PROVE  received = numbered
<1>1. lastPacket.seq = Number(numbered) /\ numbered > 0
  BY DEF SequencedInv, LastInv, Repeated
<1>2. PICK m \in 0..received : a.seq = Number(m) /\ m <= a.msg /\ a.msg - m <= MaxSilence
  BY DEF SequencedInv, AckInv
<1>3. a.msg \in 1..numbered /\ numbered - a.msg < Lifetime
  BY DEF SequencedInv, AckInv
<1>4. received \in 0..numbered /\ numbered \in Nat
  BY SizesAreNatural DEF SequencedInv, TypeOK
<1>5. m \in Int /\ numbered \in Int /\ numbered - m < MaxSequence /\ -MaxSequence < numbered - m
  BY <1>2, <1>3, <1>4, NumbersAreApart, SizesAreNatural, HalfType
<1>6. m % MaxSequence = numbered % MaxSequence
  BY <1>1, <1>2, <1>4, NumberType DEF Acknowledges
<1>7. numbered = m
  BY <1>5, <1>6, NumberIsUnique
<1> QED
  BY <1>2, <1>4, <1>7

-----------------------------------------------------------------------------
LEMMA InitInv == Init => SequencedInv
<1> SUFFICES ASSUME Init PROVE SequencedInv
  OBVIOUS
<1>1. Number(0) = 0
  BY NumbersHalve, SMT DEF Number, Plus
<1>2. 0 \in Seqs
  BY HalfType DEF Seqs
<1>3. TypeOK
  <2>1. /\ enqueued = 0 /\ numbered = 0 /\ received = 0 /\ handed = 0 /\ localSequence = 0 /\ remoteSeq = 0
        /\ reliable \in BOOLEAN /\ lastPacket = NoPacket /\ inQueue = FALSE /\ mustSendAck = FALSE
        /\ data = {} /\ acks = {}
    BY DEF Init
  <2>2. 0 \in 0..MaxMessages /\ 0 \in 0..0
    BY SizesAreNatural
  <2>3. {localSequence, remoteSeq} \subseteq Seqs
    BY <1>2, <2>1
  <2> QED
    BY <2>1, <2>2, <2>3 DEF TypeOK
<1>4. CounterInv
  BY <1>1, SizesAreNatural DEF Init, CounterInv
<1> QED
  BY <1>3, <1>4 DEF Init, SequencedInv, LastInv, DataInv, AckInv, LastNotForgotten

\* Packets and numbers are typed.
LEMMA RepeatedType == ASSUME NEW m \in 1..MaxMessages
                      PROVE  Repeated(m) \in Packet /\ [seq |-> Number(m), msg |-> m] \in Packet
  BY NumberType, SizesAreNatural DEF Repeated, Packet

LEMMA SendInv == SequencedInv /\ Send => SequencedInv'
<1> SUFFICES ASSUME SequencedInv, Send PROVE SequencedInv'
  OBVIOUS
<1>1. TypeOK'
  BY SizesAreNatural DEF SequencedInv, TypeOK, Send, receiverVars
<1>2. CounterInv'
  BY SizesAreNatural DEF SequencedInv, TypeOK, CounterInv, Send, receiverVars, Number
<1>3. LastInv' /\ DataInv' /\ AckInv' /\ LastNotForgotten'
  BY DEF SequencedInv, LastInv, DataInv, AckInv, LastNotForgotten, Send, receiverVars, Number, Repeated
<1> QED
  BY <1>1, <1>2, <1>3 DEF SequencedInv

LEMMA SendOutgoingInv == SequencedInv /\ SendOutgoing => SequencedInv'
<1> SUFFICES ASSUME SequencedInv, SendOutgoing PROVE SequencedInv'
  OBVIOUS
<1>1. enqueued \in 1..MaxMessages /\ numbered' = enqueued /\ numbered \in 0..enqueued /\ enqueued' = enqueued
      /\ received \in 0..numbered /\ received' = received
      /\ handed \in 0..received /\ handed' = handed /\ reliable' = reliable /\ reliable \in BOOLEAN
      /\ enqueued \in Nat /\ numbered \in Nat
  BY SizesAreNatural DEF SequencedInv, TypeOK, SendOutgoing, receiverVars
<1>2. \A p \in data' : \/ p \in data /\ enqueued - p.msg < Lifetime
                       \/ \E m \in numbered + 1 .. enqueued : p = [seq |-> Number(m), msg |-> m] /\ enqueued - m < Lifetime
  BY DEF SendOutgoing, Young
<1>3. \A a \in acks' : a \in acks /\ enqueued - a.msg < Lifetime
  BY DEF SendOutgoing, Young
<1>4. lastPacket' = IF reliable THEN Repeated(enqueued) ELSE NoPacket
  BY DEF SendOutgoing
<1>5. TypeOK'
  <2>1. {localSequence, remoteSeq}' \subseteq Seqs
    BY <1>1, NumberType DEF SequencedInv, TypeOK, SendOutgoing, receiverVars
  <2>2. lastPacket' \in Packet \cup {NoPacket}
    BY <1>1, <1>4, RepeatedType
  <2>3. data' \subseteq Packet
    <3>1. ASSUME NEW m \in numbered + 1 .. enqueued PROVE [seq |-> Number(m), msg |-> m] \in Packet
      <4>1. m \in 1..MaxMessages
        BY <1>1, SizesAreNatural
      <4> QED
        BY <4>1, RepeatedType
    <3> QED
      BY <1>2, <3>1 DEF SequencedInv, TypeOK
  <2>4. acks' \subseteq Packet
    BY <1>3 DEF SequencedInv, TypeOK
  <2>5. inQueue' \in BOOLEAN /\ mustSendAck' \in BOOLEAN
    BY DEF SequencedInv, TypeOK, SendOutgoing, receiverVars
  <2>6. enqueued' \in 0..MaxMessages /\ numbered' \in 0..enqueued' /\ received' \in 0..numbered'
        /\ handed' \in 0..received' /\ reliable' \in BOOLEAN
    BY <1>1, SizesAreNatural
  <2> QED
    BY <2>1, <2>2, <2>3, <2>4, <2>5, <2>6 DEF TypeOK
<1>6. CounterInv'
  BY <1>1 DEF SequencedInv, CounterInv, SendOutgoing, receiverVars, Number
<1>7. LastInv'
  BY <1>1, <1>4 DEF LastInv, Repeated, Number
<1>8. DataInv'
  <2> SUFFICES ASSUME NEW p \in data'
               PROVE  p.msg \in 1..enqueued /\ p.seq = Number(p.msg) /\ enqueued - p.msg < Lifetime
    BY <1>1 DEF DataInv, Number
  <2>1. CASE p \in data /\ enqueued - p.msg < Lifetime
    BY <1>1, <2>1 DEF SequencedInv, DataInv
  <2>2. CASE \E m \in numbered + 1 .. enqueued : p = [seq |-> Number(m), msg |-> m] /\ enqueued - m < Lifetime
    BY <1>1, <2>2
  <2> QED
    BY <1>2, <2>1, <2>2
<1>9. AckInv'
  <2> SUFFICES ASSUME NEW a \in acks'
               PROVE  /\ a.msg \in 1..enqueued /\ enqueued - a.msg < Lifetime
                      /\ \E m \in 0..received : a.seq = Number(m) /\ m <= a.msg /\ a.msg - m <= MaxSilence
    BY <1>1 DEF AckInv, Number
  <2>1. a \in acks /\ enqueued - a.msg < Lifetime
    BY <1>3
  <2> QED
    BY <1>1, <2>1 DEF SequencedInv, AckInv
<1>10. LastNotForgotten'
  BY <1>1, <1>4 DEF LastNotForgotten, Repeated
<1> QED
  BY <1>5, <1>6, <1>7, <1>8, <1>9, <1>10 DEF SequencedInv

LEMMA ResendInv == SequencedInv /\ Resend => SequencedInv'
<1> SUFFICES ASSUME SequencedInv, Resend PROVE SequencedInv'
  OBVIOUS
<1>1. TypeOK'
  BY DEF SequencedInv, TypeOK, Resend, receiverVars
<1>2. CounterInv' /\ LastInv' /\ AckInv' /\ LastNotForgotten'
  BY DEF SequencedInv, CounterInv, LastInv, AckInv, LastNotForgotten, Resend, receiverVars, Number, Repeated
<1>3. DataInv'
  <2>1. ASSUME lastPacket # NoPacket
        PROVE  lastPacket.msg \in 1..numbered /\ lastPacket.seq = Number(lastPacket.msg) /\ numbered - lastPacket.msg < Lifetime
    <3>1. lastPacket = Repeated(numbered) /\ numbered > 0 /\ numbered \in Nat
      BY <2>1, SizesAreNatural DEF SequencedInv, LastInv, TypeOK
    <3>2. lastPacket.msg = numbered /\ lastPacket.seq = Number(numbered)
      BY <3>1 DEF Repeated
    <3> QED
      BY <3>1, <3>2, SizesAreNatural
  <2>2. numbered' = numbered /\ \A p \in data' : p \in data \/ (p = lastPacket /\ lastPacket # NoPacket)
    BY DEF Resend
  <2> QED
    BY <2>1, <2>2 DEF SequencedInv, DataInv, Number
<1> QED
  BY <1>1, <1>2, <1>3 DEF SequencedInv

LEMMA ProcessAckInv == SequencedInv /\ (\E a \in acks : ProcessAck(a)) => SequencedInv'
<1> SUFFICES ASSUME SequencedInv, NEW a \in acks, ProcessAck(a) PROVE SequencedInv'
  OBVIOUS
<1>1. received = numbered
  BY AckIsMeant DEF ProcessAck
<1>2. TypeOK' /\ CounterInv' /\ LastInv' /\ DataInv' /\ AckInv'
  BY DEF SequencedInv, TypeOK, CounterInv, LastInv, DataInv, AckInv, ProcessAck, receiverVars, Number, Repeated
<1>3. LastNotForgotten'
  BY <1>1 DEF LastNotForgotten, ProcessAck, receiverVars
<1> QED
  BY <1>2, <1>3 DEF SequencedInv

LEMMA ProcessPacketInv == SequencedInv /\ (\E p \in data : ProcessPacket(p)) => SequencedInv'
<1> SUFFICES ASSUME SequencedInv, NEW p \in data, ProcessPacket(p) PROVE SequencedInv'
  OBVIOUS
<1>1. p.msg \in 1..numbered /\ p.seq = Number(p.msg) /\ p.seq \in Seqs
  BY NumberType, SizesAreNatural DEF SequencedInv, DataInv, TypeOK
<1>2. Newer(p) <=> p.msg > received
  BY NewerIsNewer
<1>3. \/ p.msg > received /\ remoteSeq' = p.seq /\ received' = p.msg /\ handed' = handed + 1
      \/ remoteSeq' = remoteSeq /\ received' = received /\ handed' = handed
  BY <1>2 DEF ProcessPacket
<1>4. UNCHANGED <<reliable, enqueued, numbered, localSequence, lastPacket, inQueue, data, acks>> /\ mustSendAck' \in BOOLEAN
  BY DEF ProcessPacket, senderVars, SequencedInv, TypeOK
<1>5. received \in Nat /\ numbered \in Nat /\ enqueued \in Nat /\ received <= numbered /\ numbered <= enqueued
  BY SizesAreNatural DEF SequencedInv, TypeOK
<1>6. TypeOK'
  <2>1. received' \in 0..numbered /\ handed' \in 0..received'
    BY <1>1, <1>3, <1>5 DEF SequencedInv, TypeOK
  <2> QED
    BY <1>1, <1>3, <1>4, <2>1 DEF SequencedInv, TypeOK
<1>7. CounterInv'
  <2>1. numbered' > 0
    BY <1>1, <1>4, <1>5
  <2> QED
    BY <1>1, <1>3, <1>4, <1>5, <2>1, SizesAreNatural DEF SequencedInv, CounterInv, Number
<1>8. LastInv' /\ DataInv'
  BY <1>4 DEF SequencedInv, LastInv, DataInv, Repeated, Number
<1>9. AckInv'
  <2>1. received' \in Nat /\ received <= received'
    BY <1>1, <1>3, <1>5
  <2> QED
    BY <1>4, <1>5, <2>1 DEF SequencedInv, AckInv, Number
<1>10. LastNotForgotten'
  BY <1>1, <1>3, <1>4, <1>5 DEF SequencedInv, LastNotForgotten
<1> QED
  BY <1>6, <1>7, <1>8, <1>9, <1>10 DEF SequencedInv

LEMMA SendAckInv == SequencedInv /\ SendAck => SequencedInv'
<1> SUFFICES ASSUME SequencedInv, SendAck PROVE SequencedInv'
  OBVIOUS
<1> DEFINE b == [seq |-> remoteSeq, msg |-> numbered]
<1>1. /\ UNCHANGED <<reliable, enqueued, numbered, localSequence, lastPacket, inQueue, remoteSeq, received, handed, data>>
      /\ mustSendAck' = FALSE /\ acks' = acks \cup {b}
  BY DEF SendAck, senderVars
<1>2. received \in 0..numbered /\ numbered \in 1..MaxMessages /\ enqueued \in Nat /\ numbered <= enqueued
      /\ enqueued - received <= MaxSilence /\ remoteSeq = Number(received) /\ remoteSeq \in Seqs
  BY SizesAreNatural DEF SequencedInv, TypeOK, CounterInv, SendAck
<1>3. b \in Packet
  BY <1>2 DEF Packet
<1>4. TypeOK'
  BY <1>1, <1>3 DEF SequencedInv, TypeOK
<1>5. CounterInv' /\ LastInv' /\ DataInv' /\ LastNotForgotten'
  BY <1>1 DEF SequencedInv, CounterInv, LastInv, DataInv, LastNotForgotten, Number, Repeated
<1>6. AckInv'
  <2>1. b.seq = Number(received) /\ b.msg = numbered
    BY <1>2
  <2>2. /\ b.msg \in 1..numbered /\ numbered - b.msg < Lifetime
        /\ \E m \in 0..received : b.seq = Number(m) /\ m <= b.msg /\ b.msg - m <= MaxSilence
    <3>1. received \in 0..received /\ received <= b.msg /\ b.msg - received <= MaxSilence
      BY <1>2, <2>1, SizesAreNatural
    <3>2. b.msg \in 1..numbered /\ numbered - b.msg < Lifetime
      BY <1>2, <2>1, SizesAreNatural
    <3> QED
      BY <2>1, <3>1, <3>2
  <2> QED
    BY <1>1, <2>2 DEF SequencedInv, AckInv, Number
<1> QED
  BY <1>4, <1>5, <1>6 DEF SequencedInv

LEMMA LoseInv == SequencedInv /\ Lose => SequencedInv'
<1> SUFFICES ASSUME SequencedInv, Lose PROVE SequencedInv'
  OBVIOUS
<1>1. /\ UNCHANGED <<reliable, senderVars, receiverVars>>
      /\ data' \subseteq data /\ acks' \subseteq acks
  BY DEF Lose
<1>2. UNCHANGED <<reliable, enqueued, numbered, localSequence, lastPacket, inQueue, remoteSeq, mustSendAck, received, handed>>
  BY <1>1 DEF senderVars, receiverVars
<1>3. TypeOK'
  BY <1>1, <1>2 DEF SequencedInv, TypeOK
<1> QED
  BY <1>1, <1>2, <1>3
     DEF SequencedInv, CounterInv, LastInv, DataInv, AckInv, LastNotForgotten, Number, Repeated

LEMMA NextInv == SequencedInv /\ [Next]_vars => SequencedInv'
<1> SUFFICES ASSUME SequencedInv, [Next]_vars PROVE SequencedInv'
  OBVIOUS
<1>1. CASE Send
  BY <1>1, SendInv
<1>2. CASE SendOutgoing
  BY <1>2, SendOutgoingInv
<1>3. CASE Resend
  BY <1>3, ResendInv
<1>4. CASE SendAck
  BY <1>4, SendAckInv
<1>5. CASE \E p \in data : ProcessPacket(p)
  BY <1>5, ProcessPacketInv
<1>6. CASE \E a \in acks : ProcessAck(a)
  BY <1>6, ProcessAckInv
<1>7. CASE Lose
  BY <1>7, LoseInv
<1>8. CASE UNCHANGED vars
  BY <1>8 DEF vars, senderVars, receiverVars, SequencedInv, TypeOK, CounterInv, LastInv, DataInv, AckInv,
               LastNotForgotten, Number, Repeated
<1> QED
  BY <1>1, <1>2, <1>3, <1>4, <1>5, <1>6, <1>7, <1>8 DEF Next

LEMMA SequencedInvHolds == Spec => []SequencedInv
<1> QED
  BY InitInv, NextInv, PTL DEF Spec

\* The variables keep their types: the numbers of both ends stay below
\* MaxSequence and never run ahead of what has been sent.
THEOREM TypeCorrect == Spec => []TypeOK
<1>1. SequencedInv => TypeOK
  BY DEF SequencedInv
<1> QED
  BY SequencedInvHolds, <1>1, PTL

\* The last packet of a reliable channel is given up only when its message
\* has been delivered (channel.go:379-385).
THEOREM LastIsKept == Spec => []LastNotForgotten
<1>1. SequencedInv => LastNotForgotten
  BY DEF SequencedInv
<1> QED
  BY SequencedInvHolds, <1>1, PTL

-----------------------------------------------------------------------------
\* Each step of the channel is a step of the promise or changes nothing in
\* it.
LEMMA StepRefines == SequencedInv /\ [Next]_vars => [Newest!Next]_Newest!vars
<1> SUFFICES ASSUME SequencedInv, [Next]_vars PROVE [Newest!Next]_Newest!vars
  OBVIOUS
<1>1. CASE Send
  BY <1>1 DEF Send, receiverVars, Newest!Next, Newest!Send
<1>2. CASE SendOutgoing \/ Resend \/ SendAck \/ Lose \/ \E a \in acks : ProcessAck(a)
  BY <1>2 DEF SendOutgoing, Resend, SendAck, Lose, ProcessAck, senderVars, receiverVars, Newest!vars
<1>3. ASSUME NEW p \in data, ProcessPacket(p)
      PROVE  Newest!Deliver \/ UNCHANGED Newest!vars
  <2>1. UNCHANGED <<reliable, enqueued>>
    BY <1>3 DEF ProcessPacket, senderVars
  <2>2. CASE Newer(p)
    <3>1. p.msg > received /\ received' = p.msg /\ handed' = handed + 1
      BY <1>3, <2>2, NewerIsNewer DEF ProcessPacket
    <3>2. received \in Nat /\ p.msg \in 1..numbered /\ numbered \in 0..enqueued /\ enqueued \in Nat
      BY SizesAreNatural DEF SequencedInv, DataInv, TypeOK
    <3>3. received' \in received + 1 .. enqueued
      BY <3>1, <3>2
    <3> QED
      BY <2>1, <3>1, <3>3 DEF Newest!Deliver
  <2>3. CASE ~Newer(p)
    BY <1>3, <2>1, <2>3 DEF ProcessPacket, Newest!vars
  <2> QED
    BY <2>2, <2>3
<1>4. CASE UNCHANGED vars
  BY <1>4 DEF vars, senderVars, receiverVars, Newest!vars
<1> QED
  BY <1>1, <1>2, <1>3, <1>4 DEF Next, Newest!Next

\* The channel implements NewestDelivery: nothing is handed out twice or after a
\* newer message, whatever is lost, late or repeated and however often the numbers
\* wrap (channel.go:387-401).
THEOREM Refines == Spec => DeliversNewest
<1>1. Init => Newest!Init
  BY DEF Init, Newest!Init
<1> QED
  BY <1>1, SequencedInvHolds, StepRefines, PTL DEF Spec, DeliversNewest
=============================================================================
