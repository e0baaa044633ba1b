------------------------ MODULE ReliableChannel_proofs ------------------------
(***************************************************************************)
(* Proofs about ReliableChannel, for every window, every number of         *)
(* sequence numbers and of messages: it implements ReliableDelivery, the   *)
(* windows stay in step, and no packet is given up before it has arrived.  *)
(*                                                                         *)
(* Packets are counted from 0 without wrapping around; s is the count of a *)
(* packet whose message is s + 1.                                          *)
(***************************************************************************)
EXTENDS ReliableChannel, WellFoundedInduction, TLAPS

-----------------------------------------------------------------------------
(* The arithmetic of the sequence numbers: as long as two counters are     *)
(* less than half of the numbers apart, relativeSequence of their numbers  *)
(* is the distance of the counters.                                        *)

\* A multiple of d that is not zero is at least d away from zero.
LEMMA MultiplesAreApart ==
  ASSUME NEW d \in Nat \ {0}, NEW k \in Int, k # 0
  PROVE  d * k >= d \/ d * k <= -d
<1>1. CASE k >= 1
  BY <1>1, SMT
<1>2. CASE k <= -1
  BY <1>2, SMT
<1> QED
  BY <1>1, <1>2

\* Quotient and remainder.
LEMMA Division ==
  ASSUME NEW d \in Nat \ {0}, NEW x \in Int
  PROVE  /\ x % d \in 0..d - 1
         /\ x \div d \in Int
         /\ x = d * (x \div d) + (x % d)
  BY SMT

\* They are unique.
LEMMA Remainder ==
  ASSUME NEW d \in Nat \ {0}, NEW x \in Int, NEW k \in Int, NEW c \in 0..d - 1, x = d * k + c
  PROVE  x % d = c
<1> DEFINE q == x \div d
           r == x % d
<1>1. r \in 0..d - 1 /\ q \in Int /\ x = d * q + r
  BY Division
<1>2. d * (q - k) = c - r
  BY <1>1, SMT
<1>3. q - k = 0
  <2>1. q - k \in Int
    BY <1>1
  <2>2. SUFFICES ASSUME q - k # 0 PROVE FALSE
    OBVIOUS
  <2>3. d * (q - k) >= d \/ d * (q - k) <= -d
    BY <2>1, <2>2, MultiplesAreApart
  <2> HIDE DEF q, r
  <2> QED
    BY <1>1, <1>2, <2>3, SMT
<1>4. c - r = 0
  BY <1>1, <1>2, <1>3, SMT
<1> QED
  BY <1>1, <1>4

\* A remainder names one of d numbers in a row.
LEMMA RemainderIsUnique ==
  ASSUME NEW d \in Nat \ {0}, NEW a \in Int, NEW b \in Int, a % d = b % d, -d < a - b, a - b < d
  PROVE  a = b
<1> DEFINE q == (a \div d) - (b \div d)
<1>1. a % d \in 0..d - 1 /\ a \div d \in Int /\ a = d * (a \div d) + (a % d)
  BY Division
<1>2. b % d \in 0..d - 1 /\ b \div d \in Int /\ b = d * (b \div d) + (b % d)
  BY Division
<1>3. a - b = d * q /\ q \in Int
  BY <1>1, <1>2, SMT
<1>4. q = 0
  <2> HIDE DEF q
  <2> QED
    BY <1>3, MultiplesAreApart, SMT
<1>5. a - b = 0
  BY <1>3, <1>4, SMT
<1> QED
  BY <1>5

\* What is added may be reduced first.
LEMMA RemainderOfSum ==
  ASSUME NEW d \in Nat \ {0}, NEW a \in Int, NEW n \in Int
  PROVE  ((a % d) + n) % d = (a + n) % d
<1> DEFINE q == a \div d
           x == (a % d) + n
           k == x \div d
           c == x % d
           j == q + k
<1>1. a % d \in 0..d - 1 /\ q \in Int /\ a = d * q + (a % d)
  BY Division
<1>2. x \in Int
  BY <1>1
<1>3. c \in 0..d - 1 /\ k \in Int /\ x = d * k + c
  BY <1>2, Division
<1>4. d * j = d * q + d * k /\ j \in Int
  <2>1. q \in Int /\ k \in Int
    BY <1>1, <1>3
  <2> HIDE DEF q, k
  <2> QED
    BY <2>1, SMT
<1>5. a + n = d * j + c
  <2> DEFINE ra == a % d
             mq == d * q
             mk == d * k
             mj == d * j
  <2>1. a = mq + ra /\ ra + n = mk + c /\ mj = mq + mk /\ ra \in Int /\ mq \in Int /\ mk \in Int /\ c \in Int
    BY <1>1, <1>3, <1>4
  <2> HIDE DEF ra, mq, mk, mj, c
  <2>2. a + n = mj + c
    BY <2>1, SMT
  <2> QED
    BY <2>2 DEF mj
<1>6. c \in 0..d - 1 /\ j \in Int /\ a + n \in Int
  BY <1>3, <1>4
<1> HIDE DEF c, j
<1>7. (a + n) % d = c
  BY <1>5, <1>6, Remainder
<1> QED
  BY <1>7 DEF c

\* relativeSequence gives the distance of two counters from their numbers.
THEOREM RelativeIsDistance ==
  ASSUME NEW a \in Int, NEW b \in Int,
         -HalfMaxSequence <= a - b, a - b < HalfMaxSequence
  PROVE  Relative(a % MaxSequence, b % MaxSequence) = a - b
<1> DEFINE h  == HalfMaxSequence
           qa == a \div MaxSequence
           qb == b \div MaxSequence
           x  == (a % MaxSequence) - (b % MaxSequence) + MaxSequence + h
           c  == a - b + h
           k  == qb - qa + 1
<1> USE NumbersHalve DEF Seqs
<1>1. a % MaxSequence \in Seqs /\ qa \in Int /\ a = MaxSequence * qa + (a % MaxSequence)
  BY Division
<1>2. b % MaxSequence \in Seqs /\ qb \in Int /\ b = MaxSequence * qb + (b % MaxSequence)
  BY Division
<1>3. h \in Nat /\ MaxSequence = 2 * h /\ MaxSequence \in Nat \ {0}
  BY NumbersHalve, SMT DEF HalfMaxSequence
<1>4. MaxSequence * k = MaxSequence * qb - MaxSequence * qa + MaxSequence /\ k \in Int
  <2>1. qa \in Int /\ qb \in Int /\ MaxSequence \in Int
    BY <1>1, <1>2, <1>3
  <2> HIDE DEF qa, qb
  <2> QED
    BY <2>1, SMT
<1>5. x = MaxSequence * k + c /\ x \in Int
  <2> DEFINE ra == a % MaxSequence
             rb == b % MaxSequence
             ma == MaxSequence * qa
             mb == MaxSequence * qb
             mk == MaxSequence * k
  <2>1. ra \in Int /\ rb \in Int /\ ma \in Int /\ mb \in Int /\ h \in Int /\ MaxSequence \in Int
    BY <1>1, <1>2, <1>3, SMT DEF Seqs
  <2>2. a = ma + ra /\ b = mb + rb /\ mk = mb - ma + MaxSequence
    BY <1>1, <1>2, <1>4
  <2>3. x = ra - rb + MaxSequence + h
    OBVIOUS
  <2> HIDE DEF ra, rb, ma, mb, mk, h, x, qa, qb, k
  <2>4. x = mk + (a - b + h) /\ x \in Int
    BY <2>1, <2>2, <2>3, SMT
  <2> QED
    BY <2>4 DEF mk
<1>6. c \in Seqs
  BY <1>3, SMT DEF Seqs
<1>7. x % MaxSequence = c
  BY <1>4, <1>5, <1>6, Remainder
<1> QED
  BY <1>7, <1>3 DEF Relative

-----------------------------------------------------------------------------
(* The invariant.                                                          *)

Num(s)  == s % MaxSequence
Slot(s) == s % WindowSize

PacketOf(s) == [seq |-> Num(s), msg |-> s + 1]

\* Packet s has arrived, if the receiver waits for packet r.
HasCome(r, s) == s < r \/ held[Slot(s)] = s + 1

\* The numbers are those of the counters: the sender's window starts at l,
\* the receiver waits for r, and its own window starts at v.
Counters(l, r, v) ==
  /\ v <= l /\ l <= r /\ r <= entered
  /\ entered <= l + WindowSize /\ r <= v + WindowSize
  /\ localSequence = Num(entered) /\ localWindow = Num(l)
  /\ remoteSequence = Num(r) /\ remoteWindow = Num(v) /\ ackStart = Num(v)

\* What is held came early and lies in the receiver's window.
HeldInv(r, v) ==
  \A i \in Index :
    held[i] # None =>
      \E s \in r + 1 .. v + WindowSize - 1 : s < entered /\ Slot(s) = i /\ held[i] = s + 1

\* The bits say what has arrived.
BitsInv(r, v) == \A s \in v .. v + WindowSize - 1 : Slot(s) \in ackBits <=> HasCome(r, s)

\* What is pending lies in the sender's window.
PendingInv(l) ==
  \A i \in Index :
    pending[i] # NoPacket => \E s \in l .. entered - 1 : Slot(s) = i /\ pending[i] = PacketOf(s)

\* In the sender's window everything has arrived or is pending.
OwedInv(l, r) == \A s \in l .. entered - 1 : HasCome(r, s) \/ pending[Slot(s)] = PacketOf(s)

\* A packet that travels is one that has entered, not too long ago.
DataInv == \A p \in data : \E s \in 0 .. entered - 1 : p = PacketOf(s) /\ entered - s <= Lifetime

\* An acknowledgement that travels is young and claims nothing that has not
\* arrived.
AckInv(r, v) ==
  \A a \in acks :
    /\ a.born <= entered /\ entered - a.born < Lifetime
    /\ \E w \in 0..v :
         /\ a.start = Num(w) /\ a.born <= w + 2 * WindowSize
         /\ \A s \in w .. w + WindowSize - 1 : Slot(s) \in a.bits => HasCome(r, s)

\* What is delivered is what has arrived, in an ordered channel without gap.
DeliveredInv(r) ==
  /\ ordered  => Len(delivered) = r /\ \A i \in 1..r : delivered[i] = i
  /\ ~ordered => \A m \in 1..MaxMessages :
                   (\E i \in 1..Len(delivered) : delivered[i] = m) <=> HasCome(r, m - 1)

InvAt(l, r, v) ==
  /\ Counters(l, r, v) /\ HeldInv(r, v) /\ BitsInv(r, v) /\ PendingInv(l) /\ OwedInv(l, r)
  /\ DataInv /\ AckInv(r, v) /\ DeliveredInv(r)

ReliableInv == TypeOK /\ \E l, r, v \in 0..entered : InvAt(l, r, v)

-----------------------------------------------------------------------------
(* Numbers and indices of the packets.                                     *)

\* The sizes, and how far the counters may be apart.
LEMMA Sizes ==
  /\ WindowSize \in Nat \ {0} /\ Lifetime \in Nat /\ MaxMessages \in Nat
  /\ MaxSequence \in Nat \ {0} /\ HalfMaxSequence \in Nat
  /\ MaxSequence = HalfMaxSequence + HalfMaxSequence
  /\ WindowSize <= Lifetime /\ Lifetime + WindowSize <= HalfMaxSequence
<1>1. HalfMaxSequence \in Nat /\ MaxSequence = 2 * HalfMaxSequence /\ MaxSequence \in Nat \ {0}
  BY NumbersHalve, SMT DEF HalfMaxSequence
<1> QED
  BY <1>1, SizesArePositive, WindowsAreApart, PacketsOutliveWindow

LEMMA NumType == ASSUME NEW s \in Int PROVE Num(s) \in Seqs
  BY Sizes, Division DEF Num, Seqs

LEMMA SlotType == ASSUME NEW s \in Int PROVE Slot(s) \in Index
  BY Sizes, Division DEF Slot, Index

\* A number names one packet among MaxSequence, an index one in a window.
LEMMA NumIsUnique ==
  ASSUME NEW s \in Int, NEW t \in Int, Num(s) = Num(t), s - t < MaxSequence, t - s < MaxSequence
  PROVE  s = t
<1>1. -MaxSequence < s - t
  BY Sizes
<1> QED
  BY <1>1, Sizes, RemainderIsUnique DEF Num

LEMMA SlotIsUnique ==
  ASSUME NEW s \in Int, NEW t \in Int, Slot(s) = Slot(t), s - t < WindowSize, t - s < WindowSize
  PROVE  s = t
<1>1. -WindowSize < s - t
  BY Sizes
<1> QED
  BY <1>1, Sizes, RemainderIsUnique DEF Slot

\* One window later the index is the same.
LEMMA SlotAgain == ASSUME NEW s \in Int PROVE Slot(s + WindowSize) = Slot(s)
<1>1. /\ s % WindowSize \in 0..WindowSize - 1 /\ s \div WindowSize \in Int
      /\ s = WindowSize * (s \div WindowSize) + (s % WindowSize)
  BY Sizes, Division
<1> DEFINE q == s \div WindowSize
           r == s % WindowSize
           k == q + 1
<1>2. k \in Int /\ s + WindowSize = WindowSize * k + r
  <2>1. q \in Int /\ r \in Int /\ s = WindowSize * q + r /\ WindowSize \in Int
    BY <1>1, Sizes
  <2> HIDE DEF q, r
  <2> QED
    BY <2>1, SMT
<1>3. r \in 0..WindowSize - 1 /\ s + WindowSize \in Int
  BY <1>1, Sizes
<1> HIDE DEF r, k
<1>4. (s + WindowSize) % WindowSize = r
  BY <1>2, <1>3, Sizes, Remainder
<1> QED
  BY <1>4 DEF Slot, r

\* The code counts on from a number.
LEMMA PlusNum == ASSUME NEW s \in Int, NEW n \in Int PROVE Plus(Num(s), n) = Num(s + n)
  BY Sizes, RemainderOfSum DEF Plus, Num

\* ... and backwards, by adding MaxSequence first.
LEMMA PlusBack == ASSUME NEW s \in Int, NEW n \in Int PROVE Plus(Num(s), MaxSequence + n) = Num(s + n)
<1>1. Plus(Num(s), MaxSequence + n) = Num((s + n) + MaxSequence)
  <2>1. s + (MaxSequence + n) = (s + n) + MaxSequence /\ MaxSequence + n \in Int
    BY Sizes
  <2> QED
    BY <2>1, PlusNum
<1> DEFINE t == s + n
           q == t \div MaxSequence
           r == t % MaxSequence
           k == q + 1
<1>2. t \in Int /\ r \in 0..MaxSequence - 1 /\ q \in Int /\ t = MaxSequence * q + r
  <2>1. t \in Int
    OBVIOUS
  <2> HIDE DEF t
  <2> QED
    BY <2>1, Sizes, Division
<1>3. k \in Int /\ t + MaxSequence = MaxSequence * k + r
  <2>1. MaxSequence \in Int /\ r \in Int
    BY <1>2, Sizes
  <2> HIDE DEF q, r, t
  <2> QED
    BY <1>2, <2>1, SMT
<1>4. t + MaxSequence \in Int
  BY <1>2, Sizes
<1> HIDE DEF r, k, t
<1>5. (t + MaxSequence) % MaxSequence = r
  BY <1>2, <1>3, <1>4, Sizes, Remainder
<1> QED
  BY <1>1, <1>5 DEF Num, r, t

\* A number has the index of its packet, as windows wrap evenly.
LEMMA AtNum == ASSUME NEW s \in Int PROVE At(Num(s)) = Slot(s)
<1> DEFINE w == WindowSize
           m == MaxSequence
           e == m \div w
           q == s \div m
           r == s % m
           a == r \div w
           c == r % w
           k == q * e + a
<1>1. w \in Nat \ {0} /\ m \in Nat \ {0} /\ m % w = 0
  BY Sizes, ArraysWrapEvenly
<1>2. e \in Int /\ m = w * e
  BY <1>1, Division, SMT
<1>3. q \in Int /\ r \in Int /\ s = m * q + r
  BY <1>1, Division, SMT
<1>4. a \in Int /\ c \in 0..w - 1 /\ r = w * a + c
  BY <1>1, <1>3, Division
<1>5. k \in Int /\ s = w * k + c
  <2> HIDE DEF w, m, e, q, r, a, c
  <2>1. w \in Int /\ c \in Int
    BY <1>1, <1>4
  <2>2. s = (w * e) * q + (w * a + c)
    BY <1>2, <1>3, <1>4
  <2>3. (w * e) * q = w * (q * e) /\ w * (q * e) + w * a = w * (q * e + a)
        /\ q * e \in Int /\ w * (q * e) \in Int /\ w * a \in Int
    BY <1>2, <1>3, <1>4, <2>1, SMT
  <2> QED
    BY <2>1, <2>2, <2>3, <1>4, SMT
<1> HIDE DEF k, c
<1>6. s % w = c
  BY <1>1, <1>4, <1>5, Remainder
<1> QED
  BY <1>6 DEF At, Num, Slot, c

\* relativeSequence gives the distance of packets that are near each other.
LEMMA RelativeNum ==
  ASSUME NEW s \in Int, NEW t \in Int, s - t < HalfMaxSequence, t - s <= HalfMaxSequence
  PROVE  Relative(Num(s), Num(t)) = s - t
<1>1. -HalfMaxSequence <= s - t
  BY Sizes
<1> QED
  BY <1>1, RelativeIsDistance DEF Num

\* If they are farther apart the result is negative.
LEMMA RelativeFar ==
  ASSUME NEW s \in Int, NEW t \in Int, HalfMaxSequence <= s - t, s - t < MaxSequence
  PROVE  Relative(Num(s), Num(t)) < 0
<1> DEFINE u == t + MaxSequence
<1>1. u \in Int /\ s - u < HalfMaxSequence /\ u - s <= HalfMaxSequence /\ s - u < 0
  BY Sizes
<1>2. Num(u) = Num(t)
  <2>1. t + 0 = t /\ MaxSequence + 0 = MaxSequence /\ MaxSequence \in Int
    BY Sizes
  <2>2. Plus(Num(t), MaxSequence) = Num(u)
    BY <2>1, PlusNum
  <2>3. Plus(Num(t), MaxSequence + 0) = Num(t + 0)
    BY PlusBack
  <2> QED
    BY <2>1, <2>2, <2>3
<1> HIDE DEF u
<1>3. Relative(Num(s), Num(u)) = s - u
  BY <1>1, RelativeNum
<1> QED
  BY <1>1, <1>2, <1>3

\* A set of numbers that is not empty has a least one.
LEMMA LeastMember ==
  ASSUME NEW S, S \subseteq Nat, S # {}
  PROVE  \E n \in S : \A m \in S : n <= m
<1> DEFINE R == OpToRel(<, Nat)
<1>1. IsWellFoundedOn(R, Nat)
  BY NatLessThanWellFounded
<1> HIDE DEF R
<1>2. PICK n \in S : \A m \in S : ~ (<<m, n>> \in R)
  BY <1>1, WFMin
<1>3. \A k, m \in Nat : <<m, k>> \in R <=> m < k
  BY DEF R, OpToRel
<1>4. ASSUME NEW m \in S
      PROVE  n <= m
  <2>1. n \in Nat /\ m \in Nat /\ ~ (m < n)
    BY <1>2, <1>3
  <2> QED
    BY <2>1
<1> QED
  BY <1>4

-----------------------------------------------------------------------------
(* What the invariant says of single packets.                              *)

\* The counters are natural numbers.
LEMMA CounterTypes ==
  ASSUME TypeOK, NEW l \in 0..entered, NEW r \in 0..entered, NEW v \in 0..entered
  PROVE  /\ entered \in Nat /\ sent \in Nat /\ entered <= sent /\ sent <= MaxMessages
         /\ l \in Nat /\ r \in Nat /\ v \in Nat
  BY Sizes DEF TypeOK

\* A message held in the window of the receiver is the one that belongs there.
LEMMA HeldIsMeant ==
  ASSUME TypeOK, NEW l \in 0..entered, NEW r \in 0..entered, NEW v \in 0..entered,
         Counters(l, r, v), HeldInv(r, v),
         NEW s \in Nat, r <= s, s <= r + WindowSize, held[Slot(s)] # None
  PROVE  held[Slot(s)] = s + 1 /\ r < s /\ s < v + WindowSize /\ s < entered
<1>1. Slot(s) \in Index
  BY SlotType
<1>2. PICK t \in r + 1 .. v + WindowSize - 1 : t < entered /\ Slot(t) = Slot(s) /\ held[Slot(s)] = t + 1
  BY <1>1 DEF HeldInv
<1>3. v <= r /\ r \in Nat /\ v \in Nat /\ WindowSize \in Nat \ {0} /\ t \in Nat /\ r < t /\ t < v + WindowSize
  BY <1>2, CounterTypes, Sizes DEF Counters
<1>4. s = t
  <2>1. s \in Int /\ t \in Int /\ s - t < WindowSize /\ t - s < WindowSize
    BY <1>3
  <2> QED
    BY <1>2, <2>1, SlotIsUnique
<1> QED
  BY <1>2, <1>3, <1>4

\* What has arrived early is held, and lies in the window.
LEMMA EarlyIsHeld ==
  ASSUME TypeOK, NEW l \in 0..entered, NEW r \in 0..entered, NEW v \in 0..entered,
         Counters(l, r, v), HeldInv(r, v), NEW s \in Nat, r <= s, HasCome(r, s)
  PROVE  held[Slot(s)] = s + 1 /\ r < s /\ s < v + WindowSize /\ s < entered
<1>1. r \in Nat /\ v \in Nat /\ WindowSize \in Nat \ {0}
  BY CounterTypes, Sizes
<1>2. held[Slot(s)] = s + 1 /\ held[Slot(s)] # None
  BY <1>1 DEF HasCome, None
<1>3. Slot(s) \in Index
  BY SlotType
<1>4. PICK t \in r + 1 .. v + WindowSize - 1 : t < entered /\ held[Slot(s)] = t + 1
  BY <1>2, <1>3 DEF HeldInv
<1> QED
  BY <1>1, <1>2, <1>4

\* Packets are typed.
LEMMA PacketType ==
  ASSUME NEW s \in Nat, s < MaxMessages
  PROVE  PacketOf(s) \in Packet /\ PacketOf(s) # NoPacket /\ PacketOf(s).seq = Num(s)
         /\ PacketOf(s).msg = s + 1
<1>1. Num(s) \in 0..MaxSequence - 1 /\ s + 1 \in 1..MaxMessages /\ s + 1 # None
  BY NumType, Sizes DEF Seqs, None
<1> QED
  BY <1>1 DEF PacketOf, Packet, NoPacket

-----------------------------------------------------------------------------
(* The invariant is inductive.                                             *)

LEMMA InitInv == Init => ReliableInv
<1> SUFFICES ASSUME Init PROVE ReliableInv
  OBVIOUS
<1>1. /\ ordered \in BOOLEAN /\ sent = 0 /\ entered = 0 /\ localSequence = 0 /\ localWindow = 0
      /\ pending = [i \in Index |-> NoPacket] /\ inQueue = FALSE
      /\ remoteSequence = 0 /\ remoteWindow = 0 /\ ackStart = 0 /\ ackBits = {}
      /\ held = [i \in Index |-> None] /\ mustSendAcks = FALSE /\ delivered = <<>>
      /\ data = {} /\ acks = {}
  BY DEF Init
<1>2. Num(0) = 0
  <2>1. 0 = MaxSequence * 0 + 0 /\ 0 \in 0..MaxSequence - 1
    BY Sizes, SMT
  <2> QED
    BY <2>1, Sizes, Remainder DEF Num
<1>3. TypeOK
  <2>1. {localSequence, localWindow, remoteSequence, remoteWindow, ackStart} \subseteq Seqs
    BY <1>1, <1>2, NumType
  <2>2. held \in [Index -> 0..MaxMessages] /\ pending \in [Index -> Packet \cup {NoPacket}]
    BY <1>1, Sizes DEF None
  <2>3. sent \in 0..MaxMessages /\ entered \in 0..sent
    BY <1>1, Sizes
  <2>4. delivered \in Seq(1..MaxMessages)
    BY <1>1
  <2> QED
    BY <1>1, <2>1, <2>2, <2>3, <2>4 DEF TypeOK
<1>4. Counters(0, 0, 0)
  BY <1>1, <1>2, Sizes DEF Counters
<1>5. \A s \in Nat : held[Slot(s)] = None
  BY <1>1, SlotType
<1>6. \A s \in Nat : ~ HasCome(0, s)
  BY <1>5 DEF HasCome, None
<1>7. HeldInv(0, 0) /\ PendingInv(0)
  BY <1>1 DEF HeldInv, PendingInv
<1>8. BitsInv(0, 0) /\ OwedInv(0, 0)
  BY <1>1, <1>6, Sizes DEF BitsInv, OwedInv
<1>9. DataInv /\ AckInv(0, 0)
  BY <1>1 DEF DataInv, AckInv
<1>10. DeliveredInv(0)
  <2>1. Len(delivered) = 0
    BY <1>1
  <2>2. \A m \in 1..MaxMessages : ~ HasCome(0, m - 1)
    BY <1>6, Sizes
  <2> QED
    BY <2>1, <2>2 DEF DeliveredInv
<1>11. 0 \in 0..entered
  BY <1>1
<1> QED
  BY <1>3, <1>4, <1>7, <1>8, <1>9, <1>10, <1>11 DEF ReliableInv, InvAt

\* A message enqueued changes nothing the invariant speaks about.
LEMMA SendInv == ReliableInv /\ Send => ReliableInv'
<1> SUFFICES ASSUME ReliableInv, Send PROVE ReliableInv'
  OBVIOUS
<1>1. PICK l \in 0..entered, r \in 0..entered, v \in 0..entered : InvAt(l, r, v)
  BY DEF ReliableInv
<1>2. /\ sent < MaxMessages /\ sent' = sent + 1 /\ inQueue' = TRUE
      /\ UNCHANGED <<ordered, entered, localSequence, localWindow, pending, receiverVars, data, acks>>
  BY DEF Send
<1>3. TypeOK'
  BY <1>2, Sizes DEF ReliableInv, TypeOK, receiverVars
<1>4. InvAt(l, r, v)'
  BY <1>1, <1>2 DEF InvAt, Counters, HeldInv, BitsInv, PendingInv, OwedInv, DataInv, AckInv,
                    DeliveredInv, HasCome, receiverVars
<1> QED
  BY <1>2, <1>3, <1>4 DEF ReliableInv

\* A datagram less changes nothing either.
LEMMA LoseInv == ReliableInv /\ Lose /\ UNCHANGED <<ordered, senderVars, receiverVars>> => ReliableInv'
<1> SUFFICES ASSUME ReliableInv, Lose, UNCHANGED <<ordered, senderVars, receiverVars>> PROVE ReliableInv'
  OBVIOUS
<1>1. PICK l \in 0..entered, r \in 0..entered, v \in 0..entered : InvAt(l, r, v)
  BY DEF ReliableInv
<1>2. data' \subseteq data /\ acks' \subseteq acks
  BY DEF Lose
<1>3. TypeOK'
  BY <1>2 DEF ReliableInv, TypeOK, senderVars, receiverVars
<1>4. DataInv' /\ AckInv(r, v)'
  BY <1>1, <1>2 DEF InvAt, DataInv, AckInv, HasCome, senderVars, receiverVars
<1>5. InvAt(l, r, v)'
  BY <1>1, <1>4 DEF InvAt, Counters, HeldInv, BitsInv, PendingInv, OwedInv,
                    DeliveredInv, HasCome, senderVars, receiverVars
<1> QED
  BY <1>3, <1>5 DEF ReliableInv, senderVars

\* The acknowledgement says what has arrived now.
LEMMA SendAcksInv == ReliableInv /\ SendAcks => ReliableInv'
<1> SUFFICES ASSUME ReliableInv, SendAcks PROVE ReliableInv'
  OBVIOUS
<1>1. PICK l \in 0..entered, r \in 0..entered, v \in 0..entered : InvAt(l, r, v)
  BY DEF ReliableInv
<1>2. TypeOK
  BY DEF ReliableInv
<1> DEFINE new == [start |-> ackStart, bits |-> ackBits, born |-> entered]
<1>3. /\ mustSendAcks' = FALSE /\ acks' = acks \cup {new}
      /\ UNCHANGED <<ordered, senderVars, remoteSequence, remoteWindow, ackStart, ackBits, held,
                     delivered, data>>
  BY DEF SendAcks
<1>4. entered \in Nat /\ v \in Nat /\ WindowSize \in Nat \ {0} /\ Lifetime \in Nat /\ WindowSize <= Lifetime
      /\ entered <= MaxMessages /\ r <= v + WindowSize /\ l <= r /\ entered <= l + WindowSize
      /\ r \in Nat /\ l \in Nat /\ MaxMessages \in Nat
  BY <1>1, <1>2, CounterTypes, Sizes DEF InvAt, Counters
<1>5. TypeOK'
  <2>1. new \in [start : Seqs, bits : SUBSET Index, born : 0..MaxMessages]
    BY <1>2, <1>4 DEF TypeOK
  <2> HIDE DEF new
  <2> QED
    BY <1>2, <1>3, <2>1 DEF TypeOK, senderVars
<1>6. AckInv(r, v)'
  <2>1. /\ new.born = entered /\ new.start = Num(v)
        /\ \A s \in v .. v + WindowSize - 1 : Slot(s) \in new.bits => HasCome(r, s)
    BY <1>1 DEF InvAt, Counters, BitsInv
  <2>2. /\ new.born <= entered /\ entered - new.born < Lifetime
        /\ v \in 0..v /\ new.born <= v + 2 * WindowSize
    BY <1>4, <2>1
  <2> HIDE DEF new
  <2>3. \A s : HasCome(r, s)' <=> HasCome(r, s)
    BY <1>3 DEF HasCome
  <2> QED
    BY <1>1, <1>3, <2>1, <2>2, <2>3 DEF InvAt, AckInv, senderVars
<1>7. InvAt(l, r, v)'
  BY <1>1, <1>3, <1>6 DEF InvAt, Counters, HeldInv, BitsInv, PendingInv, OwedInv, DataInv,
                          DeliveredInv, HasCome, senderVars
<1> QED
  BY <1>3, <1>5, <1>7 DEF ReliableInv, senderVars

\* The packets that enter are the next ones, and the window has room.
LEMMA EnteringPackets ==
  ASSUME TypeOK, NEW l \in 0..entered, NEW r \in 0..entered, NEW v \in 0..entered, Counters(l, r, v)
  PROVE  /\ Fitting \in Nat /\ entered + Fitting <= sent /\ entered + Fitting <= l + WindowSize
         /\ \A p : p \in Entering <=> \E s \in entered .. (entered + Fitting) - 1 : p = PacketOf(s)
<1>1. /\ entered \in Nat /\ l \in Nat /\ l <= entered /\ entered <= l + WindowSize
      /\ sent \in Nat /\ entered <= sent
      /\ localSequence = Num(entered) /\ localWindow = Num(l)
  BY CounterTypes DEF Counters
<1>2. Room = WindowSize - (entered - l)
  <2>1. Relative(Num(entered), Num(l)) = entered - l
    BY <1>1, Sizes, RelativeNum
  <2> QED
    BY <1>1, <2>1 DEF Room
<1>3. Fitting \in Nat /\ entered + Fitting <= sent /\ entered + Fitting <= l + WindowSize
  BY <1>1, <1>2, Sizes DEF Fitting
<1>4. ASSUME NEW i \in 1..Fitting
      PROVE  [seq |-> Plus(localSequence, i - 1), msg |-> entered + i] = PacketOf(entered + i - 1)
  <2>1. i - 1 \in Int /\ entered + (i - 1) = entered + i - 1 /\ (entered + i - 1) + 1 = entered + i
    BY <1>1, <1>3
  <2>2. Plus(localSequence, i - 1) = Num(entered + i - 1)
    BY <1>1, <2>1, PlusNum
  <2> QED
    BY <2>1, <2>2 DEF PacketOf
<1>5. ASSUME NEW p, p \in Entering
      PROVE  \E s \in entered .. (entered + Fitting) - 1 : p = PacketOf(s)
  <2>1. PICK i \in 1..Fitting : p = [seq |-> Plus(localSequence, i - 1), msg |-> entered + i]
    BY <1>5 DEF Entering
  <2>2. entered + i - 1 \in entered .. (entered + Fitting) - 1
    BY <1>1, <1>3
  <2> QED
    BY <1>4, <2>1, <2>2
<1>6. ASSUME NEW s \in entered .. (entered + Fitting) - 1
      PROVE  PacketOf(s) \in Entering
  <2> DEFINE i == s - entered + 1
  <2>1. i \in 1..Fitting /\ entered + i - 1 = s
    BY <1>1, <1>3
  <2> HIDE DEF i
  <2> QED
    BY <1>4, <2>1 DEF Entering
<1> QED
  BY <1>3, <1>5, <1>6

\* The packets that enter take the free places of the window; everything
\* that is sent is young.
LEMMA SendNextPacketsInv == ReliableInv /\ SendNextPackets => ReliableInv'
<1> SUFFICES ASSUME ReliableInv, SendNextPackets PROVE ReliableInv'
  OBVIOUS
<1>1. PICK l \in 0..entered, r \in 0..entered, v \in 0..entered : InvAt(l, r, v)
  BY DEF ReliableInv
<1>2. TypeOK /\ Counters(l, r, v)
  BY <1>1 DEF ReliableInv, InvAt
<1> DEFINE n      == entered + Fitting
           filled == [i \in Index |-> IF \E p \in Entering : At(p.seq) = i
                                      THEN CHOOSE p \in Entering : At(p.seq) = i
                                      ELSE pending[i]]
           waiting == {pending[i] : i \in Index} \ {NoPacket}
<1>3. PICK again \in SUBSET waiting :
        data' = {p \in data : n - p.msg < Lifetime} \cup Entering \cup again
  BY DEF SendNextPackets
<1>4. /\ entered' = n /\ localSequence' = Plus(localSequence, n - entered) /\ pending' = filled
      /\ acks' = {a \in acks : n - a.born < Lifetime}
      /\ inQueue' \in BOOLEAN
      /\ UNCHANGED <<ordered, sent, localWindow, receiverVars>>
  BY DEF SendNextPackets, Unfinished
<1>5. UNCHANGED <<remoteSequence, remoteWindow, ackStart, ackBits, held, mustSendAcks, delivered>>
  BY <1>4 DEF receiverVars
<1>6. /\ Fitting \in Nat /\ n <= sent /\ n <= l + WindowSize
      /\ \A p : p \in Entering <=> \E s \in entered .. n - 1 : p = PacketOf(s)
  BY <1>1, <1>2, EnteringPackets
<1>7. /\ entered \in Nat /\ n \in Nat /\ entered <= n /\ n <= MaxMessages /\ sent <= MaxMessages /\ sent \in Nat
      /\ l \in Nat /\ r \in Nat /\ v \in Nat /\ WindowSize \in Nat \ {0} /\ MaxMessages \in Nat
      /\ Lifetime \in Nat /\ WindowSize <= Lifetime
  BY <1>2, <1>6, CounterTypes, Sizes
<1> HIDE DEF n
<1>8. \A s \in entered .. n - 1 :
        PacketOf(s) \in Packet /\ PacketOf(s) # NoPacket /\ At(PacketOf(s).seq) = Slot(s) /\ PacketOf(s).msg = s + 1
  BY <1>7, PacketType, AtNum
<1>9. \A s \in entered .. n - 1 : filled[Slot(s)] = PacketOf(s)
  <2> SUFFICES ASSUME NEW s \in entered .. n - 1 PROVE filled[Slot(s)] = PacketOf(s)
    OBVIOUS
  <2>1. Slot(s) \in Index
    BY SlotType
  <2>2. PacketOf(s) \in Entering /\ At(PacketOf(s).seq) = Slot(s)
    BY <1>6, <1>8
  <2>3. ASSUME NEW p \in Entering, At(p.seq) = Slot(s)
        PROVE  p = PacketOf(s)
    <3>1. PICK t \in entered .. n - 1 : p = PacketOf(t)
      BY <1>6
    <3>2. Slot(t) = Slot(s)
      BY <1>8, <2>3, <3>1
    <3>3. t = s
      <4>1. t \in Int /\ s \in Int /\ s - t < WindowSize /\ t - s < WindowSize
        BY <1>6, <1>7
      <4> QED
        BY <3>2, <4>1, SlotIsUnique
    <3> QED
      BY <3>1, <3>3
  <2> DEFINE chosen == CHOOSE p \in Entering : At(p.seq) = Slot(s)
  <2>4. chosen \in Entering /\ At(chosen.seq) = Slot(s)
    BY <2>2
  <2>5. filled[Slot(s)] = chosen
    BY <2>1, <2>2
  <2> HIDE DEF chosen, filled
  <2> QED
    BY <2>3, <2>4, <2>5
<1>10. \A i \in Index : filled[i] = pending[i] \/ \E s \in entered .. n - 1 : Slot(s) = i /\ filled[i] = PacketOf(s)
  <2> SUFFICES ASSUME NEW i \in Index, filled[i] # pending[i]
               PROVE  \E s \in entered .. n - 1 : Slot(s) = i /\ filled[i] = PacketOf(s)
    OBVIOUS
  <2>1. PICK p \in Entering : At(p.seq) = i
    OBVIOUS
  <2>2. PICK s \in entered .. n - 1 : p = PacketOf(s)
    BY <1>6
  <2>3. Slot(s) = i
    BY <1>8, <2>1, <2>2
  <2> HIDE DEF filled
  <2> QED
    BY <1>9, <2>3
<1>11. \A i \in Index : (\A s \in entered .. n - 1 : Slot(s) # i) => filled[i] = pending[i]
  <2> HIDE DEF filled
  <2> QED
    BY <1>10
<1> HIDE DEF filled
<1>12. filled \in [Index -> Packet \cup {NoPacket}]
  <2>1. \A i \in Index : filled[i] \in Packet \cup {NoPacket}
    BY <1>2, <1>8, <1>10 DEF TypeOK
  <2>2. DOMAIN filled = Index /\ filled = [i \in Index |-> filled[i]]
    BY DEF filled
  <2> QED
    BY <2>1, <2>2
<1>13. \A p \in again : \E s \in l .. entered - 1 : p = PacketOf(s)
  BY <1>1 DEF InvAt, PendingInv
<1>14. DataInv'
  <2> SUFFICES ASSUME NEW p \in data'
               PROVE  \E s \in 0 .. n - 1 : p = PacketOf(s) /\ n - s <= Lifetime
    BY <1>4 DEF DataInv
  <2>1. CASE p \in data /\ n - p.msg < Lifetime
    <3>1. PICK s \in 0 .. entered - 1 : p = PacketOf(s)
      BY <1>1, <2>1 DEF InvAt, DataInv
    <3>2. p.msg = s + 1
      BY <3>1 DEF PacketOf
    <3>3. s \in 0 .. n - 1 /\ n - s <= Lifetime
      BY <1>7, <2>1, <3>2
    <3> QED
      BY <3>1, <3>3
  <2>2. CASE p \in Entering
    <3>1. PICK s \in entered .. n - 1 : p = PacketOf(s)
      BY <1>6, <2>2
    <3>2. s \in 0 .. n - 1 /\ n - s <= Lifetime
      BY <1>2, <1>6, <1>7 DEF Counters
    <3> QED
      BY <3>1, <3>2
  <2>3. CASE p \in again
    <3>1. PICK s \in l .. entered - 1 : p = PacketOf(s)
      BY <1>13, <2>3
    <3>2. s \in 0 .. n - 1 /\ n - s <= Lifetime
      BY <1>6, <1>7
    <3> QED
      BY <3>1, <3>2
  <2> QED
    BY <1>3, <2>1, <2>2, <2>3
<1>15. \A s : HasCome(r, s)' <=> HasCome(r, s)
  BY <1>5 DEF HasCome
<1>16. AckInv(r, v)'
  <2> SUFFICES ASSUME NEW a \in acks'
               PROVE  /\ a.born <= n /\ n - a.born < Lifetime
                      /\ \E w \in 0..v :
                           /\ a.start = Num(w) /\ a.born <= w + 2 * WindowSize
                           /\ \A s \in w .. w + WindowSize - 1 : Slot(s) \in a.bits => HasCome(r, s)
    BY <1>4, <1>15 DEF AckInv
  <2>1. a \in acks /\ n - a.born < Lifetime
    BY <1>4
  <2>2. a.born <= n
    <3>1. a.born \in Int /\ a.born <= entered
      BY <1>1, <1>2, <1>7, <2>1 DEF InvAt, AckInv, TypeOK
    <3> QED
      BY <1>7, <3>1
  <2> QED
    BY <1>1, <2>1, <2>2 DEF InvAt, AckInv
<1>17. TypeOK'
  <2>1. localSequence' \in Seqs
    <3>1. n - entered \in Int /\ entered + (n - entered) = n
      BY <1>7
    <3> QED
      BY <1>2, <1>4, <1>7, <3>1, PlusNum, NumType DEF Counters
  <2>2. data' \subseteq Packet
    <3>1. \A s \in Nat : s < MaxMessages => PacketOf(s) \in Packet
      BY PacketType
    <3>2. \A p \in data' : \E s \in 0 .. n - 1 : p = PacketOf(s)
      BY <1>4, <1>14 DEF DataInv
    <3> QED
      BY <1>7, <3>1, <3>2
  <2>3. acks' \subseteq acks
    BY <1>4
  <2>4. entered' \in 0..sent'
    BY <1>4, <1>6, <1>7
  <2> QED
    BY <1>2, <1>4, <1>5, <1>12, <2>1, <2>2, <2>3, <2>4 DEF TypeOK
<1>18. Counters(l, r, v)'
  <2>1. localSequence' = Num(n)
    <3>1. n - entered \in Int /\ entered + (n - entered) = n
      BY <1>7
    <3> QED
      BY <1>2, <1>4, <1>7, <3>1, PlusNum DEF Counters
  <2>2. r <= n
    BY <1>7
  <2> QED
    BY <1>2, <1>4, <1>5, <1>6, <2>1, <2>2 DEF Counters
<1>19. HeldInv(r, v)'
  <2> SUFFICES ASSUME NEW i \in Index, held[i] # None
               PROVE  \E s \in r + 1 .. v + WindowSize - 1 : s < n /\ Slot(s) = i /\ held[i] = s + 1
    BY <1>4, <1>5 DEF HeldInv
  <2>1. PICK s \in r + 1 .. v + WindowSize - 1 : s < entered /\ Slot(s) = i /\ held[i] = s + 1
    BY <1>1 DEF InvAt, HeldInv
  <2>2. s < n
    BY <1>7, <2>1
  <2> QED
    BY <2>1, <2>2
<1>20. BitsInv(r, v)'
  BY <1>1, <1>5, <1>15 DEF InvAt, BitsInv
<1>21. PendingInv(l)'
  <2> SUFFICES ASSUME NEW i \in Index, filled[i] # NoPacket
               PROVE  \E s \in l .. n - 1 : Slot(s) = i /\ filled[i] = PacketOf(s)
    BY <1>4 DEF PendingInv
  <2>1. CASE filled[i] = pending[i]
    <3>1. PICK s \in l .. entered - 1 : Slot(s) = i /\ pending[i] = PacketOf(s)
      BY <1>1, <2>1 DEF InvAt, PendingInv
    <3>2. s \in l .. n - 1
      BY <1>7
    <3> QED
      BY <2>1, <3>1, <3>2
  <2>2. CASE \E s \in entered .. n - 1 : Slot(s) = i /\ filled[i] = PacketOf(s)
    <3>1. \A s \in entered .. n - 1 : s \in l .. n - 1
      BY <1>7
    <3> QED
      BY <2>2, <3>1
  <2> QED
    BY <1>10, <2>1, <2>2
<1>22. OwedInv(l, r)'
  <2> SUFFICES ASSUME NEW s \in l .. n - 1
               PROVE  HasCome(r, s) \/ filled[Slot(s)] = PacketOf(s)
    BY <1>4, <1>15 DEF OwedInv
  <2>1. CASE s \in entered .. n - 1
    BY <1>9, <2>1
  <2>2. CASE s \in l .. entered - 1
    <3>1. Slot(s) \in Index
      BY <1>7, SlotType
    <3>2. \A t \in entered .. n - 1 : Slot(t) # Slot(s)
      <4> SUFFICES ASSUME NEW t \in entered .. n - 1, Slot(t) = Slot(s) PROVE FALSE
        OBVIOUS
      <4>1. t \in Int /\ s \in Int /\ s - t < WindowSize /\ t - s < WindowSize /\ t # s
        BY <1>6, <1>7, <2>2
      <4> QED
        BY <4>1, SlotIsUnique
    <3>3. filled[Slot(s)] = pending[Slot(s)]
      BY <1>11, <3>1, <3>2
    <3> QED
      BY <1>1, <2>2, <3>3 DEF InvAt, OwedInv
  <2> QED
    BY <1>7, <2>1, <2>2
<1>23. DeliveredInv(r)'
  BY <1>1, <1>4, <1>5, <1>15 DEF InvAt, DeliveredInv
<1>24. InvAt(l, r, v)'
  BY <1>14, <1>16, <1>18, <1>19, <1>20, <1>21, <1>22, <1>23 DEF InvAt
<1>25. l \in 0..entered' /\ r \in 0..entered' /\ v \in 0..entered'
  BY <1>4, <1>7
<1> QED
  BY <1>17, <1>24, <1>25 DEF ReliableInv

\* An acknowledgement clears what has arrived, and the window moves over what
\* is clear; it never overtakes the receiver.
LEMMA ProcessAckInv == ASSUME ReliableInv, NEW a \in acks, ProcessAck(a) PROVE ReliableInv'
<1>1. PICK l \in 0..entered, r \in 0..entered, v \in 0..entered : InvAt(l, r, v)
  BY DEF ReliableInv
<1>2. TypeOK /\ Counters(l, r, v) /\ HeldInv(r, v)
  BY <1>1 DEF ReliableInv, InvAt
<1> DEFINE size   == Relative(localSequence, localWindow)
           acked  == {i \in 0..size - 1 : Covers(a, Plus(localWindow, i))}
           moved  == CHOOSE n \in 0..size : 0..n - 1 \subseteq acked /\ n \notin acked
           window == [i \in Index |-> IF \E j \in acked : At(Plus(localWindow, j)) = i THEN NoPacket
                                      ELSE pending[i]]
<1>3. /\ Relative(localWindow, a.start) \in Index
      /\ localWindow' = Plus(localWindow, moved)
      /\ pending' = window
      /\ UNCHANGED <<ordered, sent, entered, localSequence, inQueue, receiverVars, data, acks>>
  BY DEF ProcessAck
<1>4. UNCHANGED <<remoteSequence, remoteWindow, ackStart, ackBits, held, mustSendAcks, delivered>>
  BY <1>3 DEF receiverVars
<1>5. /\ entered \in Nat /\ l \in Nat /\ r \in Nat /\ v \in Nat
      /\ v <= l /\ l <= r /\ r <= entered /\ entered <= l + WindowSize /\ r <= v + WindowSize
      /\ localSequence = Num(entered) /\ localWindow = Num(l)
      /\ WindowSize \in Nat \ {0} /\ Lifetime \in Nat /\ WindowSize <= Lifetime
      /\ HalfMaxSequence \in Nat /\ MaxSequence = HalfMaxSequence + HalfMaxSequence
      /\ Lifetime + WindowSize <= HalfMaxSequence
  BY <1>2, CounterTypes, Sizes DEF Counters
<1>6. size = entered - l
  BY <1>5, RelativeNum
<1>7. PICK w \in 0..v :
        /\ a.start = Num(w) /\ a.born <= w + 2 * WindowSize
        /\ \A s \in w .. w + WindowSize - 1 : Slot(s) \in a.bits => HasCome(r, s)
  BY <1>1 DEF InvAt, AckInv
<1>8. l - w < WindowSize
  <2>1. l - w < MaxSequence
    <3>1. a.born \in Int /\ entered - a.born < Lifetime
      BY <1>1, <1>2 DEF InvAt, AckInv, TypeOK
    <3> QED
      BY <3>1, <1>5, <1>7
  <2>2. ~ (HalfMaxSequence <= l - w)
    <3>1. SUFFICES ASSUME HalfMaxSequence <= l - w PROVE FALSE
      OBVIOUS
    <3>2. Relative(Num(l), Num(w)) < 0
      BY <1>5, <2>1, <3>1, RelativeFar
    <3>3. Relative(Num(l), Num(w)) \in Index
      BY <1>3, <1>5, <1>7
    <3> QED
      BY <1>5, <3>2, <3>3 DEF Index
  <2>3. Relative(Num(l), Num(w)) = l - w
    BY <1>5, <2>2, RelativeNum
  <2>4. Relative(Num(l), Num(w)) \in Index
    BY <1>3, <1>5, <1>7
  <2> QED
    BY <1>5, <2>3, <2>4 DEF Index
<1>9. \A i \in 0..size : Plus(localWindow, i) = Num(l + i) /\ At(Plus(localWindow, i)) = Slot(l + i)
  <2> SUFFICES ASSUME NEW i \in 0..size
               PROVE  Plus(localWindow, i) = Num(l + i) /\ At(Plus(localWindow, i)) = Slot(l + i)
    OBVIOUS
  <2>1. i \in Int /\ l \in Int /\ l + i \in Int
    BY <1>5, <1>6
  <2> QED
    BY <1>5, <2>1, PlusNum, AtNum
<1>10. \A i \in acked : i \in 0 .. entered - l - 1 /\ HasCome(r, l + i)
  <2> SUFFICES ASSUME NEW i \in acked PROVE i \in 0 .. entered - l - 1 /\ HasCome(r, l + i)
    OBVIOUS
  <2>1. i \in 0 .. entered - l - 1 /\ Relative(Plus(localWindow, i), a.start) < WindowSize
        /\ At(Plus(localWindow, i)) \in a.bits
    BY <1>6 DEF Covers
  <2>2. Plus(localWindow, i) = Num(l + i) /\ At(Plus(localWindow, i)) = Slot(l + i)
    BY <1>5, <1>6, <1>9, <2>1
  <2>3. Relative(Num(l + i), Num(w)) = (l + i) - w
    <3>1. l + i \in Int /\ w \in Int /\ (l + i) - w < HalfMaxSequence /\ w - (l + i) <= HalfMaxSequence
      BY <1>5, <1>8, <2>1
    <3> QED
      BY <3>1, RelativeNum
  <2>4. l + i \in w .. w + WindowSize - 1
    <3>1. (l + i) - w < WindowSize
      BY <1>7, <2>1, <2>2, <2>3
    <3> QED
      BY <1>5, <2>1, <3>1
  <2> QED
    BY <1>7, <2>1, <2>2, <2>4
<1>11. \E n \in 0..size : 0..n - 1 \subseteq acked /\ n \notin acked
  <2> DEFINE S == (0..size) \ acked
  <2>1. S \subseteq Nat /\ size \in S
    BY <1>5, <1>6, <1>10
  <2>2. PICK n \in S : \A m \in S : n <= m
    <3> HIDE DEF S
    <3> QED
      BY <2>1, LeastMember
  <2>3. n \in 0..size /\ n \notin acked
    OBVIOUS
  <2>4. \A i \in 0..n - 1 : i \in acked
    <3> SUFFICES ASSUME NEW i \in 0..n - 1, i \notin acked PROVE FALSE
      OBVIOUS
    <3>1. i \in 0..size /\ i < n
      BY <1>5, <1>6, <2>3
    <3>2. i \in S
      BY <3>1
    <3> HIDE DEF S
    <3> QED
      BY <2>2, <3>1, <3>2, <2>1
  <2> QED
    BY <2>3, <2>4
<1>12. moved \in 0..size /\ (\A i \in 0..moved - 1 : i \in acked) /\ moved \notin acked
  <2> HIDE DEF acked, size
  <2> QED
    BY <1>11
<1> HIDE DEF moved, acked, size
<1>13. moved \in Nat /\ moved <= entered - l
  BY <1>5, <1>6, <1>12
<1>14. PICK l2 \in Nat : l2 = l + moved
  BY <1>5, <1>13
<1>15. l2 <= r
  <2>1. SUFFICES ASSUME r < l2 PROVE FALSE
    BY <1>5
  <2>2. r - l \in 0..moved - 1
    BY <1>5, <1>13, <1>14, <2>1
  <2>3. HasCome(r, l + (r - l))
    BY <1>10, <1>12, <2>2
  <2>4. HasCome(r, r)
    <3>1. l + (r - l) = r
      BY <1>5
    <3> QED
      BY <2>3, <3>1
  <2>5. r < r
    BY <1>1, <1>2, <1>5, <2>4, EarlyIsHeld
  <2> QED
    BY <1>5, <2>5
<1>16. \A i \in Index :
         /\ window[i] = NoPacket \/ (window[i] = pending[i] /\ \A j \in acked : At(Plus(localWindow, j)) # i)
         /\ (\A j \in acked : At(Plus(localWindow, j)) # i) => window[i] = pending[i]
  OBVIOUS
<1>17. window \in [Index -> Packet \cup {NoPacket}]
  BY <1>2 DEF TypeOK
<1> HIDE DEF window
<1>18. \A s : HasCome(r, s)' <=> HasCome(r, s)
  BY <1>4 DEF HasCome
<1>19. localWindow' = Num(l2) /\ l2 \in 0..entered
  <2>1. moved \in Int /\ l \in Int
    BY <1>5, <1>13, <1>14
  <2> QED
    BY <1>3, <1>5, <1>13, <1>14, <2>1, PlusNum
<1>20. TypeOK'
  <2>1. localWindow' \in Seqs
    BY <1>19, NumType
  <2> QED
    BY <1>2, <1>3, <1>4, <1>17, <2>1 DEF TypeOK
<1>21. Counters(l2, r, v)'
  <2>1. v <= l2 /\ entered <= l2 + WindowSize
    BY <1>5, <1>13, <1>14
  <2> QED
    BY <1>2, <1>3, <1>4, <1>15, <1>19, <2>1 DEF Counters
<1>22. PendingInv(l2)'
  <2> SUFFICES ASSUME NEW i \in Index, window[i] # NoPacket
               PROVE  \E s \in l2 .. entered - 1 : Slot(s) = i /\ window[i] = PacketOf(s)
    BY <1>3 DEF PendingInv
  <2>1. window[i] = pending[i] /\ \A j \in acked : At(Plus(localWindow, j)) # i
    BY <1>16
  <2>2. PICK s \in l .. entered - 1 : Slot(s) = i /\ pending[i] = PacketOf(s)
    BY <1>1, <2>1 DEF InvAt, PendingInv
  <2>3. ~ (s < l2)
    <3>1. SUFFICES ASSUME s < l2 PROVE FALSE
      OBVIOUS
    <3>2. s - l \in 0..moved - 1 /\ s - l \in 0..size /\ l + (s - l) = s
      BY <1>5, <1>6, <1>13, <1>14, <3>1
    <3>3. s - l \in acked /\ At(Plus(localWindow, s - l)) = Slot(l + (s - l))
      BY <1>9, <1>12, <3>2
    <3> QED
      BY <2>1, <2>2, <3>2, <3>3
  <2>4. s \in l2 .. entered - 1
    BY <1>5, <1>19, <2>3
  <2> QED
    BY <2>1, <2>2, <2>4
<1>23. OwedInv(l2, r)'
  <2> SUFFICES ASSUME NEW s \in l2 .. entered - 1, ~ HasCome(r, s)
               PROVE  window[Slot(s)] = PacketOf(s)
    BY <1>3, <1>18 DEF OwedInv
  <2>1. s \in l .. entered - 1 /\ Slot(s) \in Index
    BY <1>5, <1>13, <1>14, SlotType
  <2>2. pending[Slot(s)] = PacketOf(s)
    BY <1>1, <2>1 DEF InvAt, OwedInv
  <2>3. ASSUME NEW j \in acked
        PROVE  At(Plus(localWindow, j)) # Slot(s)
    <3>1. j \in 0 .. entered - l - 1 /\ HasCome(r, l + j) /\ j \in 0..size
      BY <1>5, <1>6, <1>10
    <3>2. SUFFICES ASSUME Slot(l + j) = Slot(s) PROVE FALSE
      BY <1>9, <3>1
    <3>3. l + j \in Int /\ s \in Int /\ s - (l + j) < WindowSize /\ (l + j) - s < WindowSize
      BY <1>5, <2>1, <3>1
    <3>4. l + j = s
      BY <3>2, <3>3, SlotIsUnique
    <3> QED
      BY <3>1, <3>4
  <2>4. window[Slot(s)] = pending[Slot(s)]
    BY <1>16, <2>1, <2>3
  <2> QED
    BY <2>2, <2>4
<1>24. HeldInv(r, v)' /\ BitsInv(r, v)' /\ DataInv' /\ AckInv(r, v)' /\ DeliveredInv(r)'
  BY <1>1, <1>3, <1>4, <1>18 DEF InvAt, HeldInv, BitsInv, DataInv, AckInv, DeliveredInv
<1>25. InvAt(l2, r, v)'
  BY <1>21, <1>22, <1>23, <1>24 DEF InvAt
<1> QED
  BY <1>3, <1>19, <1>20, <1>25 DEF ReliableInv

\* A packet that is accepted lies in the window of the receiver or in the one
\* behind it.
LEMMA PacketPlace ==
  ASSUME TypeOK, NEW l \in 0..entered, NEW r \in 0..entered, NEW v \in 0..entered,
         InvAt(l, r, v), NEW p \in data, Acceptable(p.seq)
  PROVE  \E s \in v .. entered - 1 :
           /\ p = PacketOf(s) /\ p.seq = Num(s) /\ p.msg = s + 1 /\ At(p.seq) = Slot(s)
           /\ Relative(p.seq, remoteWindow) = s - v /\ s - v < 2 * WindowSize
           /\ p.seq = remoteSequence <=> s = r
<1>1. PICK s \in 0 .. entered - 1 : p = PacketOf(s) /\ entered - s <= Lifetime
  BY DEF InvAt, DataInv
<1>2. /\ entered \in Nat /\ entered <= MaxMessages /\ l \in Nat /\ r \in Nat /\ v \in Nat /\ s \in Nat
      /\ v <= l /\ l <= r /\ r <= entered /\ entered <= l + WindowSize /\ r <= v + WindowSize
      /\ remoteSequence = Num(r) /\ remoteWindow = Num(v)
      /\ WindowSize \in Nat \ {0} /\ Lifetime \in Nat /\ WindowSize <= Lifetime
      /\ HalfMaxSequence \in Nat /\ MaxSequence = HalfMaxSequence + HalfMaxSequence
      /\ Lifetime + WindowSize <= HalfMaxSequence
  BY <1>1, CounterTypes, Sizes DEF InvAt, Counters
<1>3. p.seq = Num(s) /\ p.msg = s + 1 /\ At(p.seq) = Slot(s)
  <2>1. s < MaxMessages /\ s \in Int
    BY <1>1, <1>2, Sizes
  <2> QED
    BY <1>1, <1>2, <2>1, PacketType, AtNum
<1>4. Relative(p.seq, remoteWindow) = s - v
  <2>1. s - v < HalfMaxSequence /\ v - s <= HalfMaxSequence
    BY <1>1, <1>2
  <2> QED
    BY <1>2, <1>3, <2>1, RelativeNum
<1>5. s - v \in 0..2 * WindowSize - 1
  BY <1>4 DEF Acceptable
<1>6. p.seq = remoteSequence <=> s = r
  <2>1. s - r < MaxSequence /\ r - s < MaxSequence
    BY <1>1, <1>2
  <2> QED
    BY <1>2, <1>3, <2>1, NumIsUnique
<1>7. s \in v .. entered - 1 /\ s - v < 2 * WindowSize
  BY <1>2, <1>5
<1> QED
  BY <1>1, <1>3, <1>4, <1>6, <1>7

\* When the window of the receiver moves on to v2, the bits that stay say
\* what has arrived in the new window.
LEMMA SlideBits ==
  ASSUME TypeOK, NEW l \in 0..entered, NEW r \in 0..entered, NEW v \in 0..entered,
         InvAt(l, r, v), NEW v2 \in v..l, v2 <= v + WindowSize
  PROVE  /\ SlideTo(Num(v2)) \subseteq Index
         /\ \A t \in v2 .. v2 + WindowSize - 1 : Slot(t) \in SlideTo(Num(v2)) <=> HasCome(r, t)
<1>1. /\ entered \in Nat /\ l \in Nat /\ r \in Nat /\ v \in Nat /\ v2 \in Nat /\ v <= v2
      /\ v2 <= r /\ r <= v + WindowSize /\ remoteWindow = Num(v)
      /\ WindowSize \in Nat \ {0} /\ Lifetime \in Nat /\ WindowSize <= Lifetime
      /\ HalfMaxSequence \in Nat /\ Lifetime + WindowSize <= HalfMaxSequence
  BY CounterTypes, Sizes DEF InvAt, Counters
<1>2. Relative(Num(v2), remoteWindow) = v2 - v
  BY <1>1, RelativeNum
<1>3. \A i \in 0 .. v2 - v - 1 : At(Plus(remoteWindow, i)) = Slot(v + i)
  <2> SUFFICES ASSUME NEW i \in 0 .. v2 - v - 1 PROVE At(Plus(remoteWindow, i)) = Slot(v + i)
    OBVIOUS
  <2>1. i \in Int /\ v \in Int /\ v + i \in Int
    BY <1>1
  <2> QED
    BY <1>1, <2>1, PlusNum, AtNum
<1>4. \A j : j \in SlideTo(Num(v2)) <=> j \in ackBits /\ \A i \in 0 .. v2 - v - 1 : Slot(v + i) # j
  BY <1>2, <1>3 DEF SlideTo
<1>5. SlideTo(Num(v2)) \subseteq Index
  BY <1>4 DEF TypeOK
<1>6. ASSUME NEW t \in v2 .. v2 + WindowSize - 1
      PROVE  Slot(t) \in SlideTo(Num(v2)) <=> HasCome(r, t)
  <2>1. CASE t < v + WindowSize
    <3>1. Slot(t) \in ackBits <=> HasCome(r, t)
      <4>1. t \in v .. v + WindowSize - 1
        BY <1>1, <2>1
      <4> QED
        BY <4>1 DEF InvAt, BitsInv
    <3>2. ASSUME NEW i \in 0 .. v2 - v - 1
          PROVE  Slot(v + i) # Slot(t)
      <4>1. v + i \in Int /\ t \in Int /\ v + i # t /\ (v + i) - t < WindowSize /\ t - (v + i) < WindowSize
        BY <1>1, <2>1
      <4> QED
        BY <4>1, SlotIsUnique
    <3> QED
      BY <1>4, <3>1, <3>2
  <2>2. CASE v + WindowSize <= t
    <3> DEFINE i == t - WindowSize - v
    <3>1. i \in 0 .. v2 - v - 1 /\ v + i \in Int /\ (v + i) + WindowSize = t
      BY <1>1, <2>2
    <3>2. Slot(v + i) = Slot(t)
      BY <3>1, SlotAgain
    <3>3. Slot(t) \notin SlideTo(Num(v2))
      BY <1>4, <3>1, <3>2
    <3>4. ~ HasCome(r, t)
      <4>1. t \in Nat /\ r <= t /\ ~ (t < v + WindowSize)
        BY <1>1, <2>2
      <4> QED
        BY <4>1, EarlyIsHeld DEF InvAt
    <3> QED
      BY <3>3, <3>4
  <2> QED
    BY <1>1, <2>1, <2>2
<1> QED
  BY <1>5, <1>6

\* The run of held messages behind packet r.
LEMMA RunOfHeld ==
  ASSUME TypeOK, NEW l \in 0..entered, NEW r \in 0..entered, NEW v \in 0..entered,
         Counters(l, r, v), HeldInv(r, v)
  PROVE  LET n == Run(held, Num(r + 1)) IN
         /\ n \in 0 .. WindowSize - 1
         /\ \A i \in 0 .. n - 1 : /\ held[Slot(r + 1 + i)] = r + 2 + i
                                  /\ r + 1 + i < v + WindowSize /\ r + 1 + i < entered
         /\ held[Slot(r + 1 + n)] = None
<1> DEFINE h(i) == held[At(Plus(Num(r + 1), i))]
           n    == Run(held, Num(r + 1))
<1>1. r \in Nat /\ v \in Nat /\ entered \in Nat /\ v <= r /\ WindowSize \in Nat \ {0}
  BY CounterTypes, Sizes DEF Counters
<1>2. ASSUME NEW i \in Nat
      PROVE  h(i) = held[Slot(r + 1 + i)]
  <2>1. r + 1 \in Int /\ i \in Int /\ r + 1 + i \in Int
    BY <1>1
  <2> QED
    BY <2>1, PlusNum, AtNum
<1> HIDE DEF h
<1>3. \E k \in 0..WindowSize : (\A i \in 0..k - 1 : h(i) # None) /\ (k < WindowSize => h(k) = None)
  <2> DEFINE S == {k \in 0..WindowSize : k < WindowSize => h(k) = None}
  <2>1. S \subseteq Nat /\ WindowSize \in S
    BY <1>1
  <2>2. PICK k \in S : \A m \in S : k <= m
    <3> HIDE DEF S
    <3> QED
      BY <2>1, LeastMember
  <2>3. ASSUME NEW i \in 0..k - 1
        PROVE  h(i) # None
    <3>1. i \in 0..WindowSize /\ i < k /\ k \in Nat
      BY <1>1
    <3>2. i \notin S
      <4> HIDE DEF S
      <4> QED
        BY <2>2, <3>1
    <3> QED
      BY <3>1, <3>2
  <2> QED
    BY <2>3
<1>4. n \in 0..WindowSize /\ (\A i \in 0..n - 1 : h(i) # None) /\ (n < WindowSize => h(n) = None)
  <2>1. n = CHOOSE k \in 0..WindowSize : (\A i \in 0..k - 1 : h(i) # None) /\ (k < WindowSize => h(k) = None)
    BY DEF Run, h
  <2> HIDE DEF n
  <2> QED
    BY <1>3, <2>1
<1> HIDE DEF n
<1>5. ASSUME NEW i \in 0..WindowSize - 1, h(i) # None
      PROVE  /\ held[Slot(r + 1 + i)] = r + 2 + i
             /\ r + 1 + i < v + WindowSize /\ r + 1 + i < entered
  <2> DEFINE s == r + 1 + i
  <2>1. s \in Nat /\ r <= s /\ s <= r + WindowSize /\ held[Slot(s)] # None /\ s + 1 = r + 2 + i
    BY <1>1, <1>2, <1>5
  <2> HIDE DEF s
  <2>2. held[Slot(s)] = s + 1 /\ s < v + WindowSize /\ s < entered
    BY <2>1, HeldIsMeant
  <2>3. held[Slot(s)] = r + 2 + i
    BY <2>1, <2>2
  <2> QED
    BY <2>2, <2>3 DEF s
<1>6. n # WindowSize
  <2> SUFFICES ASSUME n = WindowSize PROVE FALSE
    OBVIOUS
  <2>1. WindowSize - 1 \in 0..n - 1 /\ WindowSize - 1 \in 0..WindowSize - 1
    BY <1>1
  <2>2. r + 1 + (WindowSize - 1) < v + WindowSize
    BY <1>4, <1>5, <2>1
  <2> QED
    BY <1>1, <2>2
<1>7. n \in 0..WindowSize - 1 /\ h(n) = None /\ n \in Nat
  BY <1>1, <1>4, <1>6
<1>8. held[Slot(r + 1 + n)] = None
  BY <1>2, <1>7
<1>9. \A i \in 0..n - 1 : i \in 0..WindowSize - 1
  BY <1>1, <1>7
<1> QED
  BY <1>4, <1>5, <1>7, <1>8, <1>9 DEF n

\* What handling packet s does to the receiver, whatever the window did: now
\* it has come too, and the receiver waits for r2.
Outcome(r, r2, v2, s) ==
  /\ r <= r2 /\ r2 <= entered /\ r2 <= v2 + WindowSize /\ remoteSequence' = Num(r2)
  /\ held' \in [Index -> 0..MaxMessages] /\ delivered' \in Seq(1..MaxMessages)
  /\ \A t \in Nat : HasCome(r2, t)' <=> HasCome(r, t) \/ t = s
  /\ \A i \in Index :
       held'[i] # None =>
         \E t \in r2 + 1 .. v2 + WindowSize - 1 : t < entered /\ Slot(t) = i /\ held'[i] = t + 1

\* The packet that is waited for takes those held behind it along.
LEMMA ArriveOutcome ==
  ASSUME TypeOK, NEW l \in 0..entered, NEW r \in 0..entered, NEW v \in 0..entered, InvAt(l, r, v),
         NEW p, p = PacketOf(r), r < entered,
         NEW v2 \in v..r, r < v2 + WindowSize,
         Arrive(p), UNCHANGED <<ordered, entered>>
  PROVE  \E r2 \in 0..entered : r < r2 /\ Outcome(r, r2, v2, r) /\ DeliveredInv(r2)'
<1>1. /\ entered \in Nat /\ entered <= MaxMessages /\ r \in Nat /\ v \in Nat /\ v2 \in Nat /\ v <= v2 /\ v2 <= r
      /\ MaxMessages \in Nat /\ WindowSize \in Nat \ {0} /\ v <= r /\ remoteSequence = Num(r)
  BY CounterTypes, Sizes DEF InvAt, Counters
<1> DEFINE next == Plus(remoteSequence, 1)
           run  == Run(held, next)
           gone == {At(Plus(next, i)) : i \in 0..run - 1}
           out  == [i \in 1..run |-> held[At(Plus(next, i - 1))]]
<1>2. /\ remoteSequence' = Plus(next, run)
      /\ held' = [i \in Index |-> IF i \in gone THEN None ELSE held[i]]
      /\ delivered' = delivered \o <<p.msg>> \o (IF ordered THEN out ELSE <<>>)
  BY DEF Arrive
<1>3. next = Num(r + 1)
  BY <1>1, PlusNum
<1>4. PICK n \in 0 .. WindowSize - 1 :
        /\ n = run
        /\ \A i \in 0 .. n - 1 : /\ held[Slot(r + 1 + i)] = r + 2 + i
                                 /\ r + 1 + i < v + WindowSize /\ r + 1 + i < entered
        /\ held[Slot(r + 1 + n)] = None
  BY <1>3, RunOfHeld DEF InvAt
<1>5. \A i \in 0..n : Plus(next, i) = Num(r + 1 + i) /\ At(Plus(next, i)) = Slot(r + 1 + i)
  <2> SUFFICES ASSUME NEW i \in 0..n
               PROVE  Plus(next, i) = Num(r + 1 + i) /\ At(Plus(next, i)) = Slot(r + 1 + i)
    OBVIOUS
  <2>1. i \in Int /\ r + 1 \in Int /\ r + 1 + i \in Int
    BY <1>1
  <2> HIDE DEF next
  <2> QED
    BY <1>3, <2>1, PlusNum, AtNum
<1>6. \A i \in 1..n : At(Plus(next, i - 1)) = Slot(r + i) /\ held[Slot(r + i)] = r + 1 + i
                      /\ r + i < v + WindowSize /\ r + i < entered
  <2> SUFFICES ASSUME NEW i \in 1..n
               PROVE  At(Plus(next, i - 1)) = Slot(r + i) /\ held[Slot(r + i)] = r + 1 + i
                      /\ r + i < v + WindowSize /\ r + i < entered
    OBVIOUS
  <2> DEFINE j == i - 1
  <2>1. j \in 0..n /\ j \in 0..n - 1 /\ r + 1 + j = r + i /\ r + 2 + j = r + 1 + i
    BY <1>1
  <2> HIDE DEF next
  <2>2. At(Plus(next, j)) = Slot(r + 1 + j) /\ held[Slot(r + 1 + j)] = r + 2 + j
        /\ r + 1 + j < v + WindowSize /\ r + 1 + j < entered
    BY <1>4, <1>5, <2>1
  <2> QED
    BY <2>1, <2>2
<1> DEFINE r2 == r + 1 + n
<1>7. /\ n \in Nat /\ r2 \in Nat /\ r < r2 /\ r2 <= entered /\ r2 <= v2 + WindowSize
      /\ \A t \in r + 1 .. r2 - 1 : held[Slot(t)] = t + 1
  <2>1. n \in Nat
    BY <1>1
  <2>2. r2 <= entered /\ r2 <= v2 + WindowSize
    <3>1. CASE n = 0
      BY <1>1, <3>1
    <3>2. CASE n # 0
      <4>1. n \in 1..n
        BY <2>1, <3>2
      <4>2. r + n < v + WindowSize /\ r + n < entered
        BY <1>6, <4>1
      <4> QED
        BY <1>1, <2>1, <4>2
    <3> QED
      BY <3>1, <3>2
  <2>3. ASSUME NEW t \in r + 1 .. r2 - 1
        PROVE  held[Slot(t)] = t + 1
    <3>1. t - r \in 1..n /\ r + (t - r) = t /\ r + 1 + (t - r) = t + 1
      BY <1>1, <2>1
    <3>2. held[Slot(r + (t - r))] = r + 1 + (t - r)
      BY <1>6, <3>1
    <3> QED
      BY <3>1, <3>2
  <2> QED
    BY <1>1, <2>1, <2>2, <2>3
<1>8. \A j : j \in gone <=> \E t \in r + 1 .. r2 - 1 : Slot(t) = j
  <2> SUFFICES ASSUME NEW j PROVE j \in gone <=> \E t \in r + 1 .. r2 - 1 : Slot(t) = j
    OBVIOUS
  <2>1. ASSUME j \in gone
        PROVE  \E t \in r + 1 .. r2 - 1 : Slot(t) = j
    <3>1. PICK i \in 0..n - 1 : j = At(Plus(next, i))
      BY <1>4, <2>1
    <3>2. i \in 0..n /\ r + 1 + i \in r + 1 .. r2 - 1
      BY <1>1, <1>7
    <3> QED
      BY <1>5, <3>1, <3>2
  <2>2. ASSUME NEW t \in r + 1 .. r2 - 1, Slot(t) = j
        PROVE  j \in gone
    <3> DEFINE i == t - r - 1
    <3>1. i \in 0..n - 1 /\ i \in 0..n /\ r + 1 + i = t
      BY <1>1, <1>7
    <3>2. At(Plus(next, i)) = j
      BY <1>5, <2>2, <3>1
    <3> QED
      BY <1>4, <3>1, <3>2
  <2> QED
    BY <2>1, <2>2
<1>9. remoteSequence' = Num(r2)
  <2>1. n \in 0..n
    BY <1>7
  <2> HIDE DEF next
  <2> QED
    BY <1>2, <1>4, <1>5, <2>1
<1> HIDE DEF gone, next, run, out
<1>10. r2 \in 0..entered
  BY <1>1, <1>7
<1>11. held' \in [Index -> 0..MaxMessages]
  BY <1>1, <1>2 DEF TypeOK, None
<1>12. \A j \in Index : held'[j] # None => held'[j] = held[j] /\ \A t \in r + 1 .. r2 - 1 : Slot(t) # j
  BY <1>2, <1>8
<1>13. ASSUME NEW t \in Nat
       PROVE  HasCome(r2, t)' <=> HasCome(r, t) \/ t = r
  <2>1. Slot(t) \in Index
    BY SlotType
  <2>2. HasCome(r2, t)' <=> t < r2 \/ held'[Slot(t)] = t + 1
    BY DEF HasCome
  <2>3. CASE t < r2
    <3>1. t < r \/ t = r \/ t \in r + 1 .. r2 - 1
      BY <1>1, <1>7, <2>3
    <3> QED
      BY <1>7, <2>2, <2>3, <3>1 DEF HasCome
  <2>4. CASE r2 <= t
    <3>1. ~ (t < r2) /\ ~ (t < r) /\ t # r /\ t + 1 # None
      BY <1>1, <1>7, <2>4 DEF None
    <3>2. CASE Slot(t) \in gone
      <4>1. PICK u \in r + 1 .. r2 - 1 : Slot(u) = Slot(t)
        BY <1>8, <3>2
      <4>2. held[Slot(t)] = u + 1 /\ u # t
        BY <1>7, <2>4, <4>1
      <4>3. held[Slot(t)] # t + 1
        BY <1>1, <1>7, <4>2
      <4>4. held'[Slot(t)] = None
        BY <1>2, <2>1, <3>2
      <4> QED
        BY <2>2, <3>1, <4>3, <4>4 DEF HasCome
    <3>3. CASE Slot(t) \notin gone
      <4>1. held'[Slot(t)] = held[Slot(t)]
        BY <1>2, <2>1, <3>3
      <4> QED
        BY <2>2, <3>1, <4>1 DEF HasCome
    <3> QED
      BY <3>2, <3>3
  <2> QED
    BY <1>7, <2>3, <2>4
<1>14. ASSUME NEW j \in Index, held'[j] # None
       PROVE  \E t \in r2 + 1 .. v2 + WindowSize - 1 : t < entered /\ Slot(t) = j /\ held'[j] = t + 1
  <2>1. held'[j] = held[j] /\ \A t \in r + 1 .. r2 - 1 : Slot(t) # j
    BY <1>12, <1>14
  <2>2. PICK t \in r + 1 .. v + WindowSize - 1 : t < entered /\ Slot(t) = j /\ held[j] = t + 1
    BY <1>14, <2>1 DEF InvAt, HeldInv
  <2>3. t # r2
    BY <1>4, <1>14, <2>1, <2>2
  <2>4. t \in r2 + 1 .. v2 + WindowSize - 1
    BY <1>1, <1>7, <2>1, <2>2, <2>3
  <2> QED
    BY <2>1, <2>2, <2>4
<1> DEFINE d1 == delivered \o <<r + 1>>
<1>15. p.msg = r + 1 /\ r + 1 \in 1..MaxMessages
  BY <1>1, PacketType
<1>16. /\ d1 \in Seq(1..MaxMessages) /\ Len(d1) = Len(delivered) + 1 /\ Len(delivered) \in Nat
       /\ d1[Len(d1)] = r + 1 /\ \A i \in 1..Len(delivered) : d1[i] = delivered[i]
  BY <1>15 DEF TypeOK
<1>17. delivered' = d1 \o (IF ordered THEN out ELSE <<>>)
  BY <1>2, <1>15
<1>18. out = [i \in 1..n |-> r + 1 + i]
  BY <1>4, <1>6 DEF out
<1> HIDE DEF d1
<1>19. ASSUME ordered
       PROVE  delivered' \in Seq(1..MaxMessages) /\ DeliveredInv(r2)'
  <2>1. \A i \in 1..n : r + 1 + i \in 1..MaxMessages
    BY <1>1, <1>7
  <2>2. out \in Seq(1..MaxMessages) /\ Len(out) = n /\ \A i \in 1..n : out[i] = r + 1 + i
    BY <1>7, <1>18, <2>1
  <2>3. Len(delivered) = r /\ \A i \in 1..r : delivered[i] = i
    BY <1>19 DEF InvAt, DeliveredInv
  <2>4. delivered' = d1 \o out
    BY <1>17, <1>19
  <2>5. delivered' \in Seq(1..MaxMessages) /\ Len(delivered') = r + 1 + n
    <3>1. d1 \in Seq(1..MaxMessages) /\ out \in Seq(1..MaxMessages)
      BY <1>16, <2>2
    <3>2. d1 \o out \in Seq(1..MaxMessages) /\ Len(d1 \o out) = Len(d1) + Len(out)
      BY <3>1
    <3>3. Len(d1) = r + 1 /\ Len(out) = n
      BY <1>16, <2>2, <2>3
    <3> QED
      BY <2>4, <3>2, <3>3
  <2>6. ASSUME NEW i \in 1..r2
        PROVE  delivered'[i] = i
    <3>1. CASE i \in 1..r
      BY <1>16, <2>2, <2>3, <2>4, <3>1
    <3>2. CASE i = r + 1
      BY <1>1, <1>16, <2>2, <2>3, <2>4, <3>2
    <3>3. CASE i \in r + 2 .. r2
      <4>1. i - (r + 1) \in 1..n /\ i \in Len(d1) + 1 .. Len(d1) + Len(out)
        BY <1>1, <1>7, <1>16, <2>2, <2>3, <3>3
      <4>2. delivered'[i] = out[i - (r + 1)]
        BY <1>1, <1>16, <2>2, <2>3, <2>4, <4>1
      <4> QED
        BY <1>1, <2>2, <4>1, <4>2
    <3> QED
      BY <1>1, <1>7, <3>1, <3>2, <3>3
  <2> QED
    BY <1>19, <2>5, <2>6 DEF DeliveredInv
<1>20. ASSUME ~ordered
       PROVE  delivered' \in Seq(1..MaxMessages) /\ DeliveredInv(r2)'
  <2>1. delivered' = d1
    BY <1>16, <1>17, <1>20
  <2>2. ASSUME NEW m \in 1..MaxMessages
        PROVE  (\E i \in 1..Len(delivered') : delivered'[i] = m) <=> HasCome(r2, m - 1)'
    <3>1. (\E i \in 1..Len(delivered) : delivered[i] = m) <=> HasCome(r, m - 1)
      BY <1>20 DEF InvAt, DeliveredInv
    <3>2. (\E i \in 1..Len(d1) : d1[i] = m) <=> (\E i \in 1..Len(delivered) : delivered[i] = m) \/ m = r + 1
      BY <1>16
    <3>3. m - 1 \in Nat /\ (m - 1 = r <=> m = r + 1)
      BY <1>1
    <3>4. HasCome(r2, m - 1)' <=> HasCome(r, m - 1) \/ m - 1 = r
      BY <1>13, <3>3
    <3> QED
      BY <2>1, <3>1, <3>2, <3>3, <3>4
  <2> QED
    BY <1>16, <1>20, <2>1, <2>2 DEF DeliveredInv
<1>21. delivered' \in Seq(1..MaxMessages) /\ DeliveredInv(r2)'
  BY <1>19, <1>20
<1>22. Outcome(r, r2, v2, r)
  BY <1>7, <1>9, <1>11, <1>13, <1>14, <1>21 DEF Outcome
<1>23. r < r2
  BY <1>7
<1> HIDE DEF r2
<1> QED
  BY <1>10, <1>21, <1>22, <1>23

\* A packet that is early is held, or goes out and is noted.
LEMMA ArriveEarlyOutcome ==
  ASSUME TypeOK, NEW l \in 0..entered, NEW r \in 0..entered, NEW v \in 0..entered, InvAt(l, r, v),
         NEW s \in Nat, NEW p, p = PacketOf(s), s < entered, r < s, ~ HasCome(r, s),
         NEW v2 \in v..l, s < v2 + WindowSize,
         ArriveEarly(p), UNCHANGED <<ordered, entered>>
  PROVE  Outcome(r, r, v2, s) /\ DeliveredInv(r)'
<1>1. /\ entered \in Nat /\ entered <= MaxMessages /\ r \in Nat /\ v \in Nat /\ v2 \in Nat /\ v <= v2 /\ l \in Nat
      /\ MaxMessages \in Nat /\ WindowSize \in Nat \ {0} /\ v <= l /\ l <= r /\ remoteSequence = Num(r)
      /\ entered <= l + WindowSize /\ r <= v + WindowSize
  BY CounterTypes, Sizes DEF InvAt, Counters
<1>2. p.msg = s + 1 /\ At(p.seq) = Slot(s) /\ Slot(s) \in Index /\ s + 1 \in 1..MaxMessages
  <2>1. s < MaxMessages /\ s \in Int /\ s + 1 \in 1..MaxMessages
    BY <1>1
  <2> QED
    BY <2>1, PacketType, AtNum, SlotType
<1>3. /\ held' = [held EXCEPT ![Slot(s)] = s + 1]
      /\ delivered' = IF ordered THEN delivered ELSE Append(delivered, s + 1)
      /\ remoteSequence' = remoteSequence
  BY <1>2 DEF ArriveEarly
<1>4. /\ held' \in [Index -> 0..MaxMessages] /\ held'[Slot(s)] = s + 1
      /\ \A i \in Index : i # Slot(s) => held'[i] = held[i]
  BY <1>2, <1>3 DEF TypeOK
<1>5. ASSUME NEW t \in Nat
      PROVE  HasCome(r, t)' <=> HasCome(r, t) \/ t = s
  <2>1. Slot(t) \in Index
    BY SlotType
  <2>2. HasCome(r, t)' <=> t < r \/ held'[Slot(t)] = t + 1
    BY DEF HasCome
  <2>3. CASE Slot(t) # Slot(s)
    <3>1. held'[Slot(t)] = held[Slot(t)] /\ t # s
      BY <1>4, <2>1, <2>3
    <3> QED
      BY <2>2, <3>1 DEF HasCome
  <2>4. CASE t = s
    BY <1>4, <2>2, <2>4
  <2>5. CASE Slot(t) = Slot(s) /\ t # s
    <3>1. held'[Slot(t)] # t + 1
      BY <1>4, <2>5
    <3>2. ASSUME r <= t, HasCome(r, t)
          PROVE  FALSE
      <4>1. r < t /\ t < v + WindowSize
        BY <3>2, EarlyIsHeld DEF InvAt
      <4>2. t \in Int /\ s \in Int /\ t - s < WindowSize /\ s - t < WindowSize
        BY <1>1, <4>1
      <4> QED
        BY <2>5, <4>2, SlotIsUnique
    <3>3. HasCome(r, t) <=> t < r
      <4>1. t < r => HasCome(r, t)
        BY DEF HasCome
      <4> QED
        BY <1>1, <3>2, <4>1
    <3> QED
      BY <2>2, <2>5, <3>1, <3>3
  <2> QED
    BY <2>3, <2>4, <2>5
<1>6. ASSUME NEW i \in Index, held'[i] # None
      PROVE  \E t \in r + 1 .. v2 + WindowSize - 1 : t < entered /\ Slot(t) = i /\ held'[i] = t + 1
  <2>1. CASE i = Slot(s)
    <3>1. s \in r + 1 .. v2 + WindowSize - 1
      BY <1>1
    <3> QED
      BY <1>4, <2>1, <3>1
  <2>2. CASE i # Slot(s)
    <3>1. held'[i] = held[i]
      BY <1>4, <2>2
    <3>2. PICK t \in r + 1 .. v + WindowSize - 1 : t < entered /\ Slot(t) = i /\ held[i] = t + 1
      BY <1>6, <3>1 DEF InvAt, HeldInv
    <3>3. t \in r + 1 .. v2 + WindowSize - 1
      BY <1>1
    <3> QED
      BY <3>1, <3>2, <3>3
  <2> QED
    BY <2>1, <2>2
<1>7. delivered \in Seq(1..MaxMessages)
  BY DEF TypeOK
<1>8. ASSUME ordered
      PROVE  delivered' \in Seq(1..MaxMessages) /\ DeliveredInv(r)'
  BY <1>3, <1>7, <1>8 DEF InvAt, DeliveredInv
<1>9. ASSUME ~ordered
      PROVE  delivered' \in Seq(1..MaxMessages) /\ DeliveredInv(r)'
  <2>1. /\ delivered' \in Seq(1..MaxMessages) /\ Len(delivered') = Len(delivered) + 1 /\ Len(delivered) \in Nat
        /\ delivered'[Len(delivered')] = s + 1 /\ \A i \in 1..Len(delivered) : delivered'[i] = delivered[i]
    BY <1>2, <1>3, <1>7, <1>9
  <2>2. ASSUME NEW m \in 1..MaxMessages
        PROVE  (\E i \in 1..Len(delivered') : delivered'[i] = m) <=> HasCome(r, m - 1)'
    <3>1. (\E i \in 1..Len(delivered) : delivered[i] = m) <=> HasCome(r, m - 1)
      BY <1>9 DEF InvAt, DeliveredInv
    <3>2. (\E i \in 1..Len(delivered') : delivered'[i] = m)
            <=> (\E i \in 1..Len(delivered) : delivered[i] = m) \/ m = s + 1
      BY <2>1
    <3>3. m - 1 \in Nat /\ (m - 1 = s <=> m = s + 1)
      BY <1>1
    <3>4. HasCome(r, m - 1)' <=> HasCome(r, m - 1) \/ m - 1 = s
      BY <1>5, <3>3
    <3> QED
      BY <3>1, <3>2, <3>3, <3>4
  <2> QED
    BY <1>9, <2>1, <2>2 DEF DeliveredInv
<1>10. Outcome(r, r, v2, s)
  <2>1. r <= r /\ r <= entered /\ r <= v2 + WindowSize
    BY <1>1
  <2> QED
    BY <1>1, <1>3, <1>4, <1>5, <1>6, <1>8, <1>9, <2>1 DEF Outcome
<1> QED
  BY <1>8, <1>9, <1>10

\* A packet that has come before changes nothing.
LEMMA KnownOutcome ==
  ASSUME TypeOK, NEW l \in 0..entered, NEW r \in 0..entered, NEW v \in 0..entered, InvAt(l, r, v),
         NEW s \in Nat, HasCome(r, s), NEW v2 \in v..l,
         UNCHANGED <<remoteSequence, held, delivered, ordered, entered>>
  PROVE  Outcome(r, r, v2, s) /\ DeliveredInv(r)'
<1>1. /\ r \in Nat /\ v \in Nat /\ v2 \in Nat /\ v <= v2 /\ WindowSize \in Nat \ {0}
      /\ remoteSequence = Num(r) /\ r <= v + WindowSize /\ r <= entered /\ entered \in Nat
  BY CounterTypes, Sizes DEF InvAt, Counters
<1>2. \A t : HasCome(r, t)' <=> HasCome(r, t)
  BY DEF HasCome
<1>3. ASSUME NEW i \in Index, held'[i] # None
      PROVE  \E t \in r + 1 .. v2 + WindowSize - 1 : t < entered /\ Slot(t) = i /\ held'[i] = t + 1
  <2>1. PICK t \in r + 1 .. v + WindowSize - 1 : t < entered /\ Slot(t) = i /\ held[i] = t + 1
    BY <1>3 DEF InvAt, HeldInv
  <2>2. t \in r + 1 .. v2 + WindowSize - 1
    BY <1>1
  <2> QED
    BY <2>1, <2>2
<1>4. DeliveredInv(r)'
  BY <1>2 DEF InvAt, DeliveredInv
<1>5. r <= r /\ r <= v2 + WindowSize
  BY <1>1
<1>6. held' \in [Index -> 0..MaxMessages] /\ delivered' \in Seq(1..MaxMessages)
  BY DEF TypeOK
<1> QED
  BY <1>1, <1>2, <1>3, <1>4, <1>5, <1>6 DEF Outcome

\* Packet s is taken in: the window may move on to v2, the bits with it, and
\* s has come before, was waited for or is early.
LEMMA PacketTaken ==
  ASSUME TypeOK, NEW l \in 0..entered, NEW r \in 0..entered, NEW v \in 0..entered, InvAt(l, r, v),
         NEW p \in data, ProcessPacket(p)
  PROVE  \E s \in v .. entered - 1, v2 \in v..l :
           /\ p = PacketOf(s) /\ v2 <= s /\ s < v2 + WindowSize
           /\ remoteWindow' = Num(v2) /\ ackStart' = Num(v2) /\ ackBits' \subseteq Index
           /\ \A t \in v2 .. v2 + WindowSize - 1 : Slot(t) \in ackBits' <=> HasCome(r, t) \/ t = s
           /\ \/ HasCome(r, s) /\ UNCHANGED <<remoteSequence, held, delivered>>
              \/ s = r /\ Arrive(p)
              \/ r < s /\ ~ HasCome(r, s) /\ ArriveEarly(p)
<1>2. Counters(l, r, v)
  BY DEF InvAt
<1> DEFINE start == IF Relative(p.seq, remoteWindow) < WindowSize THEN remoteWindow
                    ELSE Plus(p.seq, MaxSequence + 1 - WindowSize)
           bits  == SlideTo(start)
<1>3. /\ Acceptable(p.seq)
      /\ remoteWindow' = start /\ ackStart' = start /\ ackBits' = bits \cup {At(p.seq)}
      /\ IF At(p.seq) \in bits THEN UNCHANGED <<remoteSequence, held, delivered>>
         ELSE IF p.seq = remoteSequence THEN Arrive(p) ELSE ArriveEarly(p)
  BY DEF ProcessPacket
<1>5. PICK s \in v .. entered - 1 :
        /\ p = PacketOf(s) /\ p.seq = Num(s) /\ p.msg = s + 1 /\ At(p.seq) = Slot(s)
        /\ Relative(p.seq, remoteWindow) = s - v /\ s - v < 2 * WindowSize
        /\ p.seq = remoteSequence <=> s = r
  BY <1>2, <1>3, PacketPlace
<1>6. /\ entered \in Nat /\ l \in Nat /\ r \in Nat /\ v \in Nat /\ s \in Nat /\ s < entered
      /\ v <= s /\ v <= l /\ l <= r /\ r <= entered /\ entered <= l + WindowSize /\ r <= v + WindowSize
      /\ remoteWindow = Num(v) /\ WindowSize \in Nat \ {0}
  BY <1>2, <1>5, CounterTypes, Sizes DEF Counters
<1>7. PICK v2 \in v..l : start = Num(v2) /\ v2 <= v + WindowSize /\ v2 <= s /\ s < v2 + WindowSize
  <2>1. CASE s - v < WindowSize
    <3>1. start = Num(v)
      BY <1>5, <1>6, <2>1
    <3>2. v \in v..l /\ v <= v + WindowSize /\ v <= s /\ s < v + WindowSize
      BY <1>6, <2>1
    <3> QED
      BY <3>1, <3>2
  <2>2. CASE ~ (s - v < WindowSize)
    <3> DEFINE w == s + (1 - WindowSize)
    <3>1. start = Plus(Num(s), MaxSequence + (1 - WindowSize))
      BY <1>5, <2>2
    <3>2. start = Num(w)
      <4>1. s \in Int /\ 1 - WindowSize \in Int
        BY <1>6
      <4> QED
        BY <3>1, <4>1, PlusBack
    <3>3. w \in v..l /\ w <= v + WindowSize /\ w <= s /\ s < w + WindowSize
      BY <1>5, <1>6, <2>2
    <3> QED
      BY <3>2, <3>3
  <2> QED
    BY <2>1, <2>2
<1> HIDE DEF start
<1>8. v2 \in Nat /\ v <= v2 /\ v2 <= l
  BY <1>6
<1>9. bits \subseteq Index /\ \A t \in v2 .. v2 + WindowSize - 1 : Slot(t) \in bits <=> HasCome(r, t)
  BY <1>2, <1>7, SlideBits
<1> HIDE DEF bits
<1>10. Slot(s) \in bits <=> HasCome(r, s)
  <2>1. s \in v2 .. v2 + WindowSize - 1
    BY <1>6, <1>7, <1>8
  <2> QED
    BY <1>9, <2>1
<1>11. ackBits' \subseteq Index
  <2>1. Slot(s) \in Index
    BY <1>6, SlotType
  <2> QED
    BY <1>3, <1>5, <1>9, <2>1
<1>12. ASSUME NEW t \in v2 .. v2 + WindowSize - 1
       PROVE  Slot(t) \in ackBits' <=> HasCome(r, t) \/ t = s
  <2>1. Slot(t) = Slot(s) => t = s
    <3>1. t \in Int /\ s \in Int /\ t - s < WindowSize /\ s - t < WindowSize
      BY <1>6, <1>7, <1>8
    <3> QED
      BY <3>1, SlotIsUnique
  <2> QED
    BY <1>3, <1>5, <1>9, <2>1
<1>13. \/ HasCome(r, s) /\ UNCHANGED <<remoteSequence, held, delivered>>
       \/ s = r /\ Arrive(p)
       \/ r < s /\ ~ HasCome(r, s) /\ ArriveEarly(p)
  <2>1. s = r \/ r < s \/ HasCome(r, s)
    BY <1>6 DEF HasCome
  <2> QED
    BY <1>3, <1>5, <1>10, <2>1
<1>14. remoteWindow' = Num(v2) /\ ackStart' = Num(v2)
  BY <1>3, <1>7
<1> QED
  BY <1>5, <1>7, <1>11, <1>12, <1>13, <1>14

\* The packet has come, then, and the invariant holds of what is new.
LEMMA ProcessPacketInv == ASSUME ReliableInv, NEW p \in data, ProcessPacket(p) PROVE ReliableInv'
<1>1. PICK l \in 0..entered, r \in 0..entered, v \in 0..entered : InvAt(l, r, v)
  BY DEF ReliableInv
<1>2. TypeOK /\ Counters(l, r, v)
  BY <1>1 DEF ReliableInv, InvAt
<1>3. UNCHANGED <<ordered, senderVars, data, acks>> /\ mustSendAcks' = TRUE
  BY DEF ProcessPacket
<1>4. UNCHANGED <<sent, entered, localSequence, localWindow, pending, inQueue>>
  BY <1>3 DEF senderVars
<1>5. PICK s \in v .. entered - 1, v2 \in v..l :
        /\ p = PacketOf(s) /\ v2 <= s /\ s < v2 + WindowSize
        /\ remoteWindow' = Num(v2) /\ ackStart' = Num(v2) /\ ackBits' \subseteq Index
        /\ \A t \in v2 .. v2 + WindowSize - 1 : Slot(t) \in ackBits' <=> HasCome(r, t) \/ t = s
        /\ \/ HasCome(r, s) /\ UNCHANGED <<remoteSequence, held, delivered>>
           \/ s = r /\ Arrive(p)
           \/ r < s /\ ~ HasCome(r, s) /\ ArriveEarly(p)
  BY <1>1, <1>2, PacketTaken
<1>6. /\ entered \in Nat /\ l \in Nat /\ r \in Nat /\ v \in Nat /\ s \in Nat /\ s < entered
      /\ v <= l /\ l <= r /\ r <= entered /\ v2 \in Nat /\ v <= v2 /\ v2 <= l
      /\ WindowSize \in Nat \ {0}
  BY <1>1, <1>2, <1>5, CounterTypes, Sizes DEF Counters
<1>7. PICK r2 \in 0..entered : Outcome(r, r2, v2, s) /\ DeliveredInv(r2)'
  <2>1. CASE HasCome(r, s) /\ UNCHANGED <<remoteSequence, held, delivered>>
    BY <1>1, <1>2, <1>3, <1>4, <1>6, <2>1, KnownOutcome
  <2>2. CASE s = r /\ Arrive(p)
    <3>1. UNCHANGED <<ordered, entered>> /\ p = PacketOf(r) /\ r < entered
          /\ v2 \in v..r /\ r < v2 + WindowSize
      BY <1>3, <1>4, <1>5, <1>6, <2>2
    <3> QED
      BY <1>1, <1>2, <2>2, <3>1, ArriveOutcome
  <2>3. CASE r < s /\ ~ HasCome(r, s) /\ ArriveEarly(p)
    <3>1. Outcome(r, r, v2, s) /\ DeliveredInv(r)'
      BY <1>1, <1>2, <1>3, <1>4, <1>5, <1>6, <2>3, ArriveEarlyOutcome
    <3> QED
      BY <3>1
  <2> QED
    BY <1>5, <2>1, <2>2, <2>3
<1>8. /\ r <= r2 /\ r2 <= entered /\ r2 <= v2 + WindowSize /\ remoteSequence' = Num(r2) /\ r2 \in Nat
      /\ held' \in [Index -> 0..MaxMessages] /\ delivered' \in Seq(1..MaxMessages)
      /\ \A t \in Nat : HasCome(r2, t)' <=> HasCome(r, t) \/ t = s
  BY <1>6, <1>7 DEF Outcome
<1>9. HeldInv(r2, v2)'
  BY <1>4, <1>7 DEF Outcome, HeldInv
<1>10. TypeOK'
  <2>1. remoteWindow' \in Seqs /\ ackStart' \in Seqs /\ remoteSequence' \in Seqs
    BY <1>5, <1>6, <1>8, NumType
  <2> QED
    BY <1>2, <1>3, <1>4, <1>5, <1>8, <2>1 DEF TypeOK
<1>11. Counters(l, r2, v2)'
  <2>1. l <= r2
    BY <1>6, <1>8
  <2> QED
    BY <1>2, <1>4, <1>5, <1>6, <1>8, <2>1 DEF Counters
<1>12. BitsInv(r2, v2)'
  <2>1. \A t \in v2 .. v2 + WindowSize - 1 : t \in Nat
    BY <1>6
  <2> QED
    BY <1>5, <1>8, <2>1 DEF BitsInv
<1>13. OwedInv(l, r2)'
  <2>1. \A t \in l .. entered - 1 : t \in Nat
    BY <1>6
  <2> QED
    BY <1>1, <1>4, <1>8, <2>1 DEF InvAt, OwedInv
<1>14. AckInv(r2, v2)'
  <2> SUFFICES ASSUME NEW a \in acks
               PROVE  /\ a.born <= entered /\ entered - a.born < Lifetime
                      /\ \E w \in 0..v2 :
                           /\ a.start = Num(w) /\ a.born <= w + 2 * WindowSize
                           /\ \A t \in w .. w + WindowSize - 1 : Slot(t) \in a.bits => HasCome(r2, t)'
    BY <1>3, <1>4 DEF AckInv
  <2>1. a.born <= entered /\ entered - a.born < Lifetime
    BY <1>1 DEF InvAt, AckInv
  <2>2. PICK w \in 0..v :
          /\ a.start = Num(w) /\ a.born <= w + 2 * WindowSize
          /\ \A t \in w .. w + WindowSize - 1 : Slot(t) \in a.bits => HasCome(r, t)
    BY <1>1 DEF InvAt, AckInv
  <2>3. w \in 0..v2 /\ \A t \in w .. w + WindowSize - 1 : t \in Nat
    BY <1>6
  <2> QED
    BY <1>8, <2>1, <2>2, <2>3
<1>15. DataInv' /\ PendingInv(l)'
  BY <1>1, <1>3, <1>4 DEF InvAt, DataInv, PendingInv
<1>16. InvAt(l, r2, v2)'
  BY <1>7, <1>9, <1>11, <1>12, <1>13, <1>14, <1>15 DEF InvAt
<1>17. v2 \in 0..entered' /\ r2 \in 0..entered' /\ l \in 0..entered'
  BY <1>4, <1>6, <1>8
<1> QED
  BY <1>10, <1>16, <1>17 DEF ReliableInv

-----------------------------------------------------------------------------
(* The theorems.                                                           *)

\* The inductive invariant: the numbers are those of three counters that
\* never part by more than two windows, and what the arrays, bits and
\* datagrams hold are the packets around them.
THEOREM ReliableInvariant == Spec => []ReliableInv
<1>1. Init => ReliableInv
  BY InitInv
<1>2. ReliableInv /\ [Next]_vars => ReliableInv'
  <2> SUFFICES ASSUME ReliableInv, [Next]_vars PROVE ReliableInv'
    OBVIOUS
  <2>1. CASE UNCHANGED vars
    <3>1. PICK l \in 0..entered, r \in 0..entered, v \in 0..entered : InvAt(l, r, v)
      BY DEF ReliableInv
    <3>2. TypeOK' /\ entered' = entered
      BY <2>1 DEF vars, senderVars, receiverVars, ReliableInv, TypeOK
    <3>3. InvAt(l, r, v)'
      BY <2>1, <3>1 DEF vars, senderVars, receiverVars, InvAt, Counters, HeldInv, BitsInv,
                        PendingInv, OwedInv, DataInv, AckInv, DeliveredInv, HasCome
    <3> QED
      BY <3>2, <3>3 DEF ReliableInv
  <2>2. CASE Send \/ SendNextPackets \/ SendAcks
    BY <2>2, SendInv, SendNextPacketsInv, SendAcksInv
  <2>3. CASE \E p \in data : ProcessPacket(p)
    BY <2>3, ProcessPacketInv
  <2>4. CASE \E a \in acks : ProcessAck(a)
    BY <2>4, ProcessAckInv
  <2>5. CASE Lose /\ UNCHANGED <<ordered, senderVars, receiverVars>>
    BY <2>5, LoseInv
  <2> QED
    BY <2>1, <2>2, <2>3, <2>4, <2>5 DEF Next
<1> QED
  BY <1>1, <1>2, PTL DEF Spec

\* Type correctness.
THEOREM TypeCorrect == Spec => []TypeOK
<1>1. ReliableInv => TypeOK
  BY DEF ReliableInv
<1> QED
  BY <1>1, ReliableInvariant, PTL

\* The window of the receiver never gets ahead of that of the sender, nor
\* falls behind it by more than its size: the acknowledgements are never
\* ignored for good (channel.go:122-131).
THEOREM WindowsStayInStep == Spec => []WindowsInStep
<1>1. ReliableInv => WindowsInStep
  <2> SUFFICES ASSUME ReliableInv PROVE WindowsInStep
    OBVIOUS
  <2>1. PICK l \in 0..entered, r \in 0..entered, v \in 0..entered : Counters(l, r, v)
    BY DEF ReliableInv, InvAt
  <2>2. l \in Nat /\ v \in Nat /\ v <= l /\ l <= v + WindowSize /\ WindowSize \in Nat
    BY <2>1, CounterTypes, Sizes DEF ReliableInv, Counters
  <2>3. Relative(localWindow, remoteWindow) = l - v
    BY <2>1, <2>2, Sizes, RelativeNum DEF Counters
  <2> QED
    BY <2>2, <2>3 DEF WindowsInStep
<1> QED
  BY <1>1, ReliableInvariant, PTL

\* The sender gives up a packet only when it has arrived
\* (channel.go:139-156).
THEOREM NothingIsGivenUp == Spec => []NothingGivenUp
<1>1. ReliableInv => NothingGivenUp
  <2> SUFFICES ASSUME ReliableInv, NEW m \in 1..entered
               PROVE  \/ \E i \in 1..Len(delivered) : delivered[i] = m
                      \/ \E i \in Index : held[i] = m \/ pending[i].msg = m
    BY DEF NothingGivenUp
  <2>1. PICK l \in 0..entered, r \in 0..entered, v \in 0..entered : InvAt(l, r, v)
    BY DEF ReliableInv
  <2>2. TypeOK /\ Counters(l, r, v)
    BY <2>1 DEF ReliableInv, InvAt
  <2> DEFINE s == m - 1
  <2>3. /\ s \in Nat /\ s + 1 = m /\ s < entered /\ Slot(s) \in Index /\ l \in Nat /\ l <= r /\ r \in Nat
        /\ entered \in Nat /\ entered <= MaxMessages /\ MaxMessages \in Nat
    BY <2>2, CounterTypes, SlotType, Sizes DEF Counters
  <2>4. CASE HasCome(r, s) /\ ~ (s < r)
    <3>1. held[Slot(s)] = m
      BY <2>3, <2>4 DEF HasCome
    <3> QED
      BY <2>3, <3>1
  <2>5. CASE s < r
    <3>1. CASE ordered
      <4>1. m \in 1..r /\ Len(delivered) = r
        BY <2>1, <2>3, <2>5, <3>1 DEF InvAt, DeliveredInv
      <4>2. delivered[m] = m
        BY <2>1, <3>1, <4>1 DEF InvAt, DeliveredInv
      <4> QED
        BY <4>1, <4>2
    <3>2. CASE ~ordered
      <4>1. m \in 1..MaxMessages
        BY <2>3
      <4>2. HasCome(r, m - 1)
        BY <2>5 DEF HasCome
      <4> QED
        BY <2>1, <3>2, <4>1, <4>2 DEF InvAt, DeliveredInv
    <3> QED
      BY <3>1, <3>2
  <2>6. CASE ~ HasCome(r, s)
    <3>1. s \in l .. entered - 1
      BY <2>3, <2>6 DEF HasCome
    <3>2. pending[Slot(s)] = PacketOf(s)
      BY <2>1, <2>6, <3>1 DEF InvAt, OwedInv
    <3>3. pending[Slot(s)].msg = m
      BY <2>3, <3>2 DEF PacketOf
    <3> QED
      BY <2>3, <3>3
  <2> QED
    BY <2>4, <2>5, <2>6
<1> QED
  BY <1>1, ReliableInvariant, PTL

\* Packets that come change what is delivered as ReliableDelivery says.
LEMMA ProcessPacketRefines ==
  ASSUME ReliableInv, NEW p \in data, ProcessPacket(p)
  PROVE  Delivery!Deliver \/ UNCHANGED Delivery!vars
<1>1. PICK l \in 0..entered, r \in 0..entered, v \in 0..entered : InvAt(l, r, v)
  BY DEF ReliableInv
<1>2. TypeOK /\ Counters(l, r, v)
  BY <1>1 DEF ReliableInv, InvAt
<1>3. UNCHANGED <<ordered, sent, entered>>
  BY DEF ProcessPacket, senderVars
<1>4. PICK s \in v .. entered - 1, v2 \in v..l :
        /\ p = PacketOf(s) /\ v2 <= s /\ s < v2 + WindowSize
        /\ \/ HasCome(r, s) /\ UNCHANGED <<remoteSequence, held, delivered>>
           \/ s = r /\ Arrive(p)
           \/ r < s /\ ~ HasCome(r, s) /\ ArriveEarly(p)
  BY <1>1, <1>2, PacketTaken
<1>5. /\ entered \in Nat /\ r \in Nat /\ v \in Nat /\ l \in Nat /\ v2 \in Nat /\ s \in Nat /\ s < entered
      /\ v <= v2 /\ v2 <= l /\ l <= r /\ entered <= sent /\ sent \in Nat
      /\ entered <= MaxMessages /\ MaxMessages \in Nat
  BY <1>1, <1>2, <1>4, CounterTypes, Sizes DEF Counters
<1>6. p.msg = s + 1 /\ s + 1 \in 1..sent /\ s + 1 \in 1..MaxMessages
  <2>1. s < MaxMessages
    BY <1>5
  <2> QED
    BY <1>4, <1>5, <2>1, PacketType
<1>7. delivered \in Seq(1..MaxMessages)
  BY <1>2 DEF TypeOK
<1>8. CASE HasCome(r, s) /\ UNCHANGED <<remoteSequence, held, delivered>>
  BY <1>3, <1>8 DEF Delivery!vars
<1>9. CASE ordered /\ s = r /\ Arrive(p)
  <2>1. PICK r2 \in 0..entered : r < r2 /\ Outcome(r, r2, v2, r) /\ DeliveredInv(r2)'
    <3>1. p = PacketOf(r) /\ r < entered /\ v2 \in v..r /\ r < v2 + WindowSize /\ UNCHANGED <<ordered, entered>>
      BY <1>3, <1>4, <1>5, <1>9
    <3> QED
      BY <1>1, <1>2, <1>9, <3>1, ArriveOutcome
  <2>2. Len(delivered) = r
    BY <1>1, <1>9 DEF InvAt, DeliveredInv
  <2>3. delivered' \in Seq(1..MaxMessages) /\ Len(delivered') = r2 /\ \A i \in 1..r2 : delivered'[i] = i
    BY <1>3, <1>9, <2>1 DEF Outcome, DeliveredInv
  <2>4. delivered' = [i \in 1..r2 |-> i]
    BY <2>3
  <2>5. r2 \in Len(delivered) + 1 .. sent
    BY <1>5, <2>1, <2>2
  <2> QED
    BY <1>3, <1>9, <2>4, <2>5 DEF Delivery!Deliver, Delivery!DeliverOrdered
<1>10. CASE ordered /\ ArriveEarly(p)
  BY <1>3, <1>10 DEF ArriveEarly, Delivery!vars
<1>11. CASE ~ordered /\ ((s = r /\ Arrive(p)) \/ (r < s /\ ~ HasCome(r, s) /\ ArriveEarly(p)))
  <2>1. ~ HasCome(r, s)
    <3>1. CASE s = r
      <4>1. HasCome(r, r) => r < r
        BY <1>1, <1>2, <1>5, EarlyIsHeld DEF InvAt
      <4> QED
        BY <1>5, <3>1, <4>1
    <3> QED
      BY <1>11, <3>1
  <2>2. delivered' = Append(delivered, s + 1)
    <3>1. CASE Arrive(p)
      <4>1. delivered' = delivered \o <<p.msg>> \o <<>>
        BY <1>11, <3>1 DEF Arrive
      <4>2. delivered \o <<p.msg>> \in Seq(1..MaxMessages)
        BY <1>6, <1>7
      <4> QED
        BY <1>6, <1>7, <4>1, <4>2
    <3>2. CASE ArriveEarly(p)
      BY <1>6, <1>11, <3>2 DEF ArriveEarly
    <3> QED
      BY <1>11, <3>1, <3>2
  <2>3. \A i \in 1..Len(delivered) : delivered[i] # s + 1
    <3>1. (s + 1) - 1 = s
      BY <1>5
    <3>2. (\E i \in 1..Len(delivered) : delivered[i] = s + 1) <=> HasCome(r, (s + 1) - 1)
      BY <1>1, <1>6, <1>11 DEF InvAt, DeliveredInv
    <3> QED
      BY <2>1, <3>1, <3>2
  <2>4. s + 1 \in Delivery!Outstanding
    <3>1. DOMAIN delivered = 1..Len(delivered)
      BY <1>7
    <3> QED
      BY <1>6, <2>3, <3>1 DEF Delivery!Outstanding, Delivery!Range
  <2> QED
    BY <1>3, <1>11, <2>2, <2>4 DEF Delivery!Deliver, Delivery!DeliverUnordered
<1> QED
  BY <1>4, <1>8, <1>9, <1>10, <1>11

LEMMA StepRefines == ReliableInv /\ [Next]_vars => [Delivery!Next]_Delivery!vars
<1> SUFFICES ASSUME ReliableInv, [Next]_vars PROVE [Delivery!Next]_Delivery!vars
  OBVIOUS
<1>1. CASE Send
  BY <1>1 DEF Send, receiverVars, Delivery!Next, Delivery!Send
<1>2. CASE SendNextPackets \/ SendAcks \/ \E a \in acks : ProcessAck(a)
  BY <1>2 DEF SendNextPackets, SendAcks, ProcessAck, senderVars, receiverVars, Delivery!vars
<1>3. CASE \E p \in data : ProcessPacket(p)
  BY <1>3, ProcessPacketRefines DEF Delivery!Next
<1>4. CASE UNCHANGED <<ordered, senderVars, receiverVars>>
  BY <1>4 DEF senderVars, receiverVars, Delivery!vars
<1>5. CASE UNCHANGED vars
  BY <1>5 DEF vars, senderVars, receiverVars, Delivery!vars
<1> QED
  BY <1>1, <1>2, <1>3, <1>4, <1>5 DEF Next

\* The channel implements ReliableDelivery: each message is handed out at
\* most once, and in order if the channel is ordered, however many datagrams
\* are lost, repeated and late and however often the numbers wrap
\* (channel.go:118-284).
THEOREM Refines == Spec => DeliversOnce
<1>1. Init => Delivery!Init
  BY DEF Init, Delivery!Init
<1> QED
  BY <1>1, ReliableInvariant, StepRefines, PTL DEF Spec, DeliversOnce
=============================================================================
