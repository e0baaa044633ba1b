---------------------------- MODULE Gate_proofs -----------------------------
(***************************************************************************)
(* Proofs about Gate, for every set of addresses and every setting of the  *)
(* limits.  The rate limit needs one assumption the configuration does not *)
(* enforce: a bucket that is swept as idle would have been full again.     *)
(***************************************************************************)
EXTENDS Gate, TLAPS

ASSUME IdleRefills == Rate * BucketIdleTime >= Full

-----------------------------------------------------------------------------
(* The inductive invariant.                                                *)

\* What Allow would find in the bucket of ip now.
Tokens(ip) ==
  IF ip \in DOMAIN buckets THEN Refilled(buckets[ip]).tokens ELSE Full

BucketInv ==
  \A ip \in DOMAIN buckets : buckets[ip].tokens <= Full /\ buckets[ip].last <= now

\* A token let through is a token that is no longer in the bucket.
RateInv ==
  \A ip \in IP :
    /\ now < since => admitted[ip] = 0
    /\ now >= since => admitted[ip] * Scale + Tokens(ip) <= Full + Rate * (now - since)

Granted(ip) == grant # NoGrant /\ grant.ip = ip

\* The gate never counts less than what exists or is about to.
CapInv ==
  \A ip \in IP :
    /\ alive[ip] <= sessions[ip] + (IF Granted(ip) /\ grant.registered THEN 1 ELSE 0)
    /\ MaxSessionsPerIP > 0
         => sessions[ip] + (IF Granted(ip) THEN 1 ELSE 0) <= MaxSessionsPerIP

GateInv == GateTypeOK /\ BucketInv /\ RateInv /\ CapInv

-----------------------------------------------------------------------------
(* Arithmetic of refills.                                                  *)

\* Full is a positive number.
LEMMA FullIsNat == Full \in Nat /\ Full >= Scale
BY ScaleIsPositive, BurstIsPositive DEF Full

\* A refill over some ticks is a natural number, and one tick adds Rate.
LEMMA RefillStep ==
  ASSUME NEW n \in Nat
  PROVE  /\ Rate * n \in Nat
         /\ Rate * (n + 1) = Rate * n + Rate
         /\ Rate * 0 = 0
BY RateIsNatural

\* Capping gives a number between 0 and Full.
LEMMA CappedRange ==
  ASSUME NEW u \in Nat
  PROVE  Capped(u) \in 0..Full /\ Capped(u) <= u
BY FullIsNat DEF Capped

\* An idle bucket, when refilled, is full: forgetting it loses nothing.
LEMMA IdleIsFull ==
  ASSUME GateTypeOK, BucketInv, NEW ip \in DOMAIN buckets, Idle(buckets[ip])
  PROVE  Refilled(buckets[ip]).tokens = Full
<1> DEFINE n == now - buckets[ip].last
<1>1. n \in Nat /\ n >= BucketIdleTime /\ buckets[ip].tokens \in Nat
  BY TimesAreNaturals DEF GateTypeOK, BucketInv, Idle, Bucket
<1>2. Rate * n >= Rate * BucketIdleTime
  BY <1>1, RateIsNatural, TimesAreNaturals
<1>3. Rate * n >= Full /\ Rate * n \in Nat
  BY <1>1, <1>2, IdleRefills, FullIsNat, RefillStep, RateIsNatural, TimesAreNaturals
<1>4. Capped(buckets[ip].tokens + Rate * n) = Full
  BY <1>1, <1>3, FullIsNat DEF Capped
<1> QED
  BY <1>4 DEF Refilled, GateTypeOK, Bucket

\* Whatever the sweep did, Allow works on a bucket worth Tokens(ip).
LEMMA CurrentBucket ==
  ASSUME GateTypeOK, BucketInv, NEW ip \in IP
  PROVE  /\ Current(ip) \in Bucket
         /\ Current(ip).tokens <= Full
         /\ Current(ip).last <= now
         /\ Refilled(Current(ip)) \in Bucket
         /\ Refilled(Current(ip)).tokens = Tokens(ip)
         /\ Tokens(ip) \in 0..Full
<1>1. Current(ip) \in Bucket /\ Current(ip).tokens <= Full /\ Current(ip).last <= now
  BY FullIsNat DEF Current, Kept, GateTypeOK, BucketInv, Bucket
<1>2. ASSUME NEW b \in Bucket, b.last <= now
      PROVE  /\ Refilled(b) \in Bucket
             /\ Refilled(b).tokens \in 0..Full
  <2>1. now - b.last \in Nat /\ b.tokens \in Nat
    BY <1>2 DEF GateTypeOK, Bucket
  <2>2. b.tokens + Rate * (now - b.last) \in Nat
    BY <2>1, RefillStep, RateIsNatural
  <2>3. Capped(b.tokens + Rate * (now - b.last)) \in 0..Full
    BY <2>2, CappedRange
  <2> QED
    BY <2>3, FullIsNat, <1>2 DEF Refilled, Bucket, GateTypeOK
<1>3. Refilled(Current(ip)).tokens = Tokens(ip)
  <2>1. CASE ip \in Kept
    BY <2>1 DEF Current, Tokens, Kept
  <2>2. CASE ip \in DOMAIN buckets \ Kept
    <3>1. Idle(buckets[ip])
      BY <2>2 DEF Kept, Forgotten
    <3>2. Tokens(ip) = Full
      BY <2>2, <3>1, IdleIsFull DEF Tokens
    <3>3. Refilled(Current(ip)).tokens = Capped(Full + Rate * 0)
      BY <2>2 DEF Current, Refilled, GateTypeOK
    <3> QED
      BY <3>2, <3>3, RefillStep, FullIsNat DEF Capped
  <2>3. CASE ip \notin DOMAIN buckets
    <3>1. Refilled(Current(ip)).tokens = Capped(Full + Rate * 0)
      BY <2>3 DEF Current, Refilled, GateTypeOK, Kept
    <3> QED
      BY <2>3, <3>1, RefillStep, FullIsNat DEF Capped, Tokens
  <2> QED
    BY <2>1, <2>2, <2>3 DEF Kept
<1> QED
  BY <1>1, <1>2, <1>3

\* The sweep and the store of one bucket change nobody else's tokens.
LEMMA StoreKeeps ==
  ASSUME GateTypeOK, BucketInv, NEW ip \in IP, NEW b \in Bucket,
         b.tokens <= Full, b.last <= now, Store(ip, b), now' = now
  PROVE  /\ DOMAIN buckets' \subseteq IP
         /\ \A j \in DOMAIN buckets' : buckets'[j] \in Bucket
         /\ BucketInv'
         /\ lastSwep' \in 0..now'
         /\ \A j \in IP \ {ip} : Tokens(j)' = Tokens(j)
         /\ Tokens(ip)' = Refilled(b).tokens
<1>1. /\ DOMAIN buckets' = Kept \cup {ip}
      /\ Kept \subseteq DOMAIN buckets
      /\ \A j \in Kept \ {ip} : buckets'[j] = buckets[j]
      /\ buckets'[ip] = b
  BY DEF Store, Kept
<1>2. lastSwep' \in 0..now'
  BY DEF Store, GateTypeOK
<1>3. /\ DOMAIN buckets' \subseteq IP
      /\ \A j \in DOMAIN buckets' : buckets'[j] \in Bucket
      /\ BucketInv'
  BY <1>1 DEF GateTypeOK, BucketInv
<1>4. ASSUME NEW j \in IP \ {ip} PROVE Tokens(j)' = Tokens(j)
  <2>1. CASE j \in Kept
    BY <1>1, <2>1 DEF Tokens, Refilled
  <2>2. CASE j \in DOMAIN buckets \ Kept
    <3>1. Idle(buckets[j])
      BY <2>2 DEF Kept, Forgotten
    <3> QED
      BY <1>1, <2>2, <3>1, IdleIsFull DEF Tokens
  <2>3. CASE j \notin DOMAIN buckets
    BY <1>1, <2>3 DEF Tokens
  <2> QED
    BY <2>1, <2>2, <2>3
<1>5. Tokens(ip)' = Refilled(b).tokens
  BY <1>1 DEF Tokens, Refilled
<1> QED
  BY <1>2, <1>3, <1>4, <1>5

\* A bucket refilled at this tick is worth the tokens it holds.
LEMMA RefilledNow ==
  ASSUME GateTypeOK, NEW b \in Bucket, b.tokens <= Full, b.last = now
  PROVE  Refilled(b).tokens = b.tokens
<1>1. Refilled(b).tokens = Capped(b.tokens + Rate * 0)
  BY DEF Refilled, GateTypeOK
<1> QED
  BY <1>1, RefillStep, FullIsNat DEF Capped, Bucket

-----------------------------------------------------------------------------
(* The steps.                                                              *)

\* A refusal that stores a bucket worth what it was worth before.
LEMMA RefusalKeepsInv ==
  ASSUME GateInv, NEW ip \in IP, NEW b \in Bucket,
         b.tokens <= Full, b.last <= now, Store(ip, b),
         Refilled(b).tokens = Tokens(ip),
         UNCHANGED <<now, sessions, total, banned, grant, alive, since, admitted>>
  PROVE  GateInv'
<1>1. /\ DOMAIN buckets' \subseteq IP
      /\ \A j \in DOMAIN buckets' : buckets'[j] \in Bucket
      /\ BucketInv'
      /\ lastSwep' \in 0..now'
      /\ \A j \in IP : Tokens(j)' = Tokens(j)
  BY StoreKeeps DEF GateInv
<1>2. GateTypeOK'
  BY <1>1 DEF GateInv, GateTypeOK
<1>3. RateInv'
  BY <1>1 DEF GateInv, RateInv
<1>4. CapInv'
  BY DEF GateInv, CapInv, Granted
<1> QED
  BY <1>1, <1>2, <1>3, <1>4 DEF GateInv

LEMMA DenyBannedKeepsInv ==
  ASSUME GateInv, NEW ip \in IP, DenyBanned(ip)
  PROVE  GateInv'
<1>1. /\ DOMAIN buckets' = Kept
      /\ Kept \subseteq DOMAIN buckets
      /\ \A j \in Kept : buckets'[j] = buckets[j]
  BY DEF DenyBanned, Swept, Restrict, Kept
<1>2. UNCHANGED <<now, sessions, total, banned, grant, alive, since, admitted>>
  BY DEF DenyBanned
<1>3. lastSwep' \in 0..now'
  BY DEF DenyBanned, GateInv, GateTypeOK
<1>4. ASSUME NEW j \in IP PROVE Tokens(j)' = Tokens(j)
  <2>1. CASE j \in DOMAIN buckets \ Kept
    <3>1. Idle(buckets[j])
      BY <2>1 DEF Kept, Forgotten
    <3> QED
      BY <1>1, <2>1, <3>1, IdleIsFull DEF Tokens, GateInv
  <2> QED
    BY <1>1, <1>2, <2>1 DEF Tokens, Refilled
<1>5. GateTypeOK' /\ BucketInv'
  BY <1>1, <1>2, <1>3 DEF GateInv, GateTypeOK, BucketInv
<1>6. RateInv'
  BY <1>2, <1>4 DEF GateInv, RateInv
<1>7. CapInv'
  BY <1>2 DEF GateInv, CapInv, Granted
<1> QED
  BY <1>5, <1>6, <1>7 DEF GateInv

LEMMA DenyBlockedKeepsInv ==
  ASSUME GateInv, NEW ip \in IP, DenyBlocked(ip)
  PROVE  GateInv'
<1>1. GateTypeOK /\ BucketInv
  BY DEF GateInv
<1>2. Store(ip, Current(ip))
  BY DEF DenyBlocked
<1>3. UNCHANGED <<now, sessions, total, banned, grant, alive, since, admitted>>
  BY DEF DenyBlocked
<1> QED
  BY <1>1, <1>2, <1>3, CurrentBucket, RefusalKeepsInv

LEMMA DenyExhaustedKeepsInv ==
  ASSUME GateInv, NEW ip \in IP, DenyExhausted(ip)
  PROVE  GateInv'
<1> DEFINE b == Refilled(Current(ip))
           c == [tokens |-> b.tokens, last |-> now, blockedUntil |-> now + BlockDuration]
<1>1. GateTypeOK /\ BucketInv
  BY DEF GateInv
<1>2. b \in Bucket /\ b.tokens = Tokens(ip) /\ Tokens(ip) \in 0..Full
  BY <1>1, CurrentBucket
<1> HIDE DEF b
<1>3. c \in Bucket /\ c.tokens = b.tokens /\ c.tokens <= Full /\ c.last = now /\ c.last <= now
  BY <1>1, <1>2, TimesAreNaturals, FullIsNat DEF Bucket, GateTypeOK
<1>4. Store(ip, c)
  BY DEF DenyExhausted, b
<1>5. UNCHANGED <<now, sessions, total, banned, grant, alive, since, admitted>>
  BY DEF DenyExhausted
<1> HIDE DEF c
<1>6. Refilled(c).tokens = Tokens(ip)
  BY <1>1, <1>2, <1>3, RefilledNow
<1> QED
  BY <1>3, <1>4, <1>5, <1>6, RefusalKeepsInv

LEMMA DenyCappedKeepsInv ==
  ASSUME GateInv, NEW ip \in IP, DenyCapped(ip)
  PROVE  GateInv'
<1> DEFINE b == Refilled(Current(ip))
<1>1. GateTypeOK /\ BucketInv
  BY DEF GateInv
<1>2. /\ b \in Bucket
      /\ b.tokens = Tokens(ip)
      /\ b.tokens <= Full
      /\ b.last = now /\ b.last <= now
  BY <1>1, CurrentBucket DEF Refilled, GateTypeOK
<1>3. Store(ip, b)
  BY DEF DenyCapped
<1>4. UNCHANGED <<now, sessions, total, banned, grant, alive, since, admitted>>
  BY DEF DenyCapped
<1> HIDE DEF b
<1>5. Refilled(b).tokens = Tokens(ip)
  BY <1>1, <1>2, RefilledNow
<1> QED
  BY <1>2, <1>3, <1>4, <1>5, RefusalKeepsInv

\* The token that Admit takes pays for the admission it counts.
LEMMA AdmitKeepsInv ==
  ASSUME GateInv, NEW ip \in IP, Admit(ip)
  PROVE  GateInv'
<1> DEFINE b == Refilled(Current(ip))
           c == [tokens |-> b.tokens - Scale, last |-> now, blockedUntil |-> b.blockedUntil]
<1>1. GateTypeOK /\ BucketInv
  BY DEF GateInv
<1>2. b \in Bucket /\ b.tokens = Tokens(ip) /\ Tokens(ip) \in 0..Full
  BY <1>1, CurrentBucket
<1>3. b.tokens >= Scale /\ Store(ip, c)
  BY DEF Admit
<1>4. /\ grant = NoGrant
      /\ grant' = [ip |-> ip, registered |-> FALSE]
      /\ admitted' = IF now >= since THEN [admitted EXCEPT ![ip] = @ + 1] ELSE admitted
      /\ UNCHANGED <<now, sessions, total, banned, alive, since>>
      /\ ~PerIPFull(sessions, ip)
  BY DEF Admit, Deciding
<1> HIDE DEF b
<1>5. /\ c \in Bucket
      /\ c.tokens = Tokens(ip) - Scale
      /\ c.tokens <= Full
      /\ c.last = now /\ c.last <= now
  BY <1>1, <1>2, <1>3, FullIsNat, ScaleIsPositive DEF Bucket, GateTypeOK
<1> HIDE DEF c
<1>6. Refilled(c).tokens = Tokens(ip) - Scale
  BY <1>1, <1>5, RefilledNow
<1>7. /\ DOMAIN buckets' \subseteq IP
      /\ \A j \in DOMAIN buckets' : buckets'[j] \in Bucket
      /\ BucketInv'
      /\ lastSwep' \in 0..now'
      /\ \A j \in IP \ {ip} : Tokens(j)' = Tokens(j)
      /\ Tokens(ip)' = Tokens(ip) - Scale
  BY <1>1, <1>3, <1>4, <1>5, <1>6, StoreKeeps
<1>8. GateTypeOK'
  <2>1. grant' \in Grant
    BY <1>4 DEF Grant
  <2>2. admitted' \in [IP -> Nat]
    BY <1>1, <1>4 DEF GateTypeOK
  <2> QED
    BY <1>1, <1>4, <1>7, <2>1, <2>2 DEF GateTypeOK
<1>9. RateInv'
  <2> SUFFICES ASSUME NEW j \in IP
               PROVE  /\ now' < since' => admitted'[j] = 0
                      /\ now' >= since' => admitted'[j] * Scale + Tokens(j)'
                                             <= Full + Rate * (now' - since')
    BY DEF RateInv
  <2>1. /\ now < since => admitted[j] = 0
        /\ now >= since => admitted[j] * Scale + Tokens(j) <= Full + Rate * (now - since)
    BY DEF GateInv, RateInv
  <2>2. now \in Nat /\ since \in Nat /\ admitted \in [IP -> Nat]
    BY <1>1, TimesAreNaturals DEF GateTypeOK
  <2>3. CASE j = ip /\ now >= since
    <3>1. admitted'[ip] = admitted[ip] + 1
      BY <1>4, <2>2, <2>3
    <3>2. (admitted[ip] + 1) * Scale = admitted[ip] * Scale + Scale
      BY <2>2, ScaleIsPositive
    <3>3. admitted[ip] * Scale \in Nat /\ Rate * (now - since) \in Nat
      BY <2>2, <2>3, ScaleIsPositive, RefillStep
    <3> QED
      BY <1>2, <1>4, <1>7, <2>1, <2>2, <2>3, <3>1, <3>2, <3>3, FullIsNat, ScaleIsPositive
  <2>4. CASE ~(j = ip /\ now >= since)
    <3>1. admitted'[j] = admitted[j]
      BY <1>4, <2>2, <2>4
    <3>2. j # ip => Tokens(j)' = Tokens(j)
      BY <1>7
    <3> QED
      BY <1>4, <2>1, <2>2, <2>4, <3>1, <3>2
  <2> QED
    BY <2>3, <2>4
<1>10. CapInv'
  <2>1. \A j \in IP : alive[j] <= sessions[j]
    BY <1>1, <1>4 DEF GateInv, CapInv, Granted, GateTypeOK
  <2>2. \A j \in IP : MaxSessionsPerIP > 0 => sessions[j] <= MaxSessionsPerIP
    BY <1>1, <1>4 DEF GateInv, CapInv, Granted, GateTypeOK
  <2>3. MaxSessionsPerIP > 0 => sessions[ip] + 1 <= MaxSessionsPerIP
    BY <1>1, <1>4, CapsAreNaturals DEF PerIPFull, GateTypeOK
  <2> QED
    BY <1>1, <1>4, <2>1, <2>2, <2>3 DEF CapInv, Granted, GateTypeOK
<1> QED
  BY <1>7, <1>8, <1>9, <1>10 DEF GateInv

\* The callers' steps leave the buckets alone.
LEMMA CallerKeepsInv ==
  ASSUME GateInv, Abandon \/ Register \/ Acquire \/ \E ip \in IP : Release(ip)
  PROVE  GateInv'
<1>1. UNCHANGED <<now, buckets, banned, lastSwep, since, admitted>>
  BY DEF Abandon, Register, Acquire, Release, gate
<1>2. BucketInv' /\ RateInv'
  BY <1>1 DEF GateInv, BucketInv, RateInv, Tokens, Refilled
<1>3. CASE Abandon
  <2>1. GateTypeOK'
    BY <1>1, <1>3 DEF Abandon, gate, GateInv, GateTypeOK
  <2>2. CapInv'
    BY <1>3, CapsAreNaturals DEF Abandon, gate, GateInv, GateTypeOK, CapInv, Granted, Grant
  <2> QED
    BY <1>2, <2>1, <2>2 DEF GateInv
<1>4. CASE Register
  <2>1. grant \in Grant /\ grant'.ip = grant.ip /\ grant'.registered /\ grant' \in Grant
    BY <1>4 DEF Register, GateInv, GateTypeOK, Grant
  <2>2. GateTypeOK'
    BY <1>1, <1>4, <2>1 DEF Register, gate, GateInv, GateTypeOK, Grant
  <2>3. CapInv'
    <3>1. grant' # NoGrant
      BY <2>1, NoGrantIsNoGrant
    <3> QED
      BY <1>4, <2>1, <3>1 DEF Register, gate, GateInv, GateTypeOK, CapInv, Granted, Grant
  <2> QED
    BY <1>2, <2>2, <2>3 DEF GateInv
<1>5. CASE Acquire
  <2>1. grant \in Grant /\ grant.registered /\ grant' = NoGrant
    BY <1>5 DEF Acquire, GateInv, GateTypeOK
  <2>2. sessions' = [sessions EXCEPT ![grant.ip] = @ + 1] /\ alive' = alive /\ total' = total + 1
    BY <1>5 DEF Acquire, Acquired
  <2>3. GateTypeOK'
    BY <1>1, <2>1, <2>2 DEF GateInv, GateTypeOK, Grant
  <2>4. CapInv'
    <3>1. grant # NoGrant /\ grant.ip \in IP
      BY <2>1, NoGrantIsNoGrant DEF Grant
    <3>2. ASSUME NEW j \in IP
          PROVE  /\ alive[j] <= sessions'[j]
                 /\ MaxSessionsPerIP > 0 => sessions'[j] <= MaxSessionsPerIP
      <4>1. sessions[j] \in Nat /\ alive[j] \in Nat
        BY DEF GateInv, GateTypeOK
      <4>2. CASE j = grant.ip
        <5>1. sessions'[j] = sessions[j] + 1
          BY <2>2, <3>1, <4>2 DEF GateInv, GateTypeOK
        <5>2. /\ alive[j] <= sessions[j] + 1
              /\ MaxSessionsPerIP > 0 => sessions[j] + 1 <= MaxSessionsPerIP
          BY <2>1, <3>1, <4>2 DEF GateInv, CapInv, Granted
        <5> QED
          BY <4>1, <5>1, <5>2
      <4>3. CASE j # grant.ip
        <5>1. sessions'[j] = sessions[j]
          BY <2>2, <4>3 DEF GateInv, GateTypeOK
        <5>2. /\ alive[j] <= sessions[j] + 0
              /\ MaxSessionsPerIP > 0 => sessions[j] + 0 <= MaxSessionsPerIP
          BY <4>3 DEF GateInv, CapInv, Granted
        <5> QED
          BY <4>1, <5>1, <5>2
      <4> QED
        BY <4>2, <4>3
    <3>3. \A j \in IP : alive'[j] \in Nat /\ sessions'[j] \in Nat
      BY <2>3 DEF GateTypeOK
    <3> QED
      BY <2>1, <2>2, <3>2, <3>3, CapsAreNaturals DEF CapInv, Granted
  <2> QED
    BY <1>2, <2>3, <2>4 DEF GateInv
<1>6. ASSUME NEW ip \in IP, Release(ip) PROVE GateInv'
  <2>1. /\ alive[ip] > 0
        /\ alive' = [alive EXCEPT ![ip] = @ - 1]
        /\ sessions' = [sessions EXCEPT ![ip] = IF @ <= 1 THEN 0 ELSE @ - 1]
        /\ total' = IF total > 0 THEN total - 1 ELSE 0
        /\ grant' = grant
    BY <1>6 DEF Release, Released, ReleasedTotal
  <2>2. GateTypeOK'
    BY <1>1, <2>1 DEF GateInv, GateTypeOK
  <2>3. CapInv'
    BY <2>1, CapsAreNaturals DEF GateInv, GateTypeOK, CapInv, Granted
  <2> QED
    BY <1>2, <2>2, <2>3 DEF GateInv
<1> QED
  BY <1>3, <1>4, <1>5, <1>6

LEMMA BanKeepsInv ==
  ASSUME GateInv, NEW ip \in IP, Ban(ip) \/ Unban(ip)
  PROVE  GateInv'
<1>1. UNCHANGED <<now, buckets, sessions, total, lastSwep, grant, alive, since, admitted>>
  BY DEF Ban, Unban
<1>2. GateTypeOK'
  BY <1>1 DEF Ban, Unban, GateInv, GateTypeOK
<1>3. BucketInv' /\ RateInv' /\ CapInv'
  BY <1>1 DEF GateInv, BucketInv, RateInv, CapInv, Granted, Tokens, Refilled
<1> QED
  BY <1>2, <1>3 DEF GateInv

\* A tick adds at most Rate to each bucket, as it does to the allowance.
LEMMA TickKeepsInv ==
  ASSUME GateInv, Tick
  PROVE  GateInv'
<1>1. /\ now' = now + 1
      /\ now < MaxTime
      /\ UNCHANGED <<buckets, sessions, total, banned, lastSwep, grant, alive, since, admitted>>
  BY DEF Tick, gate
<1>2. GateTypeOK' /\ BucketInv'
  <2>1. now \in Nat /\ MaxTime \in Nat /\ now' \in 0..MaxTime /\ lastSwep' \in 0..now'
    BY <1>1, TimesAreNaturals DEF GateInv, GateTypeOK
  <2>2. GateTypeOK'
    BY <1>1, <2>1 DEF GateInv, GateTypeOK
  <2>3. BucketInv'
    BY <1>1, <2>1 DEF GateInv, GateTypeOK, BucketInv, Bucket
  <2> QED
    BY <2>2, <2>3
<1>3. ASSUME NEW ip \in IP PROVE Tokens(ip)' <= Tokens(ip) + Rate /\ Tokens(ip)' \in 0..Full
  <2>1. CASE ip \in DOMAIN buckets
    <3> DEFINE n == now - buckets[ip].last
    <3>1. n \in Nat /\ buckets[ip].tokens \in Nat
      BY <2>1 DEF GateInv, GateTypeOK, BucketInv, Bucket
    <3>2. /\ Tokens(ip) = Capped(buckets[ip].tokens + Rate * n)
          /\ Tokens(ip)' = Capped(buckets[ip].tokens + Rate * (n + 1))
      <4>1. now' - buckets'[ip].last = n + 1
        BY <1>1, <2>1 DEF GateInv, GateTypeOK, BucketInv, Bucket
      <4> QED
        BY <1>1, <2>1, <4>1 DEF Tokens, Refilled
    <3> HIDE DEF n
    <3>3. Rate * (n + 1) = Rate * n + Rate /\ Rate * n \in Nat
      BY <3>1, RefillStep
    <3> QED
      BY <3>1, <3>2, <3>3, RateIsNatural, FullIsNat DEF Capped
  <2>2. CASE ip \notin DOMAIN buckets
    BY <1>1, <2>2, FullIsNat, RateIsNatural DEF Tokens
  <2> QED
    BY <2>1, <2>2
<1>4. RateInv'
  <2> SUFFICES ASSUME NEW ip \in IP
               PROVE  /\ now' < since' => admitted'[ip] = 0
                      /\ now' >= since' => admitted'[ip] * Scale + Tokens(ip)'
                                             <= Full + Rate * (now' - since')
    BY DEF RateInv
  <2>1. now \in Nat /\ since \in Nat /\ admitted[ip] \in Nat
    BY TimesAreNaturals DEF GateInv, GateTypeOK
  <2>2. CASE now >= since
    <3> DEFINE n == now - since
    <3>1. n \in Nat /\ now' - since' = n + 1
      BY <1>1, <2>1, <2>2
    <3>2. admitted[ip] * Scale + Tokens(ip) <= Full + Rate * n
      BY <2>2 DEF GateInv, RateInv
    <3> HIDE DEF n
    <3>3. Rate * (n + 1) = Rate * n + Rate /\ Rate * n \in Nat
      BY <3>1, RefillStep
    <3>4. admitted[ip] * Scale \in Nat /\ Tokens(ip) \in Nat
      BY <2>1, ScaleIsPositive, CurrentBucket, FullIsNat DEF GateInv
    <3>5. admitted[ip] * Scale + Tokens(ip)' <= Full + Rate * (n + 1)
      BY <1>3, <3>2, <3>3, <3>4, RateIsNatural, FullIsNat
    <3> QED
      BY <1>1, <2>1, <2>2, <3>1, <3>5
  <2>3. CASE now < since
    <3>1. admitted'[ip] = 0
      BY <1>1, <2>3 DEF GateInv, RateInv
    <3>2. now' >= since' => now' - since' = 0
      BY <1>1, <2>1, <2>3
    <3> QED
      BY <1>3, <3>1, <3>2, RefillStep, FullIsNat, ScaleIsPositive
  <2> QED
    BY <2>1, <2>2, <2>3
<1>5. CapInv'
  BY <1>1 DEF GateInv, CapInv, Granted
<1> QED
  BY <1>2, <1>4, <1>5 DEF GateInv

-----------------------------------------------------------------------------
LEMMA InitEstablishesInv ==
  ASSUME GateInit
  PROVE  GateInv
<1>1. GateTypeOK
  BY TimesAreNaturals, BannedAreIPs DEF GateInit, GateTypeOK
<1>2. BucketInv
  BY DEF GateInit, BucketInv
<1>3. RateInv
  <2>1. \A ip \in IP : admitted[ip] = 0 /\ Tokens(ip) = Full
    BY DEF GateInit, Tokens
  <2>2. now >= since => now - since = 0
    BY <1>1 DEF GateInit, GateTypeOK
  <2> QED
    BY <2>1, <2>2, RefillStep, FullIsNat, ScaleIsPositive DEF RateInv
<1>4. CapInv
  BY CapsAreNaturals DEF GateInit, CapInv, Granted
<1> QED
  BY <1>1, <1>2, <1>3, <1>4 DEF GateInv

LEMMA NextKeepsInv ==
  ASSUME GateInv, [GateNext]_gateVars
  PROVE  GateInv'
<1>1. ASSUME NEW ip \in IP, Allow(ip) PROVE GateInv'
  BY <1>1, DenyBannedKeepsInv, DenyBlockedKeepsInv, DenyExhaustedKeepsInv,
     DenyCappedKeepsInv, AdmitKeepsInv DEF Allow
<1>2. ASSUME NEW ip \in IP, Ban(ip) \/ Unban(ip) PROVE GateInv'
  BY <1>2, BanKeepsInv
<1>3. CASE Abandon \/ Register \/ Acquire \/ \E ip \in IP : Release(ip)
  BY <1>3, CallerKeepsInv
<1>4. CASE Tick
  BY <1>4, TickKeepsInv
<1>5. CASE UNCHANGED gateVars
  BY <1>5 DEF gateVars, GateInv, GateTypeOK, BucketInv, RateInv, CapInv, Granted, Tokens, Refilled
<1> QED
  BY <1>1, <1>2, <1>3, <1>4, <1>5 DEF GateNext

\* The inductive invariant holds in every reachable state.
THEOREM GateInvariant == GateSpec => []GateInv
<1>1. GateInit => GateInv
  BY InitEstablishesInv
<1>2. GateInv /\ [GateNext]_gateVars => GateInv'
  BY NextKeepsInv
<1> QED
  BY <1>1, <1>2, PTL DEF GateSpec

\* The state of the gate has its type (gate.go:71-83).
THEOREM TypeCorrect == GateSpec => []GateTypeOK
<1>1. GateInv => GateTypeOK
  BY DEF GateInv
<1> QED
  BY <1>1, GateInvariant, PTL

\* The token bucket of Allow bounds the admissions of every window, provided
\* an idle bucket is a full one (gate.go:135-160, 264-286).
THEOREM RateLimitHolds == GateSpec => []RateLimit
<1>1. GateInv => RateLimit
  <2> SUFFICES ASSUME GateInv, NEW ip \in IP, now >= since
               PROVE  admitted[ip] * Scale <= Full + Rate * (now - since)
    BY DEF RateLimit
  <2>1. admitted[ip] * Scale + Tokens(ip) <= Full + Rate * (now - since)
    BY DEF GateInv, RateInv
  <2>2. Tokens(ip) \in Nat
    BY CurrentBucket, FullIsNat DEF GateInv
  <2>3. admitted[ip] * Scale \in Nat /\ Rate * (now - since) \in Nat
    BY ScaleIsPositive, RefillStep, TimesAreNaturals DEF GateInv, GateTypeOK
  <2> QED
    BY <2>1, <2>2, <2>3, FullIsNat
<1> QED
  BY <1>1, GateInvariant, PTL

\* The sessions of an address that exist never exceed MaxSessionsPerIP,
\* although Acquire trails the registration (gate.go:150-153, 165-194).
THEOREM CapPerIPHolds == GateSpec => []CapPerIP
<1>1. GateInv => CapPerIP
  BY CapsAreNaturals DEF GateInv, GateTypeOK, CapInv, CapPerIP
<1> QED
  BY <1>1, GateInvariant, PTL

\* Neither Allow nor its sweep touches the bucket of a blocked address
\* before its block ends (gate.go:128-133, 272-274).
THEOREM BlockHolds == GateSpec => BlockLasts
<1>1. GateInv /\ [GateNext]_gateVars
        => [\A ip \in IP :
              /\ ip \in DOMAIN buckets
              /\ Blocked(buckets[ip])
              => ip \in DOMAIN buckets' /\ buckets'[ip] = buckets[ip]]_gateVars
  <2> SUFFICES ASSUME GateInv, GateNext, NEW ip \in IP, ip \in DOMAIN buckets, Blocked(buckets[ip])
               PROVE  ip \in DOMAIN buckets' /\ buckets'[ip] = buckets[ip]
    OBVIOUS
  <2>1. ip \in Kept /\ Current(ip) = buckets[ip]
    BY DEF Kept, Forgotten, Current
  <2>2. ASSUME NEW j \in IP, NEW b, Store(j, b), j # ip
        PROVE  ip \in DOMAIN buckets' /\ buckets'[ip] = buckets[ip]
    BY <2>1, <2>2 DEF Store
  <2>3. ASSUME NEW j \in IP, Allow(j)
        PROVE  ip \in DOMAIN buckets' /\ buckets'[ip] = buckets[ip]
    <3>1. CASE DenyBanned(j)
      BY <2>1, <3>1 DEF DenyBanned, Swept, Restrict
    <3>2. CASE j = ip /\ ~DenyBanned(j)
      BY <2>1, <2>3, <3>2 DEF Allow, DenyBlocked, DenyExhausted, DenyCapped, Admit, Store
    <3>3. CASE j # ip /\ ~DenyBanned(j)
      BY <2>2, <2>3, <3>3 DEF Allow, DenyBlocked, DenyExhausted, DenyCapped, Admit
    <3> QED
      BY <3>1, <3>2, <3>3
  <2>4. CASE ~\E j \in IP : Allow(j)
    BY <2>4 DEF GateNext, Release, Ban, Unban, Abandon, Register, Acquire, Tick, gate
  <2> QED
    BY <2>3, <2>4
<1> QED
  BY <1>1, GateInvariant, PTL DEF GateSpec, BlockLasts
=============================================================================
