-------------------------------- MODULE Gate --------------------------------
(***************************************************************************)
(* The admission gate of internal/security/gate.go: a token bucket, a      *)
(* block and a session count per address, a global count, a ban list and   *)
(* the sweep that forgets idle buckets.  Every method runs under g.mu, so  *)
(* every method is one action.                                             *)
(*                                                                         *)
(* The callers are those of internal/proxy/proxy.go.  Allow and Acquire    *)
(* are called by the listening event loop only, one request at a time:     *)
(* grant is the request it is deciding.  Release is called by the dropping *)
(* of a session, in any goroutine, as soon as the session is registered,   *)
(* hence possibly before the Acquire of that session.                      *)
(*                                                                         *)
(* Time is a counter of ticks and a token is Scale units, so that Rate,    *)
(* the refill of a bucket in units per tick, can be less than a token.     *)
(* Definitions named ..._Slip are plausible mistakes; nothing uses them.   *)
(***************************************************************************)
EXTENDS SessionCounts, Functions

CONSTANTS
  IP,              \* the addresses of clients
  NoGrant,         \* no request is being decided
  Scale, Rate,     \* units per token, units per tick (RatePerSecond)
  Burst,           \* tokens of a full bucket
  BlockDuration,   \* ticks
  SweepInterval, BucketIdleTime,
  InitiallyBanned, \* Options.Banned
  MaxTime          \* bound on the clock

ASSUME ScaleIsPositive  == Scale \in Nat /\ Scale > 0
ASSUME RateIsNatural    == Rate \in Nat
ASSUME BurstIsPositive  == Burst \in Nat /\ Burst > 0
ASSUME TimesAreNaturals == /\ BlockDuration \in Nat
                           /\ SweepInterval \in Nat
                           /\ BucketIdleTime \in Nat
                           /\ MaxTime \in Nat
ASSUME BannedAreIPs     == InitiallyBanned \subseteq IP

VARIABLES
  now,        \* the clock
  buckets,    \* a bucket for each address of its domain
  sessions, total,
  banned,
  lastSwep,
  grant,      \* the request of the event loop that Allow let through
  alive,      \* per address, the sessions registered and not yet dropped
  since,      \* start of the observed window, any tick
  admitted    \* per address, how often Allow let it through since then

gate == <<buckets, sessions, total, banned, lastSwep>>
gateVars == <<now, buckets, sessions, total, banned, lastSwep, grant, alive, since, admitted>>

Full == Burst * Scale

Bucket == [tokens : Nat, last : Nat, blockedUntil : Nat]

Grant == [ip : IP, registered : BOOLEAN]

ASSUME NoGrantIsNoGrant == NoGrant \notin Grant

GateInit ==
  /\ now = 0
  /\ buckets = [ip \in {} |-> [tokens |-> Full, last |-> 0, blockedUntil |-> 0]]
  /\ sessions = [ip \in IP |-> 0]
  /\ total = 0
  /\ banned = InitiallyBanned
  /\ lastSwep = 0
  /\ grant = NoGrant
  /\ alive = [ip \in IP |-> 0]
  /\ since \in 0..MaxTime
  /\ admitted = [ip \in IP |-> 0]

-----------------------------------------------------------------------------
(* Allow.  It sweeps first, whatever it then decides.                      *)

SweepDue == now - lastSwep >= SweepInterval

Blocked(b) == now < b.blockedUntil

Idle(b) == now - b.last >= BucketIdleTime

\* Slips: the sweep drops buckets that are in use, or blocked.
Busy_Slip ==
  {ip \in DOMAIN buckets : ~Blocked(buckets[ip]) /\ sessions[ip] = 0}
Unblocking_Slip ==
  {ip \in DOMAIN buckets : Idle(buckets[ip]) /\ sessions[ip] = 0}

\* The addresses whose bucket the sweep drops.
Forgotten ==
  {ip \in DOMAIN buckets : ~Blocked(buckets[ip]) /\ Idle(buckets[ip]) /\ sessions[ip] = 0}

Kept == IF SweepDue THEN DOMAIN buckets \ Forgotten ELSE DOMAIN buckets

Swept == Restrict(buckets, Kept)

\* The bucket Allow works on: the one that survived the sweep, or a full one.
Current(ip) ==
  IF ip \in Kept THEN buckets[ip] ELSE [tokens |-> Full, last |-> now, blockedUntil |-> 0]

Capped(units) == IF units > Full THEN Full ELSE units

Refilled(b) ==
  [tokens |-> Capped(b.tokens + Rate * (now - b.last)), last |-> now,
   blockedUntil |-> b.blockedUntil]

\* The sweep together with the bucket Allow leaves for ip.
Store(ip, b) ==
  /\ lastSwep' = IF SweepDue THEN now ELSE lastSwep
  /\ buckets' = [i \in Kept \cup {ip} |-> IF i = ip THEN b ELSE buckets[i]]

Deciding == grant = NoGrant

DenyBanned(ip) ==
  /\ Deciding
  /\ ip \in banned
  /\ lastSwep' = IF SweepDue THEN now ELSE lastSwep
  /\ buckets' = Swept
  /\ UNCHANGED <<now, sessions, total, banned, grant, alive, since, admitted>>

DenyBlocked(ip) ==
  /\ Deciding
  /\ ip \notin banned
  /\ Blocked(Current(ip))
  /\ Store(ip, Current(ip))
  /\ UNCHANGED <<now, sessions, total, banned, grant, alive, since, admitted>>

\* The bucket is empty: the address is blocked from now on.
DenyExhausted(ip) ==
  LET b == Refilled(Current(ip)) IN
  /\ Deciding
  /\ ip \notin banned
  /\ ~Blocked(Current(ip))
  /\ b.tokens < Scale
  /\ Store(ip, [tokens |-> b.tokens, last |-> now, blockedUntil |-> now + BlockDuration])
  /\ UNCHANGED <<now, sessions, total, banned, grant, alive, since, admitted>>

\* A refusal for the caps refills the bucket and takes no token from it.
DenyCapped(ip) ==
  LET b == Refilled(Current(ip)) IN
  /\ Deciding
  /\ ip \notin banned
  /\ ~Blocked(Current(ip))
  /\ b.tokens >= Scale
  /\ PerIPFull(sessions, ip) \/ ServerFull(total)
  /\ Store(ip, b)
  /\ UNCHANGED <<now, sessions, total, banned, grant, alive, since, admitted>>

Admit(ip) ==
  LET b == Refilled(Current(ip)) IN
  /\ Deciding
  /\ ip \notin banned
  /\ ~Blocked(Current(ip))
  /\ b.tokens >= Scale
  /\ ~PerIPFull(sessions, ip)
  /\ ~ServerFull(total)
  /\ Store(ip, [tokens |-> b.tokens - Scale, last |-> now, blockedUntil |-> b.blockedUntil])
  /\ grant' = [ip |-> ip, registered |-> FALSE]
  /\ admitted' = IF now >= since THEN [admitted EXCEPT ![ip] = @ + 1] ELSE admitted
  /\ UNCHANGED <<now, sessions, total, banned, alive, since>>

-----------------------------------------------------------------------------
(* The rest of the gate, and the callers.                                  *)

\* onConnectionRequest rejects an allowed request: maintenance, shutdown or
\* no backend.  The token is spent.
Abandon ==
  /\ grant # NoGrant
  /\ ~grant.registered
  /\ grant' = NoGrant
  /\ UNCHANGED <<now, gate, alive, since, admitted>>

\* onConnectionRequest publishes the session: from here it can be dropped.
Register ==
  /\ grant # NoGrant
  /\ ~grant.registered
  /\ grant' = [ip |-> grant.ip, registered |-> TRUE]
  /\ alive' = [alive EXCEPT ![grant.ip] = @ + 1]
  /\ UNCHANGED <<now, gate, since, admitted>>

Acquire ==
  /\ grant # NoGrant
  /\ grant.registered
  /\ sessions' = Acquired(sessions, grant.ip)
  /\ total' = total + 1
  /\ grant' = NoGrant
  /\ UNCHANGED <<now, buckets, banned, lastSwep, alive, since, admitted>>

\* dropSession, once per registered session.
Release(ip) ==
  /\ alive[ip] > 0
  /\ alive' = [alive EXCEPT ![ip] = @ - 1]
  /\ sessions' = Released(sessions, ip)
  /\ total' = ReleasedTotal(total)
  /\ UNCHANGED <<now, buckets, banned, lastSwep, grant, since, admitted>>

Ban(ip) ==
  /\ banned' = banned \cup {ip}
  /\ UNCHANGED <<now, buckets, sessions, total, lastSwep, grant, alive, since, admitted>>

Unban(ip) ==
  /\ ip \in banned
  /\ banned' = banned \ {ip}
  /\ UNCHANGED <<now, buckets, sessions, total, lastSwep, grant, alive, since, admitted>>

Tick ==
  /\ now < MaxTime
  /\ now' = now + 1
  /\ UNCHANGED <<gate, grant, alive, since, admitted>>

Allow(ip) ==
  DenyBanned(ip) \/ DenyBlocked(ip) \/ DenyExhausted(ip) \/ DenyCapped(ip) \/ Admit(ip)

GateNext ==
  \/ \E ip \in IP : Allow(ip) \/ Release(ip) \/ Ban(ip) \/ Unban(ip)
  \/ Abandon
  \/ Register
  \/ Acquire
  \/ Tick

GateSpec == GateInit /\ [][GateNext]_gateVars

-----------------------------------------------------------------------------
GateTypeOK ==
  /\ now \in 0..MaxTime
  /\ DOMAIN buckets \subseteq IP
  /\ \A ip \in DOMAIN buckets : buckets[ip] \in Bucket
  /\ sessions \in [IP -> Nat]
  /\ total \in Nat
  /\ banned \subseteq IP
  /\ lastSwep \in 0..now
  /\ grant \in Grant \cup {NoGrant}
  /\ alive \in [IP -> Nat]
  /\ since \in 0..MaxTime
  /\ admitted \in [IP -> Nat]

(***************************************************************************)
(* The rate limit (gate.go:135-160): in whatever window, an address is let *)
(* through at most a burst more often than its rate allows, although the   *)
(* sweep keeps replacing idle buckets by full ones.                        *)
(***************************************************************************)
RateLimit ==
  \A ip \in IP : now >= since => admitted[ip] * Scale <= Full + Rate * (now - since)

(***************************************************************************)
(* The cap of an address (gate.go:150-154) bounds the sessions that exist, *)
(* not merely the gate's own counter: Acquire comes after the session is   *)
(* registered and Release may come before Acquire.                         *)
(***************************************************************************)
CapPerIP == MaxSessionsPerIP > 0 => \A ip \in IP : alive[ip] <= MaxSessionsPerIP

(***************************************************************************)
(* An address blocked at some tick is not let through before the block has *)
(* run its time (gate.go:128-133 and 143), sweeps included: the block      *)
(* outlives the bucket's idleness.                                         *)
(***************************************************************************)
BlockLasts ==
  [][\A ip \in IP :
       /\ ip \in DOMAIN buckets
       /\ Blocked(buckets[ip])
       => ip \in DOMAIN buckets' /\ buckets'[ip] = buckets[ip]]_gateVars
=============================================================================
