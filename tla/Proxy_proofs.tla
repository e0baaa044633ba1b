----------------------------- MODULE Proxy_proofs -----------------------------
(***************************************************************************)
(* Proofs about Proxy, for any number of clients, addresses, backends,     *)
(* attempts and commands, and whatever happens: its types, the caps, who   *)
(* owns which socket and peer, the tables, the health of the backends, and *)
(* what Close leaves behind.  That the counts come right and that requests *)
(* are answered is proved for a proxy on which nobody closes sessions from *)
(* outside: doing so breaks both.                                          *)
(*                                                                         *)
(* The invariant comes in layers.  Each layer is preserved by every step   *)
(* that keeps the layers below.                                            *)
(***************************************************************************)
EXTENDS Proxy, FiniteSetTheorems, TLAPS

-----------------------------------------------------------------------------
(* Goroutines.                                                             *)

\* The goroutines there are, and that none of them is another.
LEMMA Threads ==
  /\ Loop \in Thread /\ Console \in Thread /\ Relay \in Thread /\ Closer \in Thread
  /\ Console # Loop /\ Relay # Loop /\ Closer # Loop
  /\ Console # Closer /\ Relay # Closer
  /\ \A k \in Attempt :
       /\ Up(k) \in Thread /\ Up(k) # Loop /\ Up(k) # Closer
       /\ Timer(k) \in Thread /\ Timer(k) # Loop /\ Timer(k) # Closer
  BY DEF Thread, Loop, Console, Relay, Closer, Up, Timer

-----------------------------------------------------------------------------
(* The first layer: types, and where the goroutines stand.                 *)

\* Where a goroutine is not at work for a session.
Resting == {"idle", "request", "stop", "wait", "drain", "closed"}

\* Where Loop has an attempt in hand.
Unseen   == {"check", "redirect", "pick", "register"}
Seen     == {"acquire", "link", "bind", "attach", "dial"}
Deciding == Unseen \cup Seen

Places == Resting \cup Deciding \cup
  {"close", "drop", "release", "forget", "uncount", "ready", "activate", "confirm", "refused", "failed"}

Task == [pc : Places, s : Maybe, k : Maybe, todo : SUBSET Attempt]

\* Only the command to stop names no session.
Order == {c \in Command : c.what # "stop" => c.s # Nobody}

Registered(s) == sess[s].st # "none"

NewLink == [s |-> Nobody, lease |-> "zero", mgr |-> "none"]

TaskInv ==
  /\ task \in [Thread -> Task]
  /\ \A t \in Thread : task[t].pc \notin Resting => task[t].s # Nobody

QueueInv == lq \in Seq(Order) /\ uq \in [Attempt -> Seq(Order)]

\* The commands in a queue.
Orders(q) == {q[i] : i \in 1..Len(q)}

\* What Loop has in hand.
LoopInv ==
  /\ task[Loop].pc \in {"idle", "ready"} => asking = NoClient
  /\ task[Loop].pc \in Deciding \cup {"request"} => asking # NoClient
  /\ asking # NoClient /\ task[Loop].pc \notin Deciding =>
       attempts < MaxAttempts /\ req[asking] = Nobody
  /\ task[Loop].pc \in Deciding =>
       /\ task[Loop].s = attempts /\ attempts # 0
       /\ sess[attempts].client = asking /\ answer[attempts] = "none"
  /\ task[Loop].pc \in Unseen => ~Registered(attempts)
  /\ task[Loop].pc = "register" => sess[attempts].target \in Backend
  /\ task[Loop].pc \in Seen   => Registered(attempts)

\* The attempts there have been, and those to come.
AttemptInv ==
  \A s \in Attempt :
    /\ s <= attempts => sess[s].client \in Client
    /\ s > attempts  => sess[s] = NewSession /\ answer[s] = "none"
    /\ Registered(s) => sess[s].target \in Backend

TypeInv == TypeOK /\ TaskInv /\ QueueInv /\ LoopInv /\ AttemptInv

-----------------------------------------------------------------------------
(* The second layer: whatever refers to a session refers to one that has   *)
(* been registered.                                                        *)

\* A goroutine, Loop only once it has registered what it decides.
TasksRefer ==
  \A t \in Thread :
    /\ task[t].s # Nobody /\ ~(t = Loop /\ task[t].pc \in Unseen) => Registered(task[t].s)
    /\ ~(t = Closer /\ task[t].pc = "drain") => \A s \in task[t].todo : Registered(s)

\* The tables and the timers.
TablesRefer ==
  /\ \A c \in Client : byAddr[c] # Nobody => Registered(byAddr[c])
  /\ \A s \in byID \cup armed : Registered(s)

LinksRefer == \A k \in Attempt : link[k].s # Nobody => Registered(link[k].s)

\* The commands posted to Loop, only to attempts that there have been.
QueueRefers ==
  \A cmd \in Orders(lq) :
    /\ cmd.what = "accept" => Registered(cmd.s)
    /\ cmd.s <= attempts

\* So do the peers of clients.
PeersRefer ==
  /\ At(Loop, "ready") => task[Loop].k <= attempts
  /\ \A c \in Client :
       peer[c].id <= attempts /\ (peer[c].st = "connected" => peer[c].id # Nobody)
  /\ \A s \in Attempt : sess[s].cpeer <= attempts

RefInv == TasksRefer /\ TablesRefer /\ LinksRefer /\ QueueRefers /\ PeersRefer

-----------------------------------------------------------------------------
(* The third layer: a session is dropped by one goroutine, once.           *)

Drops       == {"release", "forget", "uncount"}
Dropping(t) == task[t].pc \in Drops

\* The timer of a session works for it alone.
TimerInv == \A s \in Attempt : task[Timer(s)].s \in {Nobody, s} /\ task[Timer(s)].todo = {}

Held(s) == Registered(s) /\ sess[s].once # "done"

DropInv ==
  /\ \A t \in Thread : Dropping(t) => sess[task[t].s].once = "running"
  /\ \A t, u \in Thread : Dropping(t) /\ Dropping(u) /\ task[t].s = task[u].s => t = u
  /\ \A s \in Attempt : sess[s].once = "no" <=> sess[s].st # "closed"
  /\ \A s \in Attempt : sess[s].once = "running" => \E t \in Thread : Dropping(t) /\ task[t].s = s

\* A session is in the table of ids until its dropper takes it out.
ListedInv ==
  \A s \in Attempt :
    s \in byID <=> Held(s) /\ \A t \in Thread : At(t, "uncount") => task[t].s # s

-----------------------------------------------------------------------------
(* The sessions that the gate may have to count.                           *)

HeldOf(ip) == {s \in Attempt : Held(s) /\ IpOf[sess[s].client] = ip}
AllHeld    == {s \in Attempt : Held(s)}

\* Loop stands between two places with a request from ip.
LoopAt(places, ip) == task[Loop].pc \in places /\ IpOf[asking] = ip

\* A registered session that is not counted yet, and one admitted.
ToCount(ip)  == IF LoopAt({"acquire"}, ip) THEN 1 ELSE 0
Admitted(ip) == IF LoopAt(Unseen \cup {"acquire"}, ip) THEN 1 ELSE 0
AllToCount   == IF task[Loop].pc = "acquire" THEN 1 ELSE 0
AllAdmitted  == IF task[Loop].pc \in Unseen \cup {"acquire"} THEN 1 ELSE 0

CapInv ==
  /\ \A ip \in IP : Cardinality(HeldOf(ip)) <= count[ip] + ToCount(ip)
  /\ Cardinality(AllHeld) <= total + AllToCount
  /\ MaxSessionsPerIP > 0 => \A ip \in IP : count[ip] + Admitted(ip) <= MaxSessionsPerIP
  /\ MaxSessions > 0 => total + AllAdmitted <= MaxSessions

-----------------------------------------------------------------------------
(* Links.                                                                  *)

LinkInv ==
  /\ LinkExclusive
  /\ \A t \in Thread : At(t, "release") /\ task[t].k # Nobody =>
       link[task[t].k].s = task[t].s /\ sess[task[t].s].link = task[t].k
  /\ At(Loop, "bind") =>
       task[Loop].k # Nobody /\ task[Loop].k <= attempts /\ link[task[Loop].k].s = Nobody
  /\ At(Loop, "attach") =>
       task[Loop].k # Nobody /\ link[task[Loop].k].s = attempts
  /\ \A s \in Attempt : ~Registered(s) => sess[s].link = Nobody
  /\ task[Loop].pc \in {"acquire", "link", "bind", "attach"} => sess[attempts].link = Nobody
  /\ \A k \in Attempt :
       k > attempts \/ (k = attempts /\ task[Loop].pc \in Unseen \cup {"acquire", "link"})
         => link[k] = NewLink

-----------------------------------------------------------------------------
(* Requests and their peers.                                               *)

RequestInv ==
  /\ \A n \in Attempt : n <= attempts /\ answer[n] = "none" => req[sess[n].client] = n
  /\ \A c \in Client : req[c] # Nobody =>
       req[c] <= attempts /\ sess[req[c]].client = c /\ answer[req[c]] = "none"

OwnPeerInv ==
  /\ OwnClientPeer
  /\ At(Loop, "ready") => task[Loop].s = task[Loop].k
  /\ \A n \in Attempt : Registered(n) /\ answer[n] = "none" => byAddr[sess[n].client] \in {Nobody, n}

\* A dial is made for an attempt.
DialInv == \A k \in Attempt, b \in Backend : up[k][b].st = "outgoing" => up[k][b].id # Nobody

AcceptInv ==
  /\ AcceptedHasBackend
  /\ \A cmd \in Orders(lq) : cmd.what = "accept" => sess[cmd.s].upeer # Nobody
  /\ \A t \in Thread : At(t, "confirm") => sess[task[t].s].upeer # Nobody
  /\ \A t \in Thread : At(t, "activate") => task[t].k # Nobody

-----------------------------------------------------------------------------
(* Close.                                                                  *)

ShutdownInv ==
  /\ listening = "ended" => At(Loop, "idle")
  /\ task[Closer].pc \in {"drain", "closed"} =>
       listening = "ended" /\ \A k \in Attempt : link[k].mgr # "open"

-----------------------------------------------------------------------------
(* A proxy on which nobody closes sessions from outside.                   *)

\* No command and no Close ends a session.  Full queues may, unless excluded too.
Unbroken    == "overflow" \notin Happens
Undisturbed == Happens \cap {"kick", "move", "ban", "close"} = {}

HeldAt(b)  == {s \in Attempt : Held(s) /\ sess[s].target = b}
ToPlay(b)  == IF task[Loop].pc = "acquire" /\ sess[attempts].target = b THEN 1 ELSE 0

\* Nobody has collected sessions to close, nor is Close under way.
NobodyCloses == task[Closer].pc = "idle" /\ \A t \in Thread : task[t].todo = {}

\* Until Loop has counted a session nobody else knows of it.
PrivateInv ==
  At(Loop, "acquire") =>
    /\ sess[attempts].st = "pending" /\ attempts \notin armed
    /\ \A t \in Thread : t # Loop => task[t].s # attempts
    /\ \A k \in Attempt : link[k].s # attempts

CountInv ==
  /\ \A ip \in IP : count[ip] + ToCount(ip) = Cardinality(HeldOf(ip))
  /\ total + AllToCount = Cardinality(AllHeld)
  /\ \A b \in Backend : pool[b].players + ToPlay(b) = Cardinality(HeldAt(b))

\* An attempt is decided: its client has been told, or will be by what is queued
\* or by a goroutine on its way to queue it, or nobody listens any more.
QueuedIn(q, n) == \E cmd \in Orders(q) : cmd.s = n /\ cmd.what \in {"accept", "reject"}
Answering(t)   == task[t].pc \in {"activate", "confirm"}
Decided(n) ==
  \/ answer[n] # "none"
  \/ QueuedIn(lq, n)
  \/ \E t \in Thread : task[t].s = n /\ Answering(t)
  \/ listening = "ended"

\* A client that waits for an answer has no peer.
AskersFree == \A c \in Client : req[c] # Nobody \/ asking = c => peer[c] = NoPeer

\* No session is active, closed or about to be before its attempt is decided.
EndedDecided   == \A n \in Attempt : sess[n].st \in {"active", "closed"} => Decided(n)
ClosersDecided == \A t \in Thread : task[t].pc \in {"close", "drop"} => Decided(task[t].s)

\* Attempts without a session have been turned away, but for the one Loop looks at.
UnseenDecided ==
  \A n \in Attempt :
    n <= attempts /\ ~Registered(n) => Decided(n) \/ (n = attempts /\ task[Loop].pc \in Unseen)

LinksAnswer == \A t \in Thread : Answering(t) => \E k \in Attempt : t = Up(k)

DecidedInv == AskersFree /\ EndedDecided /\ ClosersDecided /\ UnseenDecided /\ LinksAnswer

-----------------------------------------------------------------------------
(* How a goroutine moves on.                                               *)

\* t goes on so, and no other goroutine moves.
Moves(t, pc, s, k, todo) ==
  /\ task'[t].pc = pc /\ task'[t].s = s /\ task'[t].k = k /\ task'[t].todo = todo
  /\ \A u \in Thread : u # t => task'[u] = task[u]

\* A goroutine that moves to a task of the right kind leaves all of them so.
LEMMA MovesTask ==
  ASSUME TaskInv, NEW t \in Thread, NEW x \in Task, x.pc \in Resting \/ x.s # Nobody,
         task' = [task EXCEPT ![t] = x]
  PROVE  TaskInv' /\ Moves(t, x.pc, x.s, x.k, x.todo)
  BY DEF TaskInv, Moves

\* A goroutine at work has a session in hand.
LEMMA AtWork ==
  ASSUME TaskInv, NEW t \in Thread, task[t].pc \notin Resting
  PROVE  task[t].s \in Attempt
  BY DEF TaskInv, Task, Maybe, Nobody

\* Goto changes the place alone.
LEMMA GotoMoves ==
  ASSUME TaskInv, NEW t \in Thread, NEW pc \in Places, task[t].pc \notin Resting \/ pc \in Resting,
         Goto(t, pc)
  PROVE  TaskInv' /\ Moves(t, pc, task[t].s, task[t].k, task[t].todo)
  BY DEF TaskInv, Task, Goto, Moves

\* Begin changes the place and the session.
LEMMA BeginMoves ==
  ASSUME TaskInv, NEW t \in Thread, NEW pc \in Places, NEW s \in Attempt, Begin(t, pc, s)
  PROVE  TaskInv' /\ Moves(t, pc, s, task[t].k, task[t].todo)
<1>1. s \in Maybe /\ s # Nobody
  BY DEF Maybe, Nobody, Attempt
<1> QED
  BY <1>1 DEF TaskInv, Task, Begin, Moves

\* A goroutine that has done its work has nothing in hand.
LEMMA IdleMoves ==
  ASSUME TaskInv, NEW t \in Thread, task' = [task EXCEPT ![t] = Idle]
  PROVE  TaskInv' /\ Moves(t, "idle", Nobody, Nobody, {})
<1>1. Idle \in Task /\ Idle.pc \in Resting
  BY DEF Idle, Task, Places, Resting, Maybe
<1> QED
  BY <1>1, MovesTask DEF Idle

\* Return takes up another of the sessions collected, or comes to rest.
Returns(t) ==
  \/ \E s \in task[t].todo :
       Moves(t, "close", s, Nobody, task[t].todo \ {s})
  \/ /\ task[t].todo = {}
     /\ Moves(t, IF t = Loop /\ asking # NoClient THEN "request"
                 ELSE IF t = Closer THEN "stop" ELSE "idle", Nobody, Nobody, {})

\* Return does one or the other.
LEMMA ReturnMoves ==
  ASSUME TaskInv, NEW t \in Thread, Return(t)
  PROVE  TaskInv' /\ Returns(t)
<1>1. CASE task[t].todo # {}
  <2>1. PICK s \in task[t].todo :
          task' = [task EXCEPT ![t] = [Idle EXCEPT !.pc = "close", !.s = s, !.todo = task[t].todo \ {s}]]
    BY <1>1 DEF Return
  <2> DEFINE x == [Idle EXCEPT !.pc = "close", !.s = s, !.todo = task[t].todo \ {s}]
  <2>2. s \in Maybe /\ s # Nobody
    BY DEF TaskInv, Task, Attempt, Maybe, Nobody
  <2>3. x \in Task /\ x.s # Nobody
    BY <2>2 DEF TaskInv, Task, Idle, Places, Maybe
  <2> QED
    BY <2>1, <2>3, MovesTask DEF Returns, Idle
<1>2. CASE task[t].todo = {}
  <2> DEFINE pc == IF t = Loop /\ asking # NoClient THEN "request"
                   ELSE IF t = Closer THEN "stop" ELSE "idle"
             x  == [Idle EXCEPT !.pc = pc]
  <2>1. task' = [task EXCEPT ![t] = x]
    BY <1>2 DEF Return
  <2>2. x \in Task /\ x.pc \in Resting
    BY DEF Task, Idle, Places, Resting, Maybe
  <2> QED
    BY <1>2, <2>1, <2>2, MovesTask DEF Returns, Idle
<1> QED
  BY <1>1, <1>2

\* CloseAll takes up one of the sessions of a set, or goes on without any.
LEMMA CloseAllMoves ==
  ASSUME TaskInv, NEW t \in Thread, NEW S \in SUBSET Attempt, NEW pc \in Resting, CloseAll(t, S, pc)
  PROVE  /\ TaskInv'
         /\ \/ \E s \in S : Moves(t, "close", s, Nobody, S \ {s})
            \/ S = {} /\ Moves(t, pc, task[t].s, task[t].k, task[t].todo)
<1>1. CASE S # {}
  <2>1. PICK s \in S : task' = [task EXCEPT ![t] = [Idle EXCEPT !.pc = "close", !.s = s, !.todo = S \ {s}]]
    BY <1>1 DEF CloseAll
  <2> DEFINE x == [Idle EXCEPT !.pc = "close", !.s = s, !.todo = S \ {s}]
  <2>2. s \in Maybe /\ s # Nobody
    BY DEF Maybe, Attempt, Nobody
  <2>3. x \in Task /\ x.s # Nobody
    BY <2>2 DEF Task, Idle, Places, Maybe
  <2> QED
    BY <2>1, <2>3, MovesTask DEF Idle
<1>2. CASE S = {}
  BY <1>2, GotoMoves DEF CloseAll, Places, Resting
<1> QED
  BY <1>1, <1>2
-----------------------------------------------------------------------------
(* What the types say of names and queues.                                 *)

Session ==
  [st : {"none", "pending", "active", "closed"}, once : {"no", "running", "done"},
   client : Client \cup {NoClient}, target : Backend \cup {NoBackend},
   link : Maybe, upeer : Maybe, cpeer : Maybe]

LinkState ==
  [s : Maybe, lease : {"zero", "running", "expired"},
   mgr : {"none", "open", "doomed", "told", "stopping", "ended"}]

\* The types, by what they are about.
LEMMA SessionsTyped == ASSUME TypeInv PROVE sess \in [Attempt -> Session]
  BY DEF TypeInv, TypeOK, Session

\* Tasks.
LEMMA TasksTyped ==
  ASSUME TypeInv
  PROVE  \A t \in Thread :
           /\ task[t] \in [pc : Places, s : Maybe, k : Maybe, todo : SUBSET Attempt]
           /\ task[t].pc \notin Resting => task[t].s # Nobody
  BY DEF TypeInv, TaskInv, Task

\* Links, and the peers they have towards backends.
LEMMA LinksTyped ==
  ASSUME TypeInv
  PROVE  /\ link \in [Attempt -> LinkState] /\ links \in [Client -> Maybe]
         /\ up \in [Attempt -> [Backend -> PeerState]]
  BY DEF TypeInv, TypeOK, LinkState

\* Giving links up tells nobody but those who stop them.
LEMMA GivenUpTyped ==
  ASSUME TypeInv, NEW ks
  PROVE  /\ GivenUp(ks) \in [Attempt -> LinkState]
         /\ \A k \in Attempt : GivenUp(ks)[k].s = link[k].s
<1>1. ASSUME NEW k \in Attempt
      PROVE  [link[k] EXCEPT !.mgr = "doomed"] \in LinkState /\ [link[k] EXCEPT !.mgr = "doomed"].s = link[k].s
  BY LinksTyped DEF LinkState
<1>2. \A k \in Attempt : GivenUp(ks)[k] \in {link[k], [link[k] EXCEPT !.mgr = "doomed"]}
  BY DEF GivenUp
<1> QED
  BY <1>1, <1>2, LinksTyped DEF GivenUp

\* What is kept for each client.
LEMMA ClientsTyped ==
  ASSUME TypeInv
  PROVE  /\ req \in [Client -> Maybe] /\ byAddr \in [Client -> Maybe]
         /\ peer \in [Client -> PeerState]
         /\ asking \in Client \cup {NoClient} /\ NoClient \notin Client
  BY ClientsHaveIPs DEF TypeInv, TypeOK

\* Attempts are numbers, and 0 stands for none of them.
LEMMA AttemptsTyped ==
  ASSUME TypeInv
  PROVE  /\ attempts \in Nat /\ MaxAttempts \in Nat /\ attempts <= MaxAttempts
         /\ Attempt = 1..MaxAttempts /\ Nobody = 0 /\ Maybe = Attempt \cup {0}
         /\ answer \in [Attempt -> {"none", "accepted", "rejected"}]
  BY AttemptsBound DEF TypeInv, TypeOK, Attempt, Nobody, Maybe

\* A set of numbers that is not empty has a least one.
LEMMA LeastMember ==
  ASSUME NEW S, S \subseteq Nat, S # {}
  PROVE  \E n \in S : \A m \in S : n <= m
<1> DEFINE R == OpToRel(<, Nat)
<1>1. IsWellFoundedOn(R, Nat)
  BY NatLessThanWellFounded
<1> HIDE DEF R
<1>2. PICK n \in S : \A m \in S : ~ (<<m, n>> \in R)
  BY <1>1, WFMin
<1>3. \A k, m \in Nat : <<m, k>> \in R <=> m < k
  BY DEF R, OpToRel
<1>4. ASSUME NEW m \in S
      PROVE  n <= m
  <2>1. n \in Nat /\ m \in Nat /\ ~ (m < n)
    BY <1>2, <1>3
  <2> QED
    BY <2>1
<1> QED
  BY <1>4

\* Pick names a backend, or none.
LEMMA PickIsBackend ==
  ASSUME NEW preferred \in Backend \cup {NoBackend}
  PROVE  Pick(pool, preferred) \in Backend \cup {NoBackend}
<1>1. FirstUsable(pool) \in Backend \cup {NoBackend}
  <2> DEFINE usable == {i \in 1..Len(BackendOrder) : Usable(pool, BackendOrder[i])}
             first  == CHOOSE i \in usable : \A j \in usable : i <= j
  <2>1. CASE usable = {}
    BY <2>1 DEF FirstUsable
  <2>2. CASE usable # {}
    <3> HIDE DEF usable
    <3>0. usable \subseteq Nat
      BY DEF usable
    <3>1. \E i \in usable : \A j \in usable : i <= j
      BY <2>2, <3>0, LeastMember
    <3>2. first \in 1..Len(BackendOrder)
      BY <3>1 DEF usable
    <3>3. BackendOrder[first] \in Backend
      BY <3>2, OrderListsBackends
    <3> QED
      BY <2>2, <3>3 DEF FirstUsable, usable
  <2> QED
    BY <2>1, <2>2
<1> QED
  BY <1>1 DEF Pick

\* What stands for an attempt is one, unless it is nobody.
LEMMA NamedAttempts ==
  ASSUME TypeInv
  PROVE  /\ \A c \in Client : byAddr[c] # Nobody => byAddr[c] \in Attempt
         /\ \A k \in Attempt : link[k].s # Nobody => link[k].s \in Attempt
         /\ byID \subseteq Attempt /\ armed \subseteq Attempt
         /\ \A C \in SUBSET Client : Listed(C) \subseteq Attempt
<1>1. /\ byAddr \in [Client -> Maybe] /\ byID \subseteq Attempt /\ armed \subseteq Attempt
      /\ link \in [Attempt -> [s : Maybe, lease : {"zero", "running", "expired"},
                               mgr : {"none", "open", "doomed", "told", "stopping", "ended"}]]
  BY DEF TypeInv, TypeOK
<1> QED
  BY <1>1 DEF Maybe, Listed, Nobody

\* An attempt there has been is that of some client.
LEMMA ClientOfAttempt ==
  ASSUME TypeInv, NEW n \in Attempt, n <= attempts
  PROVE  sess[n].client \in Client
  BY DEF TypeInv, AttemptInv

\* The command at the head of a queue, and those left behind it.
LEMMA HeadOf ==
  ASSUME NEW q \in Seq(Order), q # <<>>
  PROVE  /\ Head(q) \in Orders(q) /\ Tail(q) \in Seq(Order)
         /\ Orders(q) = {Head(q)} \cup Orders(Tail(q))
<1>1. /\ Len(q) \in Nat /\ 1 \in 1..Len(q) /\ Head(q) = q[1]
      /\ Tail(q) \in Seq(Order) /\ Len(Tail(q)) = Len(q) - 1
      /\ \A i \in 1..Len(Tail(q)) : Tail(q)[i] = q[i + 1]
  OBVIOUS
<1>2. \A i \in 1..Len(q) : i = 1 \/ (i - 1 \in 1..Len(Tail(q)) /\ q[i] = Tail(q)[i - 1])
  BY <1>1
<1>3. \A i \in 1..Len(Tail(q)) : i + 1 \in 1..Len(q)
  BY <1>1
<1>4. Head(q) \in Orders(q)
  BY <1>1 DEF Orders
<1>5. Orders(q) \subseteq {Head(q)} \cup Orders(Tail(q))
  BY <1>1, <1>2 DEF Orders
<1>6. Orders(Tail(q)) \subseteq Orders(q)
  BY <1>1, <1>3 DEF Orders
<1> QED
  BY <1>1, <1>4, <1>5, <1>6

\* What is in a queue when a command has been posted to it.
LEMMA PostedTo ==
  ASSUME NEW q \in Seq(Order), NEW cmd \in Order
  PROVE  /\ q \o <<cmd>> \in Seq(Order) /\ Orders(q \o <<cmd>>) = Orders(q) \cup {cmd}
         /\ Append(q, cmd) = q \o <<cmd>>
<1> DEFINE r == q \o <<cmd>>
<1>1. /\ Len(q) \in Nat /\ r \in Seq(Order) /\ Len(r) = Len(q) + 1 /\ r[Len(q) + 1] = cmd
      /\ \A i \in 1..Len(q) : r[i] = q[i]
  OBVIOUS
<1>2. 1..Len(r) = 1..Len(q) \cup {Len(q) + 1}
  BY <1>1
<1> HIDE DEF r
<1> QED
  BY <1>1, <1>2 DEF Orders, r

\* Commands that name an attempt, and the one to stop, are orders.
LEMMA CommandsAreOrders ==
  /\ \A s \in Attempt, what \in {"reject", "accept", "disconnect"} :
       Cmd(what, s) \in Order /\ Cmd(what, s).what = what /\ Cmd(what, s).s = s
  /\ Cmd("stop", Nobody) \in Order /\ Cmd("stop", Nobody).what = "stop" /\ Cmd("stop", Nobody).s = Nobody
  BY DEF Cmd, Order, Command, Attempt, Maybe, Nobody

\* The same for the queue of Loop.
LEMMA HeadOfQueue ==
  ASSUME TypeInv, RefInv, lq # <<>>
  PROVE  /\ Head(lq) \in Order /\ Head(lq).s \in Maybe /\ Head(lq).s <= attempts
         /\ Head(lq).what = "accept" => Registered(Head(lq).s)
         /\ Head(lq).what # "stop" => Head(lq).s \in Attempt
         /\ Tail(lq) \in Seq(Order) /\ Orders(lq) = {Head(lq)} \cup Orders(Tail(lq))
<1>1. /\ lq \in Seq(Order) /\ Head(lq) \in Order /\ Head(lq) \in Orders(lq)
      /\ Tail(lq) \in Seq(Order) /\ Orders(lq) = {Head(lq)} \cup Orders(Tail(lq))
  BY HeadOf DEF TypeInv, QueueInv
<1>2. Head(lq).s <= attempts /\ (Head(lq).what = "accept" => Registered(Head(lq).s))
  BY <1>1 DEF RefInv, QueueRefers
<1> QED
  BY <1>1, <1>2 DEF Order, Command, Maybe

\* The commands of a set are posted to Loop.
Posts(cmds) ==
  /\ lq' \in Seq(Order)
  /\ Orders(lq') = IF Ended(listening) THEN Orders(lq) ELSE Orders(lq) \cup cmds

\* A command posted to Loop is queued unless Loop has ended.
LEMMA PostedToLoop ==
  ASSUME TypeInv, NEW cmd \in Order, PostLoop(<<cmd>>)
  PROVE  Posts({cmd})
  BY PostedTo DEF PostLoop, Posted, Posts, TypeInv, QueueInv

\* The same for the queue of a link.
LEMMA HeadUp ==
  ASSUME TypeInv, NEW k \in Attempt, uq[k] # <<>>
  PROVE  Head(uq[k]) \in Order /\ Tail(uq[k]) \in Seq(Order)
  BY HeadOf DEF TypeInv, QueueInv

\* A link's queue takes orders alone.
LEMMA PostedToUp ==
  ASSUME TypeInv, NEW k, NEW cmd \in Order, uq' = PostedUp(k, <<cmd>>)
  PROVE  uq' \in [Attempt -> Seq(Order)]
  BY PostedTo DEF PostedUp, Posted, TypeInv, QueueInv

-----------------------------------------------------------------------------
(* What becomes of a session besides its names.                            *)

\* What a goroutine works on has been registered, except where Loop decides.
LEMMA InHandRegistered ==
  ASSUME TypeInv, RefInv, NEW t \in Thread, task[t].pc \notin Resting \cup Unseen
  PROVE  task[t].s \in Attempt /\ Registered(task[t].s)
  BY AtWork DEF TypeInv, RefInv, TasksRefer, Attempt, Nobody

\* Sessions keep their client, their backend, and that they are registered,
\* and nobody touches one that is not.
NamesKept ==
  /\ attempts' = attempts
  /\ \A s \in Attempt :
       /\ sess'[s].client = sess[s].client /\ sess'[s].target = sess[s].target
       /\ Registered(s)' <=> Registered(s)
       /\ ~Registered(s) => sess'[s] = sess[s]

\* Of the actions that write to a session, only two name it.
LEMMA NamesAreKept ==
  ASSUME TypeInv, RefInv
  PROVE  /\ \A t \in Thread : DropBegin(t) \/ Uncount(t) => NamesKept
         /\ Attach \/ ClientReady => NamesKept
         /\ \A k \in Attempt : Activate(k) => NamesKept
         /\ \A k \in Attempt, b \in Backend : BackendAccepts(k, b) => NamesKept
<1>1. ASSUME NEW t \in Thread, DropBegin(t) PROVE NamesKept
  <2>1. task[t].s \in Attempt /\ Registered(task[t].s)
    BY <1>1, InHandRegistered DEF DropBegin, At, Resting, Unseen
  <2> QED
    BY <1>1, <2>1, SessionsTyped DEF DropBegin, NamesKept, Registered, Session, listenVars
<1>2. ASSUME NEW t \in Thread, Uncount(t) PROVE NamesKept
  <2>1. task[t].s \in Attempt /\ Registered(task[t].s)
    BY <1>2, InHandRegistered DEF Uncount, At, Resting, Unseen
  <2> QED
    BY <1>2, <2>1, SessionsTyped DEF Uncount, NamesKept, Registered, Session, listenVars
<1>3. ASSUME Attach PROVE NamesKept
  <2>1. task[Loop].s \in Attempt /\ Registered(task[Loop].s)
    BY <1>3, InHandRegistered, Threads DEF Attach, At, Resting, Unseen
  <2> QED
    BY <1>3, <2>1, SessionsTyped DEF Attach, NamesKept, Registered, Session, listenVars
<1>4. ASSUME ClientReady PROVE NamesKept
  <2>1. task[Loop].s \in Attempt /\ Registered(task[Loop].s)
    BY <1>4, InHandRegistered, Threads DEF ClientReady, At, Resting, Unseen
  <2> QED
    BY <1>4, <2>1, SessionsTyped DEF ClientReady, NamesKept, Registered, Session, listenVars
<1>5. ASSUME NEW k \in Attempt, Activate(k) PROVE NamesKept
  <2>1. task[Up(k)].s \in Attempt /\ Registered(task[Up(k)].s)
    BY <1>5, InHandRegistered, Threads DEF Activate, At, Resting, Unseen
  <2> QED
    BY <1>5, <2>1, SessionsTyped DEF Activate, NamesKept, Registered, Session, listenVars
<1>6. ASSUME NEW k \in Attempt, NEW b \in Backend, BackendAccepts(k, b) PROVE NamesKept
  <2>1. link[k].s # Nobody => link[k].s \in Attempt /\ Registered(link[k].s)
    BY NamedAttempts DEF RefInv, LinksRefer
  <2> QED
    BY <1>6, <2>1, SessionsTyped DEF BackendAccepts, NamesKept, Registered, Session, listenVars
<1> QED
  BY <1>1, <1>2, <1>3, <1>4, <1>5, <1>6

\* Where the names are kept, those of the last attempt are.
LEMMA LastIsKept ==
  ASSUME TypeInv, NamesKept, attempts # 0
  PROVE  /\ attempts' = attempts /\ sess'[attempts].client = sess[attempts].client
         /\ sess'[attempts].target = sess[attempts].target
         /\ sess'[attempts].st = "none" <=> sess[attempts].st = "none"
  BY AttemptsTyped DEF NamesKept, Registered

\* Only the backend of the attempt that Loop looks at is written.
TargetChosen ==
  /\ task[Loop].s = attempts /\ attempts \in Attempt /\ ~Registered(attempts) /\ attempts' = attempts
  /\ \A s \in Attempt :
       /\ sess'[s].st = sess[s].st /\ sess'[s].once = sess[s].once /\ sess'[s].client = sess[s].client
       /\ sess'[s].link = sess[s].link
       /\ sess'[s].upeer = sess[s].upeer /\ sess'[s].cpeer = sess[s].cpeer
       /\ s # attempts => sess'[s] = sess[s]

\* That is all that happens to sessions before one is registered.
LEMMA ChoosesTarget ==
  ASSUME TypeInv, TakeRedirect \/ PickBackend
  PROVE  TargetChosen
<1>1. /\ task[Loop].s = attempts /\ attempts \in Attempt /\ ~Registered(attempts)
      /\ attempts' = attempts
  BY AttemptsTyped DEF TakeRedirect, PickBackend, At, TypeInv, LoopInv, Deciding, Unseen, Seen, listenVars
<1>2. PICK b : sess' = [sess EXCEPT ![attempts].target = b]
  BY <1>1 DEF TakeRedirect, PickBackend
<1> QED
  BY <1>1, <1>2, SessionsTyped DEF TargetChosen, Session

-----------------------------------------------------------------------------
(* Where each action leads its goroutine.                                  *)

\* Where ConnectRequest leads.
LEMMA ConnectRequestMoves ==
  ASSUME TypeInv, RefInv, NEW c \in Client, ConnectRequest(c)
  PROVE  /\ TaskInv'
         /\ \/ peer[c].st = "connected" /\ byAddr[c] # Nobody /\ Moves(Loop, "close", byAddr[c], task[Loop].k, task[Loop].todo)
            \/ Moves(Loop, "request", task[Loop].s, task[Loop].k, task[Loop].todo)
  BY BeginMoves, GotoMoves, NamedAttempts, Threads DEF ConnectRequest, Places, Resting, Deciding,
     Unseen, Seen, TypeInv

\* Where ClientGone leads.
LEMMA ClientGoneMoves ==
  ASSUME TypeInv, RefInv, NEW c \in Client, ClientGone(c)
  PROVE  /\ TaskInv'
         /\ \/ UNCHANGED task
            \/ byAddr[c] # Nobody /\ Moves(Loop, "close", byAddr[c], task[Loop].k, task[Loop].todo)
<1>1. CASE byAddr[c] = Nobody
  BY <1>1 DEF ClientGone, ClientLost, TypeInv, TaskInv
<1>2. CASE byAddr[c] # Nobody
  BY <1>2, BeginMoves, NamedAttempts, Threads DEF ClientGone, ClientLost, Places, Resting, Deciding,
     Unseen, Seen, TypeInv
<1> QED
  BY <1>1, <1>2

\* Where Request leads.
LEMMA RequestMoves ==
  ASSUME TypeInv, RefInv, Request
  PROVE  /\ TaskInv'
         /\ \/ asking' = NoClient /\ Moves(Loop, "idle", Nobody, Nobody, {})
            \/ asking' = asking /\ Moves(Loop, "check", attempts + 1, task[Loop].k, task[Loop].todo)
<1>1. attempts \in Nat /\ attempts < MaxAttempts
  BY AttemptsBound DEF Request, At, TypeInv, TypeOK, LoopInv, Places, Resting, Deciding, Unseen,
     Seen
<1>2. attempts + 1 \in Attempt
  BY <1>1, AttemptsBound DEF Attempt
<1> QED
  BY <1>2, BeginMoves, IdleMoves, Threads DEF Request, Refuse, Places, Resting, Deciding, Unseen,
     Seen, TypeInv

\* Where Check leads.
LEMMA CheckMoves ==
  ASSUME TypeInv, RefInv, Check
  PROVE  /\ TaskInv'
         /\ \/ asking' = NoClient /\ Moves(Loop, "idle", Nobody, Nobody, {})
            \/ asking' = asking /\ Moves(Loop, "redirect", task[Loop].s, task[Loop].k, task[Loop].todo)
  BY GotoMoves, IdleMoves, Threads DEF Check, Refuse, At, Places, Resting, Deciding, Unseen, Seen,
     TypeInv

\* Where TakeRedirect leads.
LEMMA TakeRedirectMoves ==
  ASSUME TypeInv, RefInv, TakeRedirect
  PROVE  TaskInv' /\ Moves(Loop, "pick", task[Loop].s, task[Loop].k, task[Loop].todo)
  BY GotoMoves, Threads DEF TakeRedirect, At, Places, Resting, Deciding, Unseen, Seen, TypeInv

\* Where PickBackend leads.
LEMMA PickBackendMoves ==
  ASSUME TypeInv, RefInv, PickBackend
  PROVE  /\ TaskInv'
         /\ \/ asking' = NoClient /\ Moves(Loop, "idle", Nobody, Nobody, {})
            \/ /\ asking' = asking /\ Moves(Loop, "register", task[Loop].s, task[Loop].k, task[Loop].todo)
               /\ Pick(pool, sess[task[Loop].s].target) # NoBackend
  BY GotoMoves, IdleMoves, Threads DEF PickBackend, Refuse, At, Places, Resting, Deciding, Unseen,
     Seen, TypeInv

\* Where Register leads.
LEMMA RegisterMoves ==
  ASSUME TypeInv, RefInv, Register
  PROVE  TaskInv' /\ Moves(Loop, "acquire", task[Loop].s, task[Loop].k, task[Loop].todo)
  BY GotoMoves, Threads DEF Register, At, Places, Resting, Deciding, Unseen, Seen, TypeInv

\* Where Acquire leads.
LEMMA AcquireMoves ==
  ASSUME TypeInv, RefInv, Acquire
  PROVE  TaskInv' /\ Moves(Loop, "link", task[Loop].s, task[Loop].k, task[Loop].todo)
  BY GotoMoves, Threads DEF Acquire, At, Places, Resting, Deciding, Unseen, Seen, TypeInv

\* Where ReuseLink leads.
LEMMA ReuseLinkMoves ==
  ASSUME TypeInv, RefInv, ReuseLink
  PROVE  TaskInv' /\ Moves(Loop, "bind", task[Loop].s, links[asking], task[Loop].todo)
<1>1. task[Loop] \in Task /\ task[Loop].s # Nobody /\ task[Loop].pc \notin Resting
  BY Threads, AtWork DEF ReuseLink, At, TypeInv, TaskInv, Places, Resting, Deciding, Unseen, Seen
<1>2. [task[Loop] EXCEPT !.pc = "bind", !.k = links[asking]] \in Task
  BY <1>1 DEF Task, Places, Resting, Deciding, Unseen, Seen, TypeInv, TypeOK, ReuseLink, LoopInv, At
<1>3. task' = [task EXCEPT ![Loop] = [task[Loop] EXCEPT !.pc = "bind", !.k = links[asking]]]
  BY Threads DEF ReuseLink, TypeInv, TaskInv
<1>4. TaskInv' /\ Moves(Loop, "bind", task[Loop].s, links[asking], task[Loop].todo)
  <2> DEFINE x == [task[Loop] EXCEPT !.pc = "bind", !.k = links[asking]]
  <2>1. x.pc = "bind" /\ x.s = task[Loop].s /\ x.k = links[asking] /\ x.todo = task[Loop].todo
    BY <1>1 DEF Task
  <2> HIDE DEF x
  <2> QED
    BY <1>1, <1>2, <1>3, <2>1, MovesTask, Threads DEF x, TypeInv
<1> QED
  BY <1>4

\* Where OpenLink leads.
LEMMA OpenLinkMoves ==
  ASSUME TypeInv, RefInv, OpenLink
  PROVE  TaskInv' /\ Moves(Loop, "bind", task[Loop].s, task[Loop].s, task[Loop].todo)
<1>1. task[Loop] \in Task /\ task[Loop].s # Nobody /\ task[Loop].pc \notin Resting
  BY Threads, AtWork DEF OpenLink, At, TypeInv, TaskInv, Places, Resting, Deciding, Unseen, Seen
<1>2. [task[Loop] EXCEPT !.pc = "bind", !.k = task[Loop].s] \in Task
  BY <1>1 DEF Task, Places, Resting, Deciding, Unseen, Seen, TypeInv, TypeOK
<1>3. task' = [task EXCEPT ![Loop] = [task[Loop] EXCEPT !.pc = "bind", !.k = task[Loop].s]]
  BY Threads DEF OpenLink, TypeInv, TaskInv
<1>4. TaskInv' /\ Moves(Loop, "bind", task[Loop].s, task[Loop].s, task[Loop].todo)
  <2> DEFINE x == [task[Loop] EXCEPT !.pc = "bind", !.k = task[Loop].s]
  <2>1. x.pc = "bind" /\ x.s = task[Loop].s /\ x.k = task[Loop].s /\ x.todo = task[Loop].todo
    BY <1>1 DEF Task
  <2> HIDE DEF x
  <2> QED
    BY <1>1, <1>2, <1>3, <2>1, MovesTask, Threads DEF x, TypeInv
<1> QED
  BY <1>4

\* Where OpenLinkFails leads.
LEMMA OpenLinkFailsMoves ==
  ASSUME TypeInv, RefInv, OpenLinkFails
  PROVE  TaskInv' /\ Moves(Loop, "drop", task[Loop].s, task[Loop].k, task[Loop].todo)
  BY GotoMoves, Threads DEF OpenLinkFails, At, Places, Resting, Deciding, Unseen, Seen, TypeInv

\* Where Bind leads.
LEMMA BindMoves ==
  ASSUME TypeInv, RefInv, Bind
  PROVE  TaskInv' /\ Moves(Loop, "attach", task[Loop].s, task[Loop].k, task[Loop].todo)
  BY GotoMoves, Threads DEF Bind, At, Places, Resting, Deciding, Unseen, Seen, TypeInv

\* Where Attach leads.
LEMMA AttachMoves ==
  ASSUME TypeInv, RefInv, Attach
  PROVE  TaskInv' /\ Moves(Loop, "dial", task[Loop].s, task[Loop].k, task[Loop].todo)
  BY GotoMoves, Threads DEF Attach, At, Places, Resting, Deciding, Unseen, Seen, TypeInv

\* Where Dial leads.
LEMMA DialMoves ==
  ASSUME TypeInv, RefInv, Dial
  PROVE  TaskInv' /\ Moves(Loop, "idle", Nobody, Nobody, {})
  BY IdleMoves, Threads DEF Dial, TypeInv

\* Where ClientReady leads.
LEMMA ClientReadyMoves ==
  ASSUME TypeInv, RefInv, ClientReady
  PROVE  TaskInv' /\ Moves(Loop, "idle", Nobody, Nobody, {})
  BY IdleMoves, Threads DEF ClientReady, TypeInv

\* Where RunAccept leads.
LEMMA RunAcceptMoves ==
  ASSUME TypeInv, RefInv, RunAccept
  PROVE  /\ TaskInv'
         /\ \/ UNCHANGED task
            \/ byAddr[sess[Head(lq).s].client] # Nobody
               /\ Moves(Loop, "ready", byAddr[sess[Head(lq).s].client], Head(lq).s, task[Loop].todo)
<1> DEFINE n == Head(lq).s
           c == sess[n].client
           x == [task[Loop] EXCEPT !.pc = "ready", !.s = byAddr[c], !.k = n]
<1>1. n \in Attempt /\ n <= attempts
  BY HeadOfQueue DEF RunAccept, HeadIs, Order, Maybe
<1>2. c \in Client
  BY <1>1, ClientOfAttempt
<1>3. CASE UNCHANGED task
  BY <1>3 DEF TypeInv, TaskInv
<1>4. CASE ~UNCHANGED task
  <2>1. byAddr[c] # Nobody /\ task' = [task EXCEPT ![Loop] = x]
    BY <1>4, Threads DEF RunAccept, TypeInv, TaskInv
  <2>2. byAddr[c] \in Attempt
    BY <1>2, <2>1, NamedAttempts
  <2>3. x \in Task
    BY <1>1, <2>1, <2>2, Threads DEF TypeInv, TaskInv, Task, Maybe, Places
  <2>4. x.pc = "ready" /\ x.s = byAddr[c] /\ x.k = n /\ x.todo = task[Loop].todo
    BY Threads DEF TypeInv, TaskInv, Task
  <2> HIDE DEF x
  <2> QED
    BY <2>1, <2>3, <2>4, MovesTask, Threads DEF TypeInv
<1> QED
  BY <1>3, <1>4

\* Where RunDisconnect leads.
LEMMA RunDisconnectMoves ==
  ASSUME TypeInv, RefInv, RunDisconnect
  PROVE  /\ TaskInv'
         /\ \/ UNCHANGED task
            \/ /\ byAddr[sess[Head(lq).s].client] # Nobody
               /\ peer[sess[Head(lq).s].client] = AcceptedPeer(Head(lq).s)
               /\ Moves(Loop, "close", byAddr[sess[Head(lq).s].client], task[Loop].k, task[Loop].todo)
<1> DEFINE n == Head(lq).s
           c == sess[n].client
<1>1. n \in Attempt /\ n <= attempts
  BY HeadOfQueue DEF RunDisconnect, HeadIs, Order, Maybe
<1>2. c \in Client
  BY <1>1, ClientOfAttempt
<1>3. CASE UNCHANGED task
  BY <1>3 DEF TypeInv, TaskInv
<1>4. CASE ~UNCHANGED task
  <2>1. peer[c] = AcceptedPeer(n) /\ byAddr[c] # Nobody /\ Begin(Loop, "close", byAddr[c])
    BY <1>4 DEF RunDisconnect, ClientLost
  <2>2. byAddr[c] \in Attempt
    BY <1>2, <2>1, NamedAttempts
  <2> QED
    BY <2>1, <2>2, BeginMoves, Threads DEF Places, Resting, Deciding, Unseen, Seen, TypeInv
<1> QED
  BY <1>3, <1>4

\* Where CloseSession leads.
LEMMA CloseSessionMoves ==
  ASSUME TypeInv, RefInv, NEW t \in Thread, CloseSession(t)
  PROVE  /\ TaskInv'
         /\ \/ sess[task[t].s].st = "closed" /\ Returns(t)
            \/ sess[task[t].s].st # "closed" /\ Moves(t, "drop", task[t].s, task[t].k, task[t].todo)
  BY ReturnMoves, GotoMoves DEF CloseSession, At, Places, Resting, Deciding, Unseen, Seen, TypeInv

\* Where DropBegin leads.
LEMMA DropBeginMoves ==
  ASSUME TypeInv, RefInv, NEW t \in Thread, DropBegin(t)
  PROVE  TaskInv' /\ Moves(t, "release", task[t].s, sess[task[t].s].link, task[t].todo)
<1>1. task[t] \in Task /\ task[t].s # Nobody /\ task[t].pc \notin Resting
  BY Threads, AtWork DEF DropBegin, At, TypeInv, TaskInv, Places, Resting, Deciding, Unseen, Seen
<1>2. [task[t] EXCEPT !.pc = "release", !.k = sess[task[t].s].link] \in Task
  BY <1>1, AtWork DEF Task, Places, Resting, Deciding, Unseen, Seen, TypeInv, TypeOK
<1>3. task' = [task EXCEPT ![t] = [task[t] EXCEPT !.pc = "release", !.k = sess[task[t].s].link]]
  BY Threads DEF DropBegin, TypeInv, TaskInv
<1>4. TaskInv' /\ Moves(t, "release", task[t].s, sess[task[t].s].link, task[t].todo)
  <2> DEFINE x == [task[t] EXCEPT !.pc = "release", !.k = sess[task[t].s].link]
  <2>1. x.pc = "release" /\ x.s = task[t].s /\ x.k = sess[task[t].s].link /\ x.todo = task[t].todo
    BY <1>1 DEF Task
  <2> HIDE DEF x
  <2> QED
    BY <1>1, <1>2, <1>3, <2>1, MovesTask, Threads DEF x, TypeInv
<1> QED
  BY <1>4

\* Where DropWaited leads.
LEMMA DropWaitedMoves ==
  ASSUME TypeInv, RefInv, NEW t \in Thread, DropWaited(t)
  PROVE  TaskInv' /\ Returns(t)
  BY ReturnMoves DEF DropWaited, TypeInv

\* Where ReleaseLink leads.
LEMMA ReleaseLinkMoves ==
  ASSUME TypeInv, RefInv, NEW t \in Thread, ReleaseLink(t)
  PROVE  TaskInv' /\ Moves(t, "forget", task[t].s, task[t].k, task[t].todo)
  BY GotoMoves, Threads DEF ReleaseLink, At, Places, Resting, Deciding, Unseen, Seen, TypeInv

\* Where Forget leads.
LEMMA ForgetMoves ==
  ASSUME TypeInv, RefInv, NEW t \in Thread, Forget(t)
  PROVE  TaskInv' /\ Moves(t, "uncount", task[t].s, task[t].k, task[t].todo)
  BY GotoMoves, Threads DEF Forget, At, Places, Resting, Deciding, Unseen, Seen, TypeInv

\* Where Uncount leads.
LEMMA UncountMoves ==
  ASSUME TypeInv, RefInv, NEW t \in Thread, Uncount(t)
  PROVE  TaskInv' /\ Returns(t)
  BY ReturnMoves DEF Uncount, TypeInv

\* Where Activate leads.
LEMMA ActivateMoves ==
  ASSUME TypeInv, RefInv, NEW k \in Attempt, Activate(k)
  PROVE  TaskInv' /\ Moves(Up(k), "confirm", task[Up(k)].s, task[Up(k)].k, task[Up(k)].todo)
  BY GotoMoves, Threads DEF Activate, At, Places, Resting, Deciding, Unseen, Seen, TypeInv

\* Where Confirm leads.
LEMMA ConfirmMoves ==
  ASSUME TypeInv, RefInv, NEW k \in Attempt, Confirm(k)
  PROVE  TaskInv' /\ Moves(Up(k), "idle", Nobody, Nobody, {})
  BY IdleMoves, Threads DEF Confirm, TypeInv

\* Where Refused leads.
LEMMA RefusedMoves ==
  ASSUME TypeInv, RefInv, NEW t \in Thread, Refused(t)
  PROVE  TaskInv' /\ Moves(t, "drop", task[t].s, task[t].k, task[t].todo)
  BY GotoMoves, Threads DEF Refused, At, Places, Resting, Deciding, Unseen, Seen, TypeInv

\* Where Failed leads.
LEMMA FailedMoves ==
  ASSUME TypeInv, RefInv, NEW t \in Thread, Failed(t)
  PROVE  TaskInv' /\ Moves(t, "drop", task[t].s, task[t].k, task[t].todo)
  BY GotoMoves, Threads DEF Failed, At, Places, Resting, Deciding, Unseen, Seen, TypeInv

\* Where the steps of a goroutine that closes a session or reports a failure start.
LEMMA Departures ==
  ASSUME NEW t \in Thread
  PROVE  /\ CloseSession(t) => task[t].pc = "close"
         /\ DropBegin(t) \/ DropWaited(t) => task[t].pc = "drop"
         /\ ReleaseLink(t) => task[t].pc = "release"
         /\ Forget(t) => task[t].pc = "forget"
         /\ Uncount(t) => task[t].pc = "uncount"
         /\ Refused(t) => task[t].pc = "refused"
         /\ Failed(t) => task[t].pc = "failed"
  BY DEF CloseSession, DropBegin, DropWaited, ReleaseLink, Forget, Uncount, Refused, Failed, At

\* A link's loop hears of its backend while at rest.
LEMMA UpDepartures ==
  ASSUME NEW k \in Attempt, NEW b \in Backend, NEW rejected \in BOOLEAN,
         \/ RunUpDisconnect(k) \/ BackendAccepts(k, b) \/ DialFails(k, b, rejected) \/ BackendGone(k, b)
  PROVE  task[Up(k)].pc = "idle"
  BY DEF RunUpDisconnect, BackendAccepts, DialFails, BackendGone, UpFree, At

\* Where BackendAccepts leads.
LEMMA BackendAcceptsMoves ==
  ASSUME TypeInv, RefInv, NEW k \in Attempt, NEW b \in Backend, BackendAccepts(k, b)
  PROVE  /\ TaskInv'
         /\ \/ UNCHANGED <<sess, task>>
            \/ link[k].s # Nobody /\ sess[link[k].s].st = "pending" /\ Moves(Up(k), "activate", link[k].s, up[k][b].id, task[Up(k)].todo)
<1> DEFINE s == link[k].s
           x == [task[Up(k)] EXCEPT !.pc = "activate", !.s = s, !.k = up[k][b].id]
<1>1. CASE UNCHANGED <<sess, task>>
  BY <1>1 DEF TypeInv, TaskInv
<1>2. CASE ~UNCHANGED <<sess, task>>
  <2>1. s # Nobody /\ sess[s].st = "pending" /\ task' = [task EXCEPT ![Up(k)] = x]
    BY <1>2, Threads DEF BackendAccepts, TypeInv, TaskInv
  <2>2. s \in Attempt /\ up[k][b].id \in Maybe
    BY <2>1, NamedAttempts DEF TypeInv, TypeOK, PeerState
  <2>3. x \in Task
    <3>1. task[Up(k)] \in Task
      BY Threads DEF TypeInv, TaskInv
    <3> QED
      BY <2>2, <3>1 DEF Task, Maybe, Places
  <2>4. x.pc = "activate" /\ x.s = s /\ x.k = up[k][b].id /\ x.todo = task[Up(k)].todo
    BY Threads DEF TypeInv, TaskInv, Task
  <2> HIDE DEF x
  <2> QED
    BY <2>1, <2>3, <2>4, MovesTask, Threads DEF TypeInv
<1> QED
  BY <1>1, <1>2

\* Where UpstreamLost leads.
LEMMA UpstreamLostMoves ==
  ASSUME TypeInv, RefInv, NEW k \in Attempt, NEW rejected \in BOOLEAN, UpstreamLost(k, rejected)
  PROVE  /\ TaskInv'
         /\ \/ UNCHANGED task
            \/ /\ link[k].s # Nobody
               /\ \E pc \in {"close", "refused", "failed"} :
                    /\ pc = "close" <=> sess[link[k].s].st # "pending"
                    /\ Moves(Up(k), pc, link[k].s, task[Up(k)].k, task[Up(k)].todo)
<1>1. CASE link[k].s = Nobody
  BY <1>1 DEF UpstreamLost, TypeInv, TaskInv
<1>2. CASE link[k].s # Nobody
  <2>1. link[k].s \in Attempt
    BY <1>2, NamedAttempts
  <2>2. PICK pc \in {"close", "refused", "failed"} :
          Begin(Up(k), pc, link[k].s) /\ (pc = "close" <=> sess[link[k].s].st # "pending")
    BY <1>2 DEF UpstreamLost
  <2> QED
    BY <1>2, <2>1, <2>2, BeginMoves, Threads DEF Places, Resting, Deciding, Unseen, Seen, TypeInv
<1> QED
  BY <1>1, <1>2

\* Where RunUpDisconnect leads.
LEMMA RunUpDisconnectMoves ==
  ASSUME TypeInv, RefInv, NEW k \in Attempt, RunUpDisconnect(k)
  PROVE  /\ TaskInv'
         /\ \/ UNCHANGED task
            \/ /\ link[k].s # Nobody
               /\ \E pc \in {"close", "refused", "failed"} :
                    /\ pc = "close" <=> sess[link[k].s].st # "pending"
                    /\ Moves(Up(k), pc, link[k].s, task[Up(k)].k, task[Up(k)].todo)
<1>1. CASE UNCHANGED task
  BY <1>1 DEF TypeInv, TaskInv
<1>2. CASE ~UNCHANGED task
  BY <1>2, UpstreamLostMoves DEF RunUpDisconnect
<1> QED
  BY <1>1, <1>2

\* Where DialFails leads.
LEMMA DialFailsMoves ==
  ASSUME TypeInv, RefInv, NEW k \in Attempt, NEW b \in Backend, NEW rejected \in BOOLEAN, DialFails(k, b, rejected)
  PROVE  /\ TaskInv'
         /\ \/ UNCHANGED task
            \/ /\ link[k].s # Nobody
               /\ \E pc \in {"close", "refused", "failed"} :
                    /\ pc = "close" <=> sess[link[k].s].st # "pending"
                    /\ Moves(Up(k), pc, link[k].s, task[Up(k)].k, task[Up(k)].todo)
<1>1. CASE UNCHANGED task
  BY <1>1 DEF TypeInv, TaskInv
<1>2. CASE ~UNCHANGED task
  BY <1>2, UpstreamLostMoves DEF DialFails
<1> QED
  BY <1>1, <1>2

\* Where BackendGone leads.
LEMMA BackendGoneMoves ==
  ASSUME TypeInv, RefInv, NEW k \in Attempt, NEW b \in Backend, BackendGone(k, b)
  PROVE  /\ TaskInv'
         /\ \/ UNCHANGED task
            \/ /\ link[k].s # Nobody
               /\ \E pc \in {"close", "refused", "failed"} :
                    /\ pc = "close" <=> sess[link[k].s].st # "pending"
                    /\ Moves(Up(k), pc, link[k].s, task[Up(k)].k, task[Up(k)].todo)
<1>1. CASE UNCHANGED task
  BY <1>1 DEF TypeInv, TaskInv
<1>2. CASE ~UNCHANGED task
  BY <1>2, UpstreamLostMoves DEF BackendGone
<1> QED
  BY <1>1, <1>2

\* Where TimerFires leads.
LEMMA TimerFiresMoves ==
  ASSUME TypeInv, RefInv, NEW s \in Attempt, TimerFires(s)
  PROVE  TaskInv' /\ Moves(Timer(s), "failed", s, task[Timer(s)].k, task[Timer(s)].todo)
  BY BeginMoves, NamedAttempts, Threads DEF TimerFires, Places, Resting, Deciding, Unseen, Seen,
     TypeInv

\* Where RelayBreaks leads.
LEMMA RelayBreaksMoves ==
  ASSUME TypeInv, RefInv, NEW s \in Attempt, RelayBreaks(s)
  PROVE  TaskInv' /\ Moves(Relay, "close", s, task[Relay].k, task[Relay].todo)
  BY BeginMoves, NamedAttempts, Threads DEF RelayBreaks, Places, Resting, Deciding, Unseen, Seen,
     TypeInv

\* Where Kick leads.
LEMMA KickMoves ==
  ASSUME TypeInv, RefInv, NEW s \in Attempt, Kick(s)
  PROVE  TaskInv' /\ Moves(Console, "close", s, task[Console].k, task[Console].todo)
  BY BeginMoves, NamedAttempts, Threads DEF Kick, Places, Resting, Deciding, Unseen, Seen, TypeInv

\* Where Move leads.
LEMMA MoveMoves ==
  ASSUME TypeInv, RefInv, NEW s \in Attempt, NEW b \in Backend, Move(s, b)
  PROVE  TaskInv' /\ Moves(Console, "close", s, task[Console].k, task[Console].todo)
  BY BeginMoves, NamedAttempts, Threads DEF Move, Places, Resting, Deciding, Unseen, Seen, TypeInv

\* Where Ban leads.
LEMMA BanMoves ==
  ASSUME TypeInv, RefInv, NEW ip \in IP, Ban(ip)
  PROVE  /\ TaskInv'
         /\ \/ \E s \in Listed({c \in Client : IpOf[c] = ip}) : Moves(Console, "close", s, Nobody, Listed({c \in Client : IpOf[c] = ip}) \ {s})
            \/ Listed({c \in Client : IpOf[c] = ip}) = {} /\ Moves(Console, "idle", task[Console].s, task[Console].k, task[Console].todo)
  BY CloseAllMoves, NamedAttempts, Threads DEF Ban, Places, Resting, Deciding, Unseen, Seen, TypeInv

\* Where CloseProxy leads.
LEMMA CloseProxyMoves ==
  ASSUME TypeInv, RefInv, CloseProxy
  PROVE  /\ TaskInv'
         /\ \/ \E s \in Listed(Client) : Moves(Closer, "close", s, Nobody, Listed(Client) \ {s})
            \/ Listed(Client) = {} /\ Moves(Closer, "stop", task[Closer].s, task[Closer].k, task[Closer].todo)
  BY CloseAllMoves, NamedAttempts, Threads DEF CloseProxy, Places, Resting, Deciding, Unseen, Seen,
     TypeInv

\* Where StopListening leads.
LEMMA StopListeningMoves ==
  ASSUME TypeInv, RefInv, StopListening
  PROVE  TaskInv' /\ Moves(Closer, "wait", task[Closer].s, task[Closer].k, task[Closer].todo)
  BY GotoMoves, Threads DEF StopListening, At, Places, Resting, Deciding, Unseen, Seen, TypeInv

\* Where LinksStopped leads.
LEMMA LinksStoppedMoves ==
  ASSUME TypeInv, RefInv, LinksStopped
  PROVE  TaskInv' /\ Moves(Closer, "closed", Nobody, Nobody, {})
<1>1. [Idle EXCEPT !.pc = "closed"] \in Task
  BY DEF Task, Idle, Maybe, Places, Resting, Deciding, Unseen, Seen
<1> QED
  BY <1>1, MovesTask, Threads DEF LinksStopped, TypeInv, Idle, Resting

\* Where StopAllLinks leads.
LEMMA StopAllLinksMoves ==
  ASSUME TypeInv, RefInv, StopAllLinks
  PROVE  TaskInv' /\ \E ks \in SUBSET Attempt : Moves(Closer, "drain", Nobody, Nobody, ks)
<1> DEFINE ks == {links[c] : c \in Client} \ {Nobody}
<1>1. ks \in SUBSET Attempt
  BY DEF TypeInv, TypeOK, Maybe, Nobody
<1>2. [Idle EXCEPT !.pc = "drain", !.todo = ks] \in Task
  BY <1>1 DEF Task, Idle, Maybe, Places, Resting, Deciding, Unseen, Seen
<1> QED
  BY <1>1, <1>2, MovesTask, Threads DEF StopAllLinks, TypeInv, Idle, Resting

-----------------------------------------------------------------------------
(* What each action posts.                                                 *)

\* A refusal is queued for Loop itself.
LEMMA RefusePosts ==
  ASSUME TypeInv, NEW n \in Attempt, Refuse(n)
  PROVE  asking' = NoClient /\ Posts({Cmd("reject", n)})
  BY PostedToLoop, CommandsAreOrders DEF Refuse

\* What each action posts.
LEMMA ClientTalksPosts ==
  ASSUME TypeInv, RefInv, NEW c \in Client, ClientTalks(c)
  PROVE  peer[c].id \in Attempt /\ Posts({Cmd("disconnect", peer[c].id)})
<1>1. peer[c].id \in Attempt
  BY ClientsTyped, AttemptsTyped DEF ClientTalks, RefInv, PeersRefer, PeerState
<1> QED
  BY <1>1, PostedToLoop, CommandsAreOrders DEF ClientTalks

\* What Request posts.
LEMMA RequestPosts ==
  ASSUME TypeInv, RefInv, Request
  PROVE  \/ asking' = NoClient /\ Posts({Cmd("reject", attempts + 1)})
         \/ asking' = asking /\ lq' = lq
<1>1. attempts + 1 \in Attempt
  BY AttemptsTyped DEF Request, At, TypeInv, LoopInv, Deciding, Unseen, Seen
<1> QED
  BY <1>1, RefusePosts DEF Request

\* What Check posts.
LEMMA CheckPosts ==
  ASSUME TypeInv, RefInv, Check
  PROVE  \/ asking' = NoClient /\ Posts({Cmd("reject", task[Loop].s)})
         \/ asking' = asking /\ lq' = lq
<1>1. task[Loop].s \in Attempt
  BY AtWork, Threads DEF Check, At, TypeInv, Resting
<1> QED
  BY <1>1, RefusePosts DEF Check

\* What PickBackend posts.
LEMMA PickBackendPosts ==
  ASSUME TypeInv, RefInv, PickBackend
  PROVE  \/ asking' = NoClient /\ Posts({Cmd("reject", task[Loop].s)})
         \/ asking' = asking /\ lq' = lq
<1>1. task[Loop].s \in Attempt
  BY AtWork, Threads DEF PickBackend, At, TypeInv, Resting
<1> QED
  BY <1>1, RefusePosts DEF PickBackend

\* What OpenLinkFails posts.
LEMMA OpenLinkFailsPosts ==
  ASSUME TypeInv, RefInv, OpenLinkFails
  PROVE  Posts({Cmd("reject", task[Loop].s)})
<1>1. task[Loop].s \in Attempt
  BY AtWork, Threads DEF OpenLinkFails, At, TypeInv, Resting
<1> QED
  BY <1>1, PostedToLoop, CommandsAreOrders DEF OpenLinkFails

\* What RunAccept posts.
LEMMA RunAcceptPosts ==
  ASSUME TypeInv, RefInv, RunAccept
  PROVE  /\ lq' \in Seq(Order)
         /\ \/ Orders(lq') = Orders(Tail(lq))
            \/ /\ byAddr[sess[Head(lq).s].client] = Nobody
               /\ Orders(lq') = Orders(Tail(lq)) \cup {Cmd("disconnect", Head(lq).s)}
<1>1. Head(lq).s \in Attempt /\ Tail(lq) \in Seq(Order)
  BY HeadOfQueue DEF RunAccept, HeadIs
<1>2. Cmd("disconnect", Head(lq).s) \in Order
  BY <1>1, CommandsAreOrders
<1> QED
  BY <1>1, <1>2, PostedTo DEF RunAccept

\* Both peers are told, if they exist.
LEMMA CloseSessionPosts ==
  ASSUME TypeInv, RefInv, NEW t \in Thread, CloseSession(t)
  PROVE  /\ \/ lq' \in Seq(Order) /\ Orders(lq') = Orders(lq)
            \/ /\ sess[task[t].s].cpeer \in Attempt
               /\ Posts({Cmd("disconnect", sess[task[t].s].cpeer)})
         /\ uq' \in [Attempt -> Seq(Order)]
<1> DEFINE s == task[t].s
<1>1. s \in Attempt /\ sess[s].cpeer \in Maybe /\ sess[s].upeer \in Maybe
  BY AtWork, SessionsTyped DEF CloseSession, At, TypeInv, Resting, Session
<1>2. CASE sess[s].st = "closed"
  BY <1>2 DEF CloseSession, TypeInv, QueueInv
<1>3. CASE sess[s].st # "closed"
  <2>1. \/ lq' \in Seq(Order) /\ Orders(lq') = Orders(lq)
        \/ sess[s].cpeer \in Attempt /\ Posts({Cmd("disconnect", sess[s].cpeer)})
    <3>1. CASE sess[s].cpeer = Nobody
      BY <1>3, <3>1 DEF CloseSession, PostLoop, Posted, TypeInv, QueueInv
    <3>2. CASE sess[s].cpeer # Nobody
      BY <1>1, <1>3, <3>2, PostedToLoop, CommandsAreOrders DEF CloseSession, Maybe
    <3> QED
      BY <3>1, <3>2
  <2>2. uq' \in [Attempt -> Seq(Order)]
    <3>1. CASE uq' = uq
      BY <3>1 DEF TypeInv, QueueInv
    <3>2. CASE uq' # uq
      BY <1>1, <1>3, <3>2, PostedToUp, CommandsAreOrders DEF CloseSession, Maybe
    <3> QED
      BY <3>1, <3>2
  <2> QED
    BY <2>1, <2>2
<1> QED
  BY <1>2, <1>3

\* What Confirm posts.
LEMMA ConfirmPosts ==
  ASSUME TypeInv, RefInv, NEW k \in Attempt, Confirm(k)
  PROVE  task[Up(k)].s \in Attempt /\ Posts({Cmd("accept", task[Up(k)].s)})
<1>1. task[Up(k)].s \in Attempt
  BY AtWork, Threads DEF Confirm, At, TypeInv, Resting
<1> QED
  BY <1>1, PostedToLoop, CommandsAreOrders DEF Confirm

\* What Refused posts.
LEMMA RefusedPosts ==
  ASSUME TypeInv, RefInv, NEW t \in Thread, Refused(t) \/ Failed(t)
  PROVE  task[t].s \in Attempt /\ Posts({Cmd("reject", task[t].s)})
<1>1. task[t].s \in Attempt
  BY AtWork, Threads DEF Refused, Failed, At, TypeInv, Resting
<1> QED
  BY <1>1, PostedToLoop, CommandsAreOrders DEF Refused, Failed

\* What StopListening posts.
LEMMA StopListeningPosts ==
  ASSUME TypeInv, RefInv, StopListening
  PROVE  Posts({Cmd("stop", Nobody)})
  BY PostedToLoop, CommandsAreOrders DEF StopListening

\* What Dial posts.
LEMMA DialPosts ==
  ASSUME TypeInv, RefInv, Dial
  PROVE  uq' \in [Attempt -> Seq(Order)]
<1> DEFINE cmd == [what |-> "connect", s |-> task[Loop].s, b |-> sess[task[Loop].s].target]
<1>1. task[Loop].s \in Attempt
  BY AtWork, Threads DEF Dial, At, TypeInv, Resting
<1>2. cmd \in Order
  BY <1>1, SessionsTyped DEF Session, Order, Command, Maybe, Attempt, Nobody
<1> QED
  BY <1>2, PostedToUp DEF Dial

\* What PostStop posts.
LEMMA PostStopPosts ==
  ASSUME TypeInv, RefInv, NEW k \in Attempt, PostStop(k)
  PROVE  uq' \in [Attempt -> Seq(Order)]
  BY PostedToUp, CommandsAreOrders DEF PostStop

-----------------------------------------------------------------------------
(* What each action may write: every variable by its writers.              *)

Writes_attempts ==
  \/ Request
Writes_req ==
  \/ Request \/ RunReject \/ RunAccept
Writes_answer ==
  \/ RunReject \/ RunAccept
Writes_peer ==
  \/ \E c \in Client : ConnectRequest(c) \/ ClientGone(c) \/ PeerForgotten(c)
  \/ RunAccept \/ RunDisconnect \/ RunStop \/ LoopEnds
Writes_lq ==
  \/ \E c \in Client : ClientTalks(c)
  \/ Request \/ Check \/ PickBackend \/ OpenLinkFails \/ RunReject \/ RunAccept \/ RunDisconnect
     \/ RunStop \/ LoopEnds \/ StopListening
  \/ \E t \in Thread : CloseSession(t) \/ Refused(t) \/ Failed(t)
  \/ \E k \in Attempt : Confirm(k)
Writes_listening ==
  \/ RunStop \/ LoopEnds
Writes_asking ==
  \/ \E c \in Client : ConnectRequest(c)
  \/ Request \/ Check \/ PickBackend \/ OpenLinkFails \/ Dial
Writes_byAddr ==
  \/ Register
  \/ \E t \in Thread : Forget(t)
Writes_byID ==
  \/ Register
  \/ \E t \in Thread : Forget(t)
Writes_links ==
  \/ OpenLink \/ OpenLinkFails \/ StopAllLinks
  \/ \E c \in Client : SweepLink(c)
Writes_redirects ==
  \/ TakeRedirect
  \/ \E s \in Attempt, b \in Backend : Move(s, b)
Writes_maintenance ==
  \/ \E on \in BOOLEAN : SetMaintenance(on)
Writes_stopped ==
  \/ CloseProxy
Writes_count ==
  \/ Acquire
  \/ \E t \in Thread : Uncount(t)
Writes_total ==
  \/ Acquire
  \/ \E t \in Thread : Uncount(t)
Writes_banned ==
  \/ \E ip \in IP : Ban(ip) \/ Unban(ip)
Writes_pool ==
  \/ Acquire
  \/ \E t \in Thread : Uncount(t) \/ Failed(t)
  \/ \E k \in Attempt : Confirm(k)
  \/ \E b \in Backend : BackendRests(b)
  \/ \E b \in Backend, on \in BOOLEAN : SetBackendEnabled(b, on)
Writes_sess ==
  \/ Request \/ TakeRedirect \/ PickBackend \/ Register \/ Attach \/ ClientReady
  \/ \E t \in Thread : DropBegin(t) \/ Uncount(t)
  \/ \E k \in Attempt : Activate(k)
  \/ \E k \in Attempt, b \in Backend : BackendAccepts(k, b)
Writes_link ==
  \/ OpenLink \/ OpenLinkFails \/ Bind \/ StopAllLinks
  \/ \E t \in Thread : ReleaseLink(t)
  \/ \E k \in Attempt : PostStop(k) \/ RunUpStop(k) \/ UpEnds(k) \/ LeaseExpires(k)
  \/ \E c \in Client : SweepLink(c)
Writes_up ==
  \/ \E k \in Attempt : RunConnect(k) \/ RunUpDisconnect(k) \/ RunUpStop(k) \/ UpEnds(k)
  \/ \E k \in Attempt, b \in Backend : BackendAccepts(k, b) \/ BackendMismatch(k, b)
       \/ BackendGone(k, b) \/ UpPeerForgotten(k, b)
  \/ \E k \in Attempt, b \in Backend, rejected \in BOOLEAN : DialFails(k, b, rejected)
Writes_uq ==
  \/ Dial
  \/ \E t \in Thread : CloseSession(t)
  \/ \E k \in Attempt : RunConnect(k) \/ RunUpDisconnect(k) \/ PostStop(k) \/ RunUpStop(k)
       \/ UpEnds(k)
Writes_task ==
  \/ \E c \in Client : ConnectRequest(c) \/ ClientGone(c)
  \/ Request \/ Check \/ TakeRedirect \/ PickBackend \/ Register \/ Acquire \/ ReuseLink \/ OpenLink
     \/ OpenLinkFails \/ Bind \/ Attach \/ Dial \/ ClientReady \/ RunAccept \/ RunDisconnect \/ CloseProxy
     \/ StopListening \/ StopAllLinks \/ LinksStopped
  \/ \E t \in Thread : CloseSession(t) \/ DropBegin(t) \/ DropWaited(t) \/ ReleaseLink(t)
       \/ Forget(t) \/ Uncount(t) \/ Refused(t) \/ Failed(t)
  \/ \E k \in Attempt : Activate(k) \/ Confirm(k) \/ RunUpDisconnect(k)
  \/ \E k \in Attempt, b \in Backend : BackendAccepts(k, b) \/ BackendGone(k, b)
  \/ \E k \in Attempt, b \in Backend, rejected \in BOOLEAN : DialFails(k, b, rejected)
  \/ \E s \in Attempt : TimerFires(s) \/ RelayBreaks(s) \/ Kick(s)
  \/ \E s \in Attempt, b \in Backend : Move(s, b)
  \/ \E ip \in IP : Ban(ip)
Writes_armed ==
  \/ Dial
  \/ \E s \in Attempt : TimerFires(s)
Writes_commands ==
  \/ \E s \in Attempt : Kick(s)
  \/ \E s \in Attempt, b \in Backend : Move(s, b)
  \/ \E ip \in IP : Ban(ip) \/ Unban(ip)
  \/ \E b \in Backend, on \in BOOLEAN : SetBackendEnabled(b, on)
  \/ \E on \in BOOLEAN : SetMaintenance(on)

Written ==
  /\ attempts' = attempts \/ Writes_attempts
  /\ req' = req \/ Writes_req
  /\ answer' = answer \/ Writes_answer
  /\ peer' = peer \/ Writes_peer
  /\ lq' = lq \/ Writes_lq
  /\ listening' = listening \/ Writes_listening
  /\ asking' = asking \/ Writes_asking
  /\ byAddr' = byAddr \/ Writes_byAddr
  /\ byID' = byID \/ Writes_byID
  /\ links' = links \/ Writes_links
  /\ redirects' = redirects \/ Writes_redirects
  /\ maintenance' = maintenance \/ Writes_maintenance
  /\ stopped' = stopped \/ Writes_stopped
  /\ count' = count \/ Writes_count
  /\ total' = total \/ Writes_total
  /\ banned' = banned \/ Writes_banned
  /\ pool' = pool \/ Writes_pool
  /\ sess' = sess \/ Writes_sess
  /\ link' = link \/ Writes_link
  /\ up' = up \/ Writes_up
  /\ uq' = uq \/ Writes_uq
  /\ task' = task \/ Writes_task
  /\ armed' = armed \/ Writes_armed
  /\ commands' = commands \/ Writes_commands

\* No step writes anything else.
LEMMA Writers ==
  ASSUME Next
  PROVE  Written
<1> USE DEF listenVars, gateVars, adminVars, linkVars
<1>1. ASSUME NEW c \in Client, ConnectRequest(c) PROVE Written
  <2>1. UNCHANGED <<attempts, req, answer, lq, listening, byAddr, byID, linkVars, adminVars,
                    gateVars, pool, sess, armed, commands>>
    BY <1>1 DEF ConnectRequest
  <2> QED
    BY <1>1, <2>1 DEF Written, Writes_peer, Writes_asking, Writes_task
<1>2. ASSUME NEW c \in Client, ClientGone(c) PROVE Written
  <2>1. UNCHANGED <<attempts, req, answer, lq, listening, asking, byAddr, byID, linkVars, adminVars,
                    gateVars, pool, sess, armed, commands>>
    BY <1>2 DEF ClientGone
  <2> QED
    BY <1>2, <2>1 DEF Written, Writes_peer, Writes_task
<1>3. ASSUME NEW c \in Client, ClientTalks(c) PROVE Written
  <2>1. UNCHANGED <<attempts, req, answer, peer, listening, asking, byAddr, byID, linkVars,
                    adminVars, gateVars, pool, sess, task, armed, commands>>
    BY <1>3 DEF ClientTalks
  <2> QED
    BY <1>3, <2>1 DEF Written, Writes_lq
<1>4. ASSUME NEW c \in Client, PeerForgotten(c) PROVE Written
  <2>1. UNCHANGED <<attempts, req, answer, lq, listening, asking, byAddr, byID, linkVars, adminVars,
                    gateVars, pool, sess, task, armed, commands>>
    BY <1>4 DEF PeerForgotten
  <2> QED
    BY <1>4, <2>1 DEF Written, Writes_peer
<1>5. ASSUME Request PROVE Written
  <2>1. UNCHANGED <<answer, peer, listening, byAddr, byID, linkVars, adminVars, gateVars, pool,
                    armed, commands>>
    BY <1>5 DEF Request
  <2> QED
    BY <1>5, <2>1 DEF Written, Writes_attempts, Writes_req, Writes_lq, Writes_asking, Writes_sess, Writes_task
<1>6. ASSUME Check PROVE Written
  <2>1. UNCHANGED <<attempts, req, answer, peer, listening, byAddr, byID, linkVars, adminVars,
                    gateVars, pool, sess, armed, commands>>
    BY <1>6 DEF Check
  <2> QED
    BY <1>6, <2>1 DEF Written, Writes_lq, Writes_asking, Writes_task
<1>7. ASSUME TakeRedirect PROVE Written
  <2>1. UNCHANGED <<listenVars, asking, byAddr, byID, linkVars, maintenance, stopped, gateVars,
                    banned, pool, armed, commands>>
    BY <1>7 DEF TakeRedirect
  <2> QED
    BY <1>7, <2>1 DEF Written, Writes_redirects, Writes_sess, Writes_task
<1>8. ASSUME PickBackend PROVE Written
  <2>1. UNCHANGED <<attempts, req, answer, peer, listening, byAddr, byID, linkVars, adminVars,
                    gateVars, pool, armed, commands>>
    BY <1>8 DEF PickBackend
  <2> QED
    BY <1>8, <2>1 DEF Written, Writes_lq, Writes_asking, Writes_sess, Writes_task
<1>9. ASSUME Register PROVE Written
  <2>1. UNCHANGED <<listenVars, asking, linkVars, adminVars, gateVars, pool, armed, commands>>
    BY <1>9 DEF Register
  <2> QED
    BY <1>9, <2>1 DEF Written, Writes_byAddr, Writes_byID, Writes_sess, Writes_task
<1>10. ASSUME Acquire PROVE Written
  <2>1. UNCHANGED <<listenVars, asking, byAddr, byID, linkVars, adminVars, sess, armed, commands>>
    BY <1>10 DEF Acquire
  <2> QED
    BY <1>10, <2>1 DEF Written, Writes_count, Writes_total, Writes_pool, Writes_task
<1>11. ASSUME ReuseLink PROVE Written
  <2>1. UNCHANGED <<listenVars, asking, byAddr, byID, linkVars, adminVars, gateVars, pool, sess,
                    armed, commands>>
    BY <1>11 DEF ReuseLink
  <2> QED
    BY <1>11, <2>1 DEF Written, Writes_task
<1>12. ASSUME OpenLink PROVE Written
  <2>1. UNCHANGED <<listenVars, asking, byAddr, byID, adminVars, gateVars, pool, sess, up, uq,
                    armed, commands>>
    BY <1>12 DEF OpenLink
  <2> QED
    BY <1>12, <2>1 DEF Written, Writes_links, Writes_link, Writes_task
<1>13. ASSUME OpenLinkFails PROVE Written
  <2>1. UNCHANGED <<attempts, req, answer, peer, listening, byAddr, byID, adminVars, gateVars, pool,
                    sess, up, uq, armed, commands>>
    BY <1>13 DEF OpenLinkFails
  <2> QED
    BY <1>13, <2>1 DEF Written, Writes_lq, Writes_asking, Writes_links, Writes_link, Writes_task
<1>14. ASSUME Bind PROVE Written
  <2>1. UNCHANGED <<listenVars, asking, byAddr, byID, links, adminVars, gateVars, pool, sess, up,
                    uq, armed, commands>>
    BY <1>14 DEF Bind
  <2> QED
    BY <1>14, <2>1 DEF Written, Writes_link, Writes_task
<1>15. ASSUME Attach PROVE Written
  <2>1. UNCHANGED <<listenVars, asking, byAddr, byID, linkVars, adminVars, gateVars, pool, armed,
                    commands>>
    BY <1>15 DEF Attach
  <2> QED
    BY <1>15, <2>1 DEF Written, Writes_sess, Writes_task
<1>16. ASSUME Dial PROVE Written
  <2>1. UNCHANGED <<listenVars, byAddr, byID, links, adminVars, gateVars, pool, sess, link, up,
                    commands>>
    BY <1>16 DEF Dial
  <2> QED
    BY <1>16, <2>1 DEF Written, Writes_asking, Writes_uq, Writes_task, Writes_armed
<1>17. ASSUME ClientReady PROVE Written
  <2>1. UNCHANGED <<listenVars, asking, byAddr, byID, linkVars, adminVars, gateVars, pool, armed,
                    commands>>
    BY <1>17 DEF ClientReady
  <2> QED
    BY <1>17, <2>1 DEF Written, Writes_sess, Writes_task
<1>18. ASSUME RunReject PROVE Written
  <2>1. UNCHANGED <<attempts, peer, listening, asking, byAddr, byID, linkVars, adminVars, gateVars,
                    pool, sess, task, armed, commands>>
    BY <1>18 DEF RunReject
  <2> QED
    BY <1>18, <2>1 DEF Written, Writes_req, Writes_answer, Writes_lq
<1>19. ASSUME RunAccept PROVE Written
  <2>1. UNCHANGED <<attempts, listening, asking, byAddr, byID, linkVars, adminVars, gateVars, pool,
                    sess, armed, commands>>
    BY <1>19 DEF RunAccept
  <2> QED
    BY <1>19, <2>1 DEF Written, Writes_req, Writes_answer, Writes_peer, Writes_lq, Writes_task
<1>20. ASSUME RunDisconnect PROVE Written
  <2>1. UNCHANGED <<attempts, req, answer, listening, asking, byAddr, byID, linkVars, adminVars,
                    gateVars, pool, sess, armed, commands>>
    BY <1>20 DEF RunDisconnect
  <2> QED
    BY <1>20, <2>1 DEF Written, Writes_peer, Writes_lq, Writes_task
<1>21. ASSUME RunStop PROVE Written
  <2>1. UNCHANGED <<attempts, req, answer, asking, byAddr, byID, linkVars, adminVars, gateVars,
                    pool, sess, task, armed, commands>>
    BY <1>21 DEF RunStop
  <2> QED
    BY <1>21, <2>1 DEF Written, Writes_peer, Writes_lq, Writes_listening
<1>22. ASSUME LoopEnds PROVE Written
  <2>1. UNCHANGED <<attempts, req, answer, asking, byAddr, byID, linkVars, adminVars, gateVars,
                    pool, sess, task, armed, commands>>
    BY <1>22 DEF LoopEnds
  <2> QED
    BY <1>22, <2>1 DEF Written, Writes_peer, Writes_lq, Writes_listening
<1>23. ASSUME NEW t \in Thread, CloseSession(t) PROVE Written
  <2>1. UNCHANGED <<attempts, req, answer, peer, listening, asking, byAddr, byID, links, adminVars,
                    gateVars, pool, sess, link, up, armed, commands>>
    BY <1>23 DEF CloseSession
  <2> QED
    BY <1>23, <2>1 DEF Written, Writes_lq, Writes_uq, Writes_task
<1>24. ASSUME NEW t \in Thread, DropBegin(t) PROVE Written
  <2>1. UNCHANGED <<listenVars, asking, byAddr, byID, linkVars, adminVars, gateVars, pool, armed,
                    commands>>
    BY <1>24 DEF DropBegin
  <2> QED
    BY <1>24, <2>1 DEF Written, Writes_sess, Writes_task
<1>25. ASSUME NEW t \in Thread, DropWaited(t) PROVE Written
  <2>1. UNCHANGED <<listenVars, asking, byAddr, byID, linkVars, adminVars, gateVars, pool, sess,
                    armed, commands>>
    BY <1>25 DEF DropWaited
  <2> QED
    BY <1>25, <2>1 DEF Written, Writes_task
<1>26. ASSUME NEW t \in Thread, ReleaseLink(t) PROVE Written
  <2>1. UNCHANGED <<listenVars, asking, byAddr, byID, links, adminVars, gateVars, pool, sess, up,
                    uq, armed, commands>>
    BY <1>26 DEF ReleaseLink
  <2> QED
    BY <1>26, <2>1 DEF Written, Writes_link, Writes_task
<1>27. ASSUME NEW t \in Thread, Forget(t) PROVE Written
  <2>1. UNCHANGED <<listenVars, asking, linkVars, adminVars, gateVars, pool, sess, armed, commands>>
    BY <1>27 DEF Forget
  <2> QED
    BY <1>27, <2>1 DEF Written, Writes_byAddr, Writes_byID, Writes_task
<1>28. ASSUME NEW t \in Thread, Uncount(t) PROVE Written
  <2>1. UNCHANGED <<listenVars, asking, byAddr, byID, linkVars, adminVars, armed, commands>>
    BY <1>28 DEF Uncount
  <2> QED
    BY <1>28, <2>1 DEF Written, Writes_count, Writes_total, Writes_pool, Writes_sess, Writes_task
<1>29. ASSUME NEW t \in Thread, Refused(t) PROVE Written
  <2>1. UNCHANGED <<attempts, req, answer, peer, listening, asking, byAddr, byID, linkVars,
                    adminVars, gateVars, pool, sess, armed, commands>>
    BY <1>29 DEF Refused
  <2> QED
    BY <1>29, <2>1 DEF Written, Writes_lq, Writes_task
<1>30. ASSUME NEW t \in Thread, Failed(t) PROVE Written
  <2>1. UNCHANGED <<attempts, req, answer, peer, listening, asking, byAddr, byID, linkVars,
                    adminVars, gateVars, sess, armed, commands>>
    BY <1>30 DEF Failed
  <2> QED
    BY <1>30, <2>1 DEF Written, Writes_lq, Writes_pool, Writes_task
<1>31. ASSUME NEW k \in Attempt, Activate(k) PROVE Written
  <2>1. UNCHANGED <<listenVars, asking, byAddr, byID, linkVars, adminVars, gateVars, pool, armed,
                    commands>>
    BY <1>31 DEF Activate
  <2> QED
    BY <1>31, <2>1 DEF Written, Writes_sess, Writes_task
<1>32. ASSUME NEW k \in Attempt, Confirm(k) PROVE Written
  <2>1. UNCHANGED <<attempts, req, answer, peer, listening, asking, byAddr, byID, linkVars,
                    adminVars, gateVars, sess, armed, commands>>
    BY <1>32 DEF Confirm
  <2> QED
    BY <1>32, <2>1 DEF Written, Writes_lq, Writes_pool, Writes_task
<1>33. ASSUME NEW k \in Attempt, RunConnect(k) PROVE Written
  <2>1. UNCHANGED <<listenVars, asking, byAddr, byID, links, adminVars, gateVars, pool, sess, link,
                    task, armed, commands>>
    BY <1>33 DEF RunConnect
  <2> QED
    BY <1>33, <2>1 DEF Written, Writes_up, Writes_uq
<1>34. ASSUME NEW k \in Attempt, RunUpDisconnect(k) PROVE Written
  <2>1. UNCHANGED <<listenVars, asking, byAddr, byID, links, adminVars, gateVars, pool, sess, link,
                    armed, commands>>
    BY <1>34 DEF RunUpDisconnect
  <2> QED
    BY <1>34, <2>1 DEF Written, Writes_up, Writes_uq, Writes_task
<1>35. ASSUME NEW k \in Attempt, PostStop(k) PROVE Written
  <2>1. UNCHANGED <<listenVars, asking, byAddr, byID, links, adminVars, gateVars, pool, sess, up,
                    task, armed, commands>>
    BY <1>35 DEF PostStop
  <2> QED
    BY <1>35, <2>1 DEF Written, Writes_link, Writes_uq
<1>36. ASSUME NEW k \in Attempt, RunUpStop(k) PROVE Written
  <2>1. UNCHANGED <<listenVars, asking, byAddr, byID, links, adminVars, gateVars, pool, sess, task,
                    armed, commands>>
    BY <1>36 DEF RunUpStop
  <2> QED
    BY <1>36, <2>1 DEF Written, Writes_link, Writes_up, Writes_uq
<1>37. ASSUME NEW k \in Attempt, UpEnds(k) PROVE Written
  <2>1. UNCHANGED <<listenVars, asking, byAddr, byID, links, adminVars, gateVars, pool, sess, task,
                    armed, commands>>
    BY <1>37 DEF UpEnds
  <2> QED
    BY <1>37, <2>1 DEF Written, Writes_link, Writes_up, Writes_uq
<1>38. ASSUME NEW k \in Attempt, NEW b \in Backend, BackendAccepts(k, b) PROVE Written
  <2>1. UNCHANGED <<listenVars, asking, byAddr, byID, links, adminVars, gateVars, pool, link, uq,
                    armed, commands>>
    BY <1>38 DEF BackendAccepts
  <2> QED
    BY <1>38, <2>1 DEF Written, Writes_sess, Writes_up, Writes_task
<1>39. ASSUME NEW k \in Attempt, NEW b \in Backend, BackendMismatch(k, b) PROVE Written
  <2>1. UNCHANGED <<listenVars, asking, byAddr, byID, links, adminVars, gateVars, pool, sess, link,
                    uq, task, armed, commands>>
    BY <1>39 DEF BackendMismatch
  <2> QED
    BY <1>39, <2>1 DEF Written, Writes_up
<1>40. ASSUME NEW k \in Attempt, NEW b \in Backend, NEW rejected \in BOOLEAN, DialFails(k, b, rejected) PROVE Written
  <2>1. UNCHANGED <<listenVars, asking, byAddr, byID, links, adminVars, gateVars, pool, sess, link,
                    uq, armed, commands>>
    BY <1>40 DEF DialFails
  <2> QED
    BY <1>40, <2>1 DEF Written, Writes_up, Writes_task
<1>41. ASSUME NEW k \in Attempt, NEW b \in Backend, BackendGone(k, b) PROVE Written
  <2>1. UNCHANGED <<listenVars, asking, byAddr, byID, links, adminVars, gateVars, pool, sess, link,
                    uq, armed, commands>>
    BY <1>41 DEF BackendGone
  <2> QED
    BY <1>41, <2>1 DEF Written, Writes_up, Writes_task
<1>42. ASSUME NEW k \in Attempt, NEW b \in Backend, UpPeerForgotten(k, b) PROVE Written
  <2>1. UNCHANGED <<listenVars, asking, byAddr, byID, links, adminVars, gateVars, pool, sess, link,
                    uq, task, armed, commands>>
    BY <1>42 DEF UpPeerForgotten
  <2> QED
    BY <1>42, <2>1 DEF Written, Writes_up
<1>43. ASSUME NEW k \in Attempt, LeaseExpires(k) PROVE Written
  <2>1. UNCHANGED <<listenVars, asking, byAddr, byID, links, adminVars, gateVars, pool, sess, up,
                    uq, task, armed, commands>>
    BY <1>43 DEF LeaseExpires
  <2> QED
    BY <1>43, <2>1 DEF Written, Writes_link
<1>44. ASSUME NEW s \in Attempt, TimerFires(s) PROVE Written
  <2>1. UNCHANGED <<listenVars, asking, byAddr, byID, linkVars, adminVars, gateVars, pool, sess,
                    commands>>
    BY <1>44 DEF TimerFires
  <2> QED
    BY <1>44, <2>1 DEF Written, Writes_task, Writes_armed
<1>45. ASSUME NEW s \in Attempt, RelayBreaks(s) PROVE Written
  <2>1. UNCHANGED <<listenVars, asking, byAddr, byID, linkVars, adminVars, gateVars, pool, sess,
                    armed, commands>>
    BY <1>45 DEF RelayBreaks
  <2> QED
    BY <1>45, <2>1 DEF Written, Writes_task
<1>46. ASSUME NEW c \in Client, SweepLink(c) PROVE Written
  <2>1. UNCHANGED <<listenVars, asking, byAddr, byID, adminVars, gateVars, pool, sess, up, uq, task,
                    armed, commands>>
    BY <1>46 DEF SweepLink
  <2> QED
    BY <1>46, <2>1 DEF Written, Writes_links, Writes_link
<1>47. ASSUME NEW b \in Backend, BackendRests(b) PROVE Written
  <2>1. UNCHANGED <<listenVars, asking, byAddr, byID, linkVars, adminVars, gateVars, sess, task,
                    armed, commands>>
    BY <1>47 DEF BackendRests
  <2> QED
    BY <1>47, <2>1 DEF Written, Writes_pool
<1>48. ASSUME NEW s \in Attempt, Kick(s) PROVE Written
  <2>1. UNCHANGED <<listenVars, asking, byAddr, byID, linkVars, adminVars, gateVars, pool, sess,
                    armed>>
    BY <1>48 DEF Kick
  <2> QED
    BY <1>48, <2>1 DEF Written, Writes_task, Writes_commands
<1>49. ASSUME NEW s \in Attempt, NEW b \in Backend, Move(s, b) PROVE Written
  <2>1. UNCHANGED <<listenVars, asking, byAddr, byID, linkVars, maintenance, stopped, gateVars,
                    banned, pool, sess, armed>>
    BY <1>49 DEF Move
  <2> QED
    BY <1>49, <2>1 DEF Written, Writes_redirects, Writes_task, Writes_commands
<1>50. ASSUME NEW ip \in IP, Ban(ip) PROVE Written
  <2>1. UNCHANGED <<listenVars, asking, byAddr, byID, linkVars, redirects, maintenance, stopped,
                    gateVars, pool, sess, armed>>
    BY <1>50 DEF Ban
  <2> QED
    BY <1>50, <2>1 DEF Written, Writes_banned, Writes_task, Writes_commands
<1>51. ASSUME NEW ip \in IP, Unban(ip) PROVE Written
  <2>1. UNCHANGED <<listenVars, asking, byAddr, byID, linkVars, redirects, maintenance, stopped,
                    gateVars, pool, sess, task, armed>>
    BY <1>51 DEF Unban
  <2> QED
    BY <1>51, <2>1 DEF Written, Writes_banned, Writes_commands
<1>52. ASSUME NEW b \in Backend, NEW on \in BOOLEAN, SetBackendEnabled(b, on) PROVE Written
  <2>1. UNCHANGED <<listenVars, asking, byAddr, byID, linkVars, adminVars, gateVars, sess, task,
                    armed>>
    BY <1>52 DEF SetBackendEnabled
  <2> QED
    BY <1>52, <2>1 DEF Written, Writes_pool, Writes_commands
<1>53. ASSUME NEW on \in BOOLEAN, SetMaintenance(on) PROVE Written
  <2>1. UNCHANGED <<listenVars, asking, byAddr, byID, linkVars, redirects, stopped, gateVars,
                    banned, pool, sess, task, armed>>
    BY <1>53 DEF SetMaintenance
  <2> QED
    BY <1>53, <2>1 DEF Written, Writes_maintenance, Writes_commands
<1>54. ASSUME CloseProxy PROVE Written
  <2>1. UNCHANGED <<listenVars, asking, byAddr, byID, linkVars, redirects, maintenance, gateVars,
                    banned, pool, sess, armed, commands>>
    BY <1>54 DEF CloseProxy
  <2> QED
    BY <1>54, <2>1 DEF Written, Writes_stopped, Writes_task
<1>55. ASSUME StopListening PROVE Written
  <2>1. UNCHANGED <<attempts, req, answer, peer, listening, asking, byAddr, byID, linkVars,
                    adminVars, gateVars, pool, sess, armed, commands>>
    BY <1>55 DEF StopListening
  <2> QED
    BY <1>55, <2>1 DEF Written, Writes_lq, Writes_task
<1>56. ASSUME StopAllLinks PROVE Written
  <2>1. UNCHANGED <<listenVars, asking, byAddr, byID, adminVars, gateVars, pool, sess, up, uq,
                    armed, commands>>
    BY <1>56 DEF StopAllLinks
  <2> QED
    BY <1>56, <2>1 DEF Written, Writes_links, Writes_link, Writes_task
<1>57. ASSUME LinksStopped PROVE Written
  <2>1. UNCHANGED <<listenVars, asking, byAddr, byID, linkVars, adminVars, gateVars, pool, sess,
                    armed, commands>>
    BY <1>57 DEF LinksStopped
  <2> QED
    BY <1>57, <2>1 DEF Written, Writes_task
<1> QED
  BY <1>1, <1>2, <1>3, <1>4, <1>5, <1>6, <1>7, <1>8, <1>9, <1>10, <1>11, <1>12, <1>13, <1>14,
     <1>15, <1>16, <1>17, <1>18, <1>19, <1>20, <1>21, <1>22, <1>23, <1>24, <1>25, <1>26, <1>27,
     <1>28, <1>29, <1>30, <1>31, <1>32, <1>33, <1>34, <1>35, <1>36, <1>37, <1>38, <1>39, <1>40,
     <1>41, <1>42, <1>43, <1>44, <1>45, <1>46, <1>47, <1>48, <1>49, <1>50, <1>51, <1>52, <1>53,
     <1>54, <1>55, <1>56, <1>57, Threads DEF Next, ClientStep, BackendStep,
     BackendAnswers, LoopStep, LoopCommand, UpStep, UpCommand, TimerStep, ConsoleCommand, CloserStep, Closing

-----------------------------------------------------------------------------
(* The first layer is preserved, part by part.                             *)

\* Queues hold commands, and all but the one to stop name an attempt.
LEMMA QueueKept ==
  ASSUME TypeInv, RefInv, QueueInv, Next
  PROVE  QueueInv'
<1>1. CASE UNCHANGED <<lq, uq>>
  BY <1>1 DEF QueueInv
<1>2. ASSUME NEW c \in Client, ClientTalks(c) PROVE QueueInv'
  BY <1>2, ClientTalksPosts DEF ClientTalks, Posts, LoopFree, Ended, gateVars, adminVars, linkVars,
     QueueInv
<1>3. ASSUME Request PROVE QueueInv'
  BY <1>3, RequestPosts DEF Request, Posts, PerIPFull, ServerFull, Ended, gateVars, adminVars,
     linkVars, QueueInv
<1>4. ASSUME Check PROVE QueueInv'
  BY <1>4, CheckPosts DEF Check, Posts, Ended, gateVars, adminVars, linkVars, QueueInv
<1>5. ASSUME PickBackend PROVE QueueInv'
  BY <1>5, PickBackendPosts DEF PickBackend, Posts, Ended, gateVars, adminVars, linkVars, QueueInv
<1>6. ASSUME OpenLinkFails PROVE QueueInv'
  BY <1>6, OpenLinkFailsPosts DEF OpenLinkFails, Posts, Reusable, GivenUp, Ended, gateVars,
     adminVars, QueueInv
<1>7. ASSUME Dial PROVE QueueInv'
  <2>1. lq' = lq
    BY <1>7 DEF Dial, listenVars
  <2> QED
    BY <1>7, <2>1, DialPosts DEF QueueInv
<1>8. ASSUME RunReject PROVE QueueInv'
  <2>1. lq' = Tail(lq) /\ uq' = uq /\ lq # <<>>
    BY <1>8 DEF RunReject, HeadIs, linkVars
  <2> QED
    BY <2>1, HeadOfQueue DEF QueueInv
<1>9. ASSUME RunAccept PROVE QueueInv'
  BY <1>9, RunAcceptPosts, HeadOfQueue DEF RunAccept, Posts, LoopFree, HeadIs, Unanswered, Resolve,
     gateVars, adminVars, linkVars, QueueInv
<1>10. ASSUME RunDisconnect PROVE QueueInv'
  BY <1>10, HeadOfQueue DEF RunDisconnect, HeadIs, linkVars, QueueInv
<1>11. ASSUME RunStop PROVE QueueInv'
  BY <1>11, HeadOfQueue DEF RunStop, HeadIs, linkVars, QueueInv
<1>12. ASSUME LoopEnds PROVE QueueInv'
  BY <1>12 DEF LoopEnds, linkVars, QueueInv
<1>13. ASSUME NEW t \in Thread, CloseSession(t) PROVE QueueInv'
  BY <1>13, CloseSessionPosts DEF Posts, QueueInv
<1>14. ASSUME NEW t \in Thread, Refused(t) PROVE QueueInv'
  <2>1. uq' = uq
    BY <1>14 DEF Refused, linkVars
  <2> QED
    BY <1>14, <2>1, RefusedPosts DEF Posts, QueueInv
<1>15. ASSUME NEW t \in Thread, Failed(t) PROVE QueueInv'
  <2>1. uq' = uq
    BY <1>15 DEF Failed, linkVars
  <2> QED
    BY <1>15, <2>1, RefusedPosts DEF Posts, QueueInv
<1>16. ASSUME NEW k \in Attempt, Confirm(k) PROVE QueueInv'
  <2>1. uq' = uq
    BY <1>16 DEF Confirm, linkVars
  <2> QED
    BY <1>16, <2>1, ConfirmPosts DEF Posts, QueueInv
<1>17. ASSUME NEW k \in Attempt, RunConnect(k) PROVE QueueInv'
  BY <1>17, HeadUp DEF RunConnect, HeadIs, listenVars, QueueInv
<1>18. ASSUME NEW k \in Attempt, RunUpDisconnect(k) PROVE QueueInv'
  BY <1>18, HeadUp DEF RunUpDisconnect, HeadIs, listenVars, QueueInv
<1>19. ASSUME NEW k \in Attempt, PostStop(k) PROVE QueueInv'
  BY <1>19, PostStopPosts DEF PostStop, listenVars, QueueInv
<1>20. ASSUME NEW k \in Attempt, RunUpStop(k) PROVE QueueInv'
  BY <1>20, HeadUp DEF RunUpStop, HeadIs, listenVars, QueueInv
<1>21. ASSUME NEW k \in Attempt, UpEnds(k) PROVE QueueInv'
  BY <1>21 DEF UpEnds, listenVars, QueueInv
<1>22. ASSUME StopListening PROVE QueueInv'
  BY <1>22, StopListeningPosts DEF StopListening, Posts, Ended, gateVars, adminVars, linkVars,
     QueueInv
<1> QED
  BY <1>1, <1>2, <1>3, <1>4, <1>5, <1>6, <1>7, <1>8, <1>9, <1>10, <1>11, <1>12, <1>13, <1>14, <1>15,
     <1>16, <1>17, <1>18, <1>19, <1>20, <1>21, <1>22, Writers DEF Written, Writes_lq, Writes_uq

\* What Loop does for a session that has been decided.
Cleanup == {"close", "drop", "refused", "failed"} \cup Drops

\* Loop has in hand what it had while it cleans up or stands still.
LEMMA LoopGoesOn ==
  ASSUME LoopInv, UNCHANGED <<asking, attempts, req, answer>>,
         attempts # 0 => /\ sess'[attempts].client = sess[attempts].client
                         /\ sess'[attempts].target = sess[attempts].target
                         /\ sess'[attempts].st = "none" <=> sess[attempts].st = "none",
         \/ task'[Loop] = task[Loop]
         \/ /\ task[Loop].pc \in Cleanup
            /\ \/ task'[Loop].pc \in Cleanup
               \/ task'[Loop].pc = IF asking # NoClient THEN "request" ELSE "idle"
  PROVE  LoopInv'
<1>1. CASE task'[Loop] = task[Loop]
  BY <1>1 DEF LoopInv, Registered, Deciding, Unseen, Seen
<1>2. CASE task[Loop].pc \in Cleanup
  BY <1>2 DEF LoopInv, Cleanup, Drops, Registered, Deciding, Unseen, Seen
<1> QED
  BY <1>1, <1>2

\* Loop has in hand the attempt it decides.
LEMMA LoopKept ==
  ASSUME TypeInv, RefInv, LoopInv, AttemptInv, Next
  PROVE  LoopInv'
<1>1. CASE UNCHANGED <<attempts, req, answer, asking, sess, task>>
  BY <1>1 DEF LoopInv, Session, Registered, Deciding, Unseen, Seen, Resting
<1>2. ASSUME NEW c \in Client, ConnectRequest(c) PROVE LoopInv'
  BY <1>2, ConnectRequestMoves, Threads, SessionsTyped, ClientsTyped, AttemptsTyped DEF
     ConnectRequest, Moves, At, LoopFree, Displaced, gateVars, adminVars, linkVars, LoopInv,
     Session, Registered, Deciding, Unseen, Seen, Resting
<1>3. ASSUME NEW c \in Client, ClientGone(c) PROVE LoopInv'
  BY <1>3, ClientGoneMoves, Threads, SessionsTyped, ClientsTyped, AttemptsTyped DEF ClientGone,
     Moves, At, LoopFree, gateVars, adminVars, linkVars, LoopInv, Session, Registered, Deciding,
     Unseen, Seen, Resting
<1>4. ASSUME Request PROVE LoopInv'
  <2>1. /\ task[Loop].pc = "request" /\ asking \in Client /\ attempts + 1 \in Attempt
        /\ answer[attempts + 1] = "none" /\ ~Registered(attempts + 1)
    BY <1>4, AttemptsTyped, ClientsTyped
       DEF Request, At, LoopInv, AttemptInv, Deciding, Unseen, Seen, Registered, NewSession
  <2>2. sess'[attempts + 1].st = "none" /\ sess'[attempts + 1].client = asking
    BY <1>4, <2>1, SessionsTyped DEF Request, Registered, Session
  <2>3. attempts' = attempts + 1 /\ attempts' # 0 /\ answer' = answer
    BY <1>4, AttemptsTyped DEF Request
  <2>4. \/ asking' = NoClient /\ task'[Loop].pc = "idle"
        \/ asking' = asking /\ task'[Loop].pc = "check" /\ task'[Loop].s = attempts + 1
    BY <1>4, RequestMoves DEF Moves
  <2> QED
    BY <2>1, <2>2, <2>3, <2>4, ClientsTyped DEF LoopInv, Registered, Deciding, Unseen, Seen
<1>5. ASSUME Check PROVE LoopInv'
  BY <1>5, CheckMoves, Threads, SessionsTyped, ClientsTyped, AttemptsTyped DEF Check, Moves, At,
     Refuse, gateVars, adminVars, linkVars, LoopInv, Session, Registered, Deciding, Unseen, Seen,
     Resting
<1>6. ASSUME TakeRedirect PROVE LoopInv'
  <2>1. TargetChosen /\ UNCHANGED <<attempts, req, answer, asking>>
    BY <1>6, ChoosesTarget DEF TakeRedirect, listenVars
  <2>2. task[Loop].pc = "redirect" /\ task'[Loop].pc = "pick" /\ task'[Loop].s = task[Loop].s
    BY <1>6, TakeRedirectMoves DEF TakeRedirect, At, Moves
  <2> QED
    BY <2>1, <2>2, AttemptsTyped DEF LoopInv, TargetChosen, Registered, Deciding, Unseen, Seen
<1>7. ASSUME PickBackend PROVE LoopInv'
  <2>1. TargetChosen /\ UNCHANGED <<attempts, req, answer>>
    BY <1>7, ChoosesTarget DEF PickBackend
  <2>2. task[Loop].pc = "pick"
    BY <1>7 DEF PickBackend, At
  <2>3. CASE asking' = NoClient /\ task'[Loop].pc = "idle"
    BY <2>1, <2>3 DEF LoopInv, Deciding, Unseen, Seen
  <2>4. CASE asking' = asking /\ task'[Loop].pc = "register" /\ task'[Loop].s = task[Loop].s
               /\ Pick(pool, sess[task[Loop].s].target) # NoBackend
    <3>1. sess[attempts].target \in Backend \cup {NoBackend}
      BY <2>1, SessionsTyped DEF Session, TargetChosen
    <3>2. sess'[attempts].target \in Backend
      BY <1>7, <2>1, <2>4, <3>1, PickIsBackend, SessionsTyped DEF PickBackend, TargetChosen, Session
    <3> QED
      BY <2>1, <2>2, <2>4, <3>2, AttemptsTyped DEF LoopInv, TargetChosen, Registered, Deciding, Unseen, Seen
  <2> QED
    BY <1>7, <2>3, <2>4, PickBackendMoves DEF Moves
<1>8. ASSUME Register PROVE LoopInv'
  <2>1. /\ task[Loop].pc = "register" /\ task[Loop].s = attempts /\ attempts # 0 /\ asking # NoClient
        /\ attempts \in Attempt /\ sess[attempts].client = asking /\ answer[attempts] = "none"
    BY <1>8, AttemptsTyped DEF Register, At, LoopInv, Deciding, Unseen, Seen
  <2>2. UNCHANGED <<attempts, req, answer, asking>>
    BY <1>8 DEF Register, listenVars
  <2>3. task'[Loop].pc = "acquire" /\ task'[Loop].s = attempts
    BY <1>8, <2>1, RegisterMoves DEF Moves
  <2>4. sess'[attempts].st = "pending" /\ sess'[attempts].client = asking
    BY <1>8, <2>1, SessionsTyped DEF Register, Session
  <2> QED
    BY <2>1, <2>2, <2>3, <2>4 DEF LoopInv, Registered, Deciding, Unseen, Seen
<1>9. ASSUME Acquire PROVE LoopInv'
  BY <1>9, AcquireMoves, Threads, SessionsTyped, ClientsTyped, AttemptsTyped DEF Acquire, Moves, At,
     listenVars, adminVars, linkVars, LoopInv, Session, Registered, Deciding, Unseen, Seen, Resting
<1>10. ASSUME ReuseLink PROVE LoopInv'
  BY <1>10, ReuseLinkMoves, Threads, SessionsTyped, ClientsTyped, AttemptsTyped DEF ReuseLink, Moves,
     At, listenVars, gateVars, adminVars, linkVars, LoopInv, Session, Registered, Deciding, Unseen,
     Seen, Resting
<1>11. ASSUME OpenLink PROVE LoopInv'
  BY <1>11, OpenLinkMoves, Threads, SessionsTyped, ClientsTyped, AttemptsTyped DEF OpenLink, Moves,
     At, listenVars, gateVars, adminVars, LoopInv, Session, Registered, Deciding, Unseen, Seen,
     Resting
<1>12. ASSUME OpenLinkFails PROVE LoopInv'
  BY <1>12, OpenLinkFailsMoves, Threads, SessionsTyped, ClientsTyped, AttemptsTyped DEF
     OpenLinkFails, Moves, At, gateVars, adminVars, LoopInv, Session, Registered, Deciding, Unseen,
     Seen, Resting
<1>13. ASSUME Bind PROVE LoopInv'
  BY <1>13, BindMoves, Threads, SessionsTyped, ClientsTyped, AttemptsTyped DEF Bind, Moves, At,
     listenVars, gateVars, adminVars, LoopInv, Session, Registered, Deciding, Unseen, Seen, Resting
<1>14. ASSUME Attach PROVE LoopInv'
  <2>1. NamesKept
    BY <1>14, NamesAreKept
  <2>2. attempts # 0 => attempts' = attempts /\ sess'[attempts].client = sess[attempts].client
                          /\ (sess'[attempts].st = "none" <=> sess[attempts].st = "none")
    BY <2>1, LastIsKept
  <2>3. attempts' = attempts
    BY <2>1 DEF NamesKept
  <2> QED
    BY <1>14, AttachMoves, <2>1, <2>2, <2>3, Threads, SessionsTyped, ClientsTyped, AttemptsTyped DEF
       Attach, Moves, Registered, At, listenVars, gateVars, adminVars, linkVars, LoopInv, Session,
       Deciding, Unseen, Seen, Resting
<1>15. ASSUME Dial PROVE LoopInv'
  BY <1>15, DialMoves, Threads, SessionsTyped, ClientsTyped, AttemptsTyped DEF Dial, Moves, At,
     listenVars, gateVars, adminVars, LoopInv, Session, Registered, Deciding, Unseen, Seen, Resting
<1>16. ASSUME ClientReady PROVE LoopInv'
  <2>1. NamesKept
    BY <1>16, NamesAreKept
  <2>2. attempts # 0 => attempts' = attempts /\ sess'[attempts].client = sess[attempts].client
                          /\ (sess'[attempts].st = "none" <=> sess[attempts].st = "none")
    BY <2>1, LastIsKept
  <2>3. attempts' = attempts
    BY <2>1 DEF NamesKept
  <2> QED
    BY <1>16, ClientReadyMoves, <2>1, <2>2, <2>3, Threads, SessionsTyped, ClientsTyped,
       AttemptsTyped DEF ClientReady, Moves, Registered, At, listenVars, gateVars, adminVars,
       linkVars, LoopInv, Session, Deciding, Unseen, Seen, Resting
<1>17. ASSUME RunReject PROVE LoopInv'
  <2>1. task' = task /\ asking' = asking /\ task[Loop].pc = "idle"
    BY <1>17 DEF RunReject, LoopFree, At, linkVars
  <2> QED
    BY <2>1 DEF LoopInv, Deciding, Unseen, Seen
<1>18. ASSUME RunAccept PROVE LoopInv'
  <2>1. asking' = asking /\ task[Loop].pc = "idle"
    BY <1>18 DEF RunAccept, LoopFree, At
  <2>2. task'[Loop].pc \in {"idle", "ready"}
    BY <1>18, <2>1, RunAcceptMoves DEF Moves
  <2> QED
    BY <2>1, <2>2 DEF LoopInv, Deciding, Unseen, Seen
<1>19. ASSUME RunDisconnect PROVE LoopInv'
  BY <1>19, RunDisconnectMoves, Threads, SessionsTyped, ClientsTyped, AttemptsTyped DEF
     RunDisconnect, Moves, At, LoopFree, HeadIs, gateVars, adminVars, linkVars, LoopInv, Session,
     Registered, Deciding, Unseen, Seen, Resting
<1>20. ASSUME NEW t \in Thread, CloseSession(t) PROVE LoopInv'
  <2>1. \/ task'[Loop] = task[Loop]
        \/ /\ task[Loop].pc \in Cleanup
           /\ \/ task'[Loop].pc \in Cleanup
              \/ task'[Loop].pc = IF asking # NoClient THEN "request" ELSE "idle"
    BY <1>20, CloseSessionMoves, Departures, Threads DEF Moves, Returns, Cleanup, Drops
  <2>2. UNCHANGED <<asking, attempts, req, answer, sess>>
    BY <1>20 DEF CloseSession
  <2> QED
    BY <2>1, <2>2, LoopGoesOn
<1>21. ASSUME NEW t \in Thread, DropBegin(t) PROVE LoopInv'
  <2>1. \/ task'[Loop] = task[Loop]
        \/ /\ task[Loop].pc \in Cleanup
           /\ \/ task'[Loop].pc \in Cleanup
              \/ task'[Loop].pc = IF asking # NoClient THEN "request" ELSE "idle"
    BY <1>21, DropBeginMoves, Departures, Threads DEF Moves, Cleanup, Drops
  <2>2. NamesKept
    BY <1>21, NamesAreKept
  <2>3. UNCHANGED <<asking, attempts, req, answer>>
    BY <1>21 DEF DropBegin, listenVars
  <2> QED
    BY <2>1, <2>2, <2>3, LastIsKept, LoopGoesOn
<1>22. ASSUME NEW t \in Thread, DropWaited(t) PROVE LoopInv'
  <2>1. \/ task'[Loop] = task[Loop]
        \/ /\ task[Loop].pc \in Cleanup
           /\ \/ task'[Loop].pc \in Cleanup
              \/ task'[Loop].pc = IF asking # NoClient THEN "request" ELSE "idle"
    BY <1>22, DropWaitedMoves, Departures, Threads DEF Moves, Returns, Cleanup, Drops
  <2>2. UNCHANGED <<asking, attempts, req, answer, sess>>
    BY <1>22 DEF DropWaited, listenVars
  <2> QED
    BY <2>1, <2>2, LoopGoesOn
<1>23. ASSUME NEW t \in Thread, ReleaseLink(t) PROVE LoopInv'
  <2>1. \/ task'[Loop] = task[Loop]
        \/ /\ task[Loop].pc \in Cleanup
           /\ \/ task'[Loop].pc \in Cleanup
              \/ task'[Loop].pc = IF asking # NoClient THEN "request" ELSE "idle"
    BY <1>23, ReleaseLinkMoves, Departures, Threads DEF Moves, Cleanup, Drops
  <2>2. UNCHANGED <<asking, attempts, req, answer, sess>>
    BY <1>23 DEF ReleaseLink, listenVars
  <2> QED
    BY <2>1, <2>2, LoopGoesOn
<1>24. ASSUME NEW t \in Thread, Forget(t) PROVE LoopInv'
  <2>1. \/ task'[Loop] = task[Loop]
        \/ /\ task[Loop].pc \in Cleanup
           /\ \/ task'[Loop].pc \in Cleanup
              \/ task'[Loop].pc = IF asking # NoClient THEN "request" ELSE "idle"
    BY <1>24, ForgetMoves, Departures, Threads DEF Moves, Cleanup, Drops
  <2>2. UNCHANGED <<asking, attempts, req, answer, sess>>
    BY <1>24 DEF Forget, listenVars
  <2> QED
    BY <2>1, <2>2, LoopGoesOn
<1>25. ASSUME NEW t \in Thread, Uncount(t) PROVE LoopInv'
  <2>1. \/ task'[Loop] = task[Loop]
        \/ /\ task[Loop].pc \in Cleanup
           /\ \/ task'[Loop].pc \in Cleanup
              \/ task'[Loop].pc = IF asking # NoClient THEN "request" ELSE "idle"
    BY <1>25, UncountMoves, Departures, Threads DEF Moves, Returns, Cleanup, Drops
  <2>2. NamesKept
    BY <1>25, NamesAreKept
  <2>3. UNCHANGED <<asking, attempts, req, answer>>
    BY <1>25 DEF Uncount, listenVars
  <2> QED
    BY <2>1, <2>2, <2>3, LastIsKept, LoopGoesOn
<1>26. ASSUME NEW t \in Thread, Refused(t) PROVE LoopInv'
  <2>1. \/ task'[Loop] = task[Loop]
        \/ /\ task[Loop].pc \in Cleanup
           /\ \/ task'[Loop].pc \in Cleanup
              \/ task'[Loop].pc = IF asking # NoClient THEN "request" ELSE "idle"
    BY <1>26, RefusedMoves, Departures, Threads DEF Moves, Cleanup, Drops
  <2>2. UNCHANGED <<asking, attempts, req, answer, sess>>
    BY <1>26 DEF Refused
  <2> QED
    BY <2>1, <2>2, LoopGoesOn
<1>27. ASSUME NEW t \in Thread, Failed(t) PROVE LoopInv'
  <2>1. \/ task'[Loop] = task[Loop]
        \/ /\ task[Loop].pc \in Cleanup
           /\ \/ task'[Loop].pc \in Cleanup
              \/ task'[Loop].pc = IF asking # NoClient THEN "request" ELSE "idle"
    BY <1>27, FailedMoves, Departures, Threads DEF Moves, Cleanup, Drops
  <2>2. UNCHANGED <<asking, attempts, req, answer, sess>>
    BY <1>27 DEF Failed
  <2> QED
    BY <2>1, <2>2, LoopGoesOn
<1>28. ASSUME NEW k \in Attempt, Activate(k) PROVE LoopInv'
  <2>1. task'[Loop] = task[Loop]
    BY <1>28, ActivateMoves, Threads DEF Moves
  <2>2. NamesKept
    BY <1>28, NamesAreKept
  <2>3. UNCHANGED <<asking, attempts, req, answer>>
    BY <1>28 DEF Activate, listenVars
  <2> QED
    BY <2>1, <2>2, <2>3, LastIsKept, LoopGoesOn
<1>29. ASSUME NEW k \in Attempt, Confirm(k) PROVE LoopInv'
  <2>1. task'[Loop] = task[Loop]
    BY <1>29, ConfirmMoves, Threads DEF Moves
  <2>2. UNCHANGED <<asking, attempts, req, answer, sess>>
    BY <1>29 DEF Confirm
  <2> QED
    BY <2>1, <2>2, LoopGoesOn
<1>30. ASSUME NEW k \in Attempt, RunUpDisconnect(k) PROVE LoopInv'
  <2>1. task'[Loop] = task[Loop]
    BY <1>30, RunUpDisconnectMoves, Threads DEF Moves
  <2>2. UNCHANGED <<asking, attempts, req, answer, sess>>
    BY <1>30 DEF RunUpDisconnect, listenVars
  <2> QED
    BY <2>1, <2>2, LoopGoesOn
<1>31. ASSUME NEW k \in Attempt, NEW b \in Backend, BackendAccepts(k, b) PROVE LoopInv'
  <2>1. task'[Loop] = task[Loop]
    BY <1>31, BackendAcceptsMoves, Threads DEF Moves
  <2>2. NamesKept
    BY <1>31, NamesAreKept
  <2>3. UNCHANGED <<asking, attempts, req, answer>>
    BY <1>31 DEF BackendAccepts, listenVars
  <2> QED
    BY <2>1, <2>2, <2>3, LastIsKept, LoopGoesOn
<1>32. ASSUME NEW k \in Attempt, NEW b \in Backend, NEW rejected \in BOOLEAN, DialFails(k, b, rejected) PROVE LoopInv'
  <2>1. task'[Loop] = task[Loop]
    BY <1>32, DialFailsMoves, Threads DEF Moves
  <2>2. UNCHANGED <<asking, attempts, req, answer, sess>>
    BY <1>32 DEF DialFails, listenVars
  <2> QED
    BY <2>1, <2>2, LoopGoesOn
<1>33. ASSUME NEW k \in Attempt, NEW b \in Backend, BackendGone(k, b) PROVE LoopInv'
  <2>1. task'[Loop] = task[Loop]
    BY <1>33, BackendGoneMoves, Threads DEF Moves
  <2>2. UNCHANGED <<asking, attempts, req, answer, sess>>
    BY <1>33 DEF BackendGone, listenVars
  <2> QED
    BY <2>1, <2>2, LoopGoesOn
<1>34. ASSUME NEW s \in Attempt, TimerFires(s) PROVE LoopInv'
  BY <1>34, TimerFiresMoves, Threads, SessionsTyped, ClientsTyped, AttemptsTyped DEF TimerFires,
     Moves, listenVars, gateVars, adminVars, linkVars, LoopInv, Session, Registered, Deciding,
     Unseen, Seen, Resting
<1>35. ASSUME NEW s \in Attempt, RelayBreaks(s) PROVE LoopInv'
  BY <1>35, RelayBreaksMoves, Threads, SessionsTyped, ClientsTyped, AttemptsTyped DEF RelayBreaks,
     Moves, At, listenVars, gateVars, adminVars, linkVars, LoopInv, Session, Registered, Deciding,
     Unseen, Seen, Resting
<1>36. ASSUME NEW s \in Attempt, Kick(s) PROVE LoopInv'
  BY <1>36, KickMoves, Threads, SessionsTyped, ClientsTyped, AttemptsTyped DEF Kick, Moves,
     ConsoleMay, At, listenVars, gateVars, adminVars, linkVars, LoopInv, Session, Registered,
     Deciding, Unseen, Seen, Resting
<1>37. ASSUME NEW s \in Attempt, NEW b \in Backend, Move(s, b) PROVE LoopInv'
  BY <1>37, MoveMoves, Threads, SessionsTyped, ClientsTyped, AttemptsTyped DEF Move, Moves,
     ConsoleMay, At, listenVars, gateVars, linkVars, LoopInv, Session, Registered, Deciding, Unseen,
     Seen, Resting
<1>38. ASSUME NEW ip \in IP, Ban(ip) PROVE LoopInv'
  BY <1>38, BanMoves, Threads, SessionsTyped, ClientsTyped, AttemptsTyped DEF Ban, Moves,
     ConsoleMay, At, Listed, listenVars, gateVars, linkVars, LoopInv, Session, Registered, Deciding,
     Unseen, Seen, Resting
<1>39. ASSUME CloseProxy PROVE LoopInv'
  BY <1>39, CloseProxyMoves, Threads, SessionsTyped, ClientsTyped, AttemptsTyped DEF CloseProxy,
     Moves, At, Listed, listenVars, gateVars, linkVars, LoopInv, Session, Registered, Deciding,
     Unseen, Seen, Resting
<1>40. ASSUME StopListening PROVE LoopInv'
  BY <1>40, StopListeningMoves, Threads, SessionsTyped, ClientsTyped, AttemptsTyped DEF
     StopListening, Moves, At, gateVars, adminVars, linkVars, LoopInv, Session, Registered,
     Deciding, Unseen, Seen, Resting
<1>41. ASSUME StopAllLinks PROVE LoopInv'
  BY <1>41, StopAllLinksMoves, Threads, SessionsTyped, ClientsTyped, AttemptsTyped DEF StopAllLinks,
     Moves, At, listenVars, gateVars, adminVars, LoopInv, Session, Registered, Deciding, Unseen,
     Seen, Resting
<1>42. ASSUME LinksStopped PROVE LoopInv'
  BY <1>42, LinksStoppedMoves, Threads, SessionsTyped, ClientsTyped, AttemptsTyped DEF LinksStopped,
     Moves, At, listenVars, gateVars, adminVars, linkVars, LoopInv, Session, Registered, Deciding,
     Unseen, Seen, Resting
<1> QED
  BY <1>1, <1>2, <1>3, <1>4, <1>5, <1>6, <1>7, <1>8, <1>9, <1>10, <1>11, <1>12, <1>13, <1>14,
     <1>15, <1>16, <1>17, <1>18, <1>19, <1>20, <1>21, <1>22, <1>23, <1>24, <1>25, <1>26, <1>27,
     <1>28, <1>29, <1>30, <1>31, <1>32, <1>33, <1>34, <1>35, <1>36, <1>37, <1>38, <1>39, <1>40,
     <1>41, <1>42, Writers DEF Written, Writes_attempts, Writes_req, Writes_answer, Writes_asking,
     Writes_sess, Writes_task

\* Attempts to come are blank, and those registered have a client and a backend.
LEMMA AttemptsKept ==
  ASSUME TypeInv, RefInv, AttemptInv, LoopInv, Next
  PROVE  AttemptInv'
<1>1. CASE UNCHANGED <<attempts, answer, sess>>
  BY <1>1 DEF AttemptInv, NewSession, Registered
<1>2. ASSUME Request PROVE AttemptInv'
  <2>1. attempts' = attempts + 1 /\ answer' = answer /\ asking \in Client
    BY <1>2, ClientsTyped DEF Request, At, LoopInv, Deciding, Unseen, Seen
  <2>2. /\ \A s \in Attempt : s # attempts + 1 => sess'[s] = sess[s]
        /\ \A s \in Attempt : s = attempts + 1 => sess'[s].client = asking /\ sess'[s].st = sess[s].st
    BY <1>2, <2>1, SessionsTyped DEF Request, Session
  <2> QED
    BY <2>1, <2>2, AttemptsTyped DEF AttemptInv, NewSession, Registered
<1>3. ASSUME Register PROVE AttemptInv'
  <2>1. /\ task[Loop].s = attempts /\ attempts \in Attempt /\ UNCHANGED <<attempts, answer>>
        /\ sess[attempts].target \in Backend
    BY <1>3, AttemptsTyped DEF Register, At, LoopInv, Deciding, Unseen, Seen, listenVars
  <2>2. /\ \A s \in Attempt : s # attempts => sess'[s] = sess[s]
        /\ sess'[attempts].client = sess[attempts].client
        /\ sess'[attempts].target = sess[attempts].target
    BY <1>3, <2>1, SessionsTyped DEF Register, Session
  <2> QED
    BY <2>1, <2>2, AttemptsTyped DEF AttemptInv, NewSession, Registered
<1>4. ASSUME TakeRedirect \/ PickBackend PROVE AttemptInv'
  <2>1. TargetChosen /\ answer' = answer
    BY <1>4, ChoosesTarget DEF TakeRedirect, PickBackend, listenVars
  <2> QED
    BY <2>1, AttemptsTyped DEF AttemptInv, NewSession, Registered, TargetChosen
<1>5. ASSUME Attach PROVE AttemptInv'
  <2>1. NamesKept
    BY <1>5, NamesAreKept
  <2> QED
    BY <1>5, <2>1, SessionsTyped, AttemptsTyped, ClientsTyped DEF Attach, NamesKept, Registered,
       listenVars, gateVars, adminVars, linkVars, AttemptInv, NewSession
<1>6. ASSUME ClientReady PROVE AttemptInv'
  <2>1. NamesKept
    BY <1>6, NamesAreKept
  <2> QED
    BY <1>6, <2>1, SessionsTyped, AttemptsTyped, ClientsTyped DEF ClientReady, NamesKept,
       Registered, listenVars, gateVars, adminVars, linkVars, AttemptInv, NewSession
<1>7. ASSUME RunReject PROVE AttemptInv'
  <2>1. Head(lq).s <= attempts /\ UNCHANGED <<attempts, sess>>
    BY <1>7, HeadOfQueue DEF RunReject, HeadIs
  <2>2. \A s \in Attempt : s > attempts => answer'[s] = answer[s]
    BY <1>7, <2>1, AttemptsTyped DEF RunReject, Resolve
  <2> QED
    BY <2>1, <2>2 DEF AttemptInv, NewSession, Registered
<1>8. ASSUME RunAccept PROVE AttemptInv'
  <2>1. Head(lq).s <= attempts /\ UNCHANGED <<attempts, sess>>
    BY <1>8, HeadOfQueue DEF RunAccept, HeadIs
  <2>2. \A s \in Attempt : s > attempts => answer'[s] = answer[s]
    BY <1>8, <2>1, AttemptsTyped DEF RunAccept, Resolve
  <2> QED
    BY <2>1, <2>2 DEF AttemptInv, NewSession, Registered
<1>9. ASSUME NEW t \in Thread, DropBegin(t) PROVE AttemptInv'
  <2>1. NamesKept
    BY <1>9, NamesAreKept
  <2> QED
    BY <1>9, <2>1, SessionsTyped, AttemptsTyped, ClientsTyped DEF DropBegin, NamesKept, Registered,
       listenVars, gateVars, adminVars, linkVars, AttemptInv, NewSession
<1>10. ASSUME NEW t \in Thread, Uncount(t) PROVE AttemptInv'
  <2>1. NamesKept
    BY <1>10, NamesAreKept
  <2> QED
    BY <1>10, <2>1, SessionsTyped, AttemptsTyped, ClientsTyped DEF Uncount, NamesKept, Registered,
       listenVars, adminVars, linkVars, AttemptInv, NewSession
<1>11. ASSUME NEW k \in Attempt, Activate(k) PROVE AttemptInv'
  <2>1. NamesKept
    BY <1>11, NamesAreKept
  <2> QED
    BY <1>11, <2>1, SessionsTyped, AttemptsTyped, ClientsTyped DEF Activate, NamesKept, Registered,
       listenVars, gateVars, adminVars, linkVars, AttemptInv, NewSession
<1>12. ASSUME NEW k \in Attempt, NEW b \in Backend, BackendAccepts(k, b) PROVE AttemptInv'
  <2>1. NamesKept
    BY <1>12, NamesAreKept
  <2> QED
    BY <1>12, <2>1, SessionsTyped, AttemptsTyped, ClientsTyped DEF BackendAccepts, NamesKept,
       Registered, UpFree, listenVars, gateVars, adminVars, AttemptInv, NewSession
<1> QED
  BY <1>1, <1>2, <1>3, <1>4, <1>5, <1>6, <1>7, <1>8, <1>9, <1>10, <1>11, <1>12, Writers DEF
     Written, Writes_attempts, Writes_answer, Writes_sess

\* Sessions keep their types.
LEMMA SessionsStayTyped ==
  ASSUME TypeInv, RefInv, Next
  PROVE  sess' \in [Attempt -> Session]
<1>1. CASE UNCHANGED <<sess>>
  BY <1>1, SessionsTyped
<1>2. ASSUME Request PROVE sess' \in [Attempt -> Session]
  <2>1. asking \in Client /\ attempts + 1 \in Attempt
    BY <1>2, AttemptsTyped, ClientsTyped DEF Request, At, TypeInv, LoopInv, Deciding, Unseen, Seen
  <2>2. sess' = [sess EXCEPT ![attempts + 1].client = asking]
    BY <1>2 DEF Request
  <2> QED
    BY <2>1, <2>2, SessionsTyped DEF Session
<1>3. ASSUME Register PROVE sess' \in [Attempt -> Session]
  <2>1. task[Loop].s \in Attempt
    BY <1>3, AtWork, Threads DEF Register, At, TypeInv, Resting
  <2> QED
    BY <1>3, <2>1, SessionsTyped DEF Register, Session
<1>4. ASSUME TakeRedirect PROVE sess' \in [Attempt -> Session]
  <2>1. task[Loop].s \in Attempt /\ asking \in Client
    BY <1>4, ClientsTyped, AtWork, Threads DEF TakeRedirect, At, TypeInv, LoopInv, Resting, Deciding,
       Unseen
  <2>2. redirects[IpOf[asking]] \in Backend \cup {NoBackend}
    BY <2>1, ClientsHaveIPs DEF TypeInv, TypeOK
  <2> QED
    BY <1>4, <2>1, <2>2, SessionsTyped DEF TakeRedirect, Session
<1>5. ASSUME PickBackend PROVE sess' \in [Attempt -> Session]
  <2>1. task[Loop].s \in Attempt
    BY <1>5, AtWork, Threads DEF PickBackend, At, TypeInv, Resting
  <2>2. Pick(pool, sess[task[Loop].s].target) \in Backend \cup {NoBackend}
    BY <2>1, PickIsBackend, SessionsTyped DEF Session
  <2> QED
    BY <1>5, <2>1, <2>2, SessionsTyped DEF PickBackend, Session
<1>6. ASSUME Attach PROVE sess' \in [Attempt -> Session]
  <2>1. task[Loop].k \in Maybe
    BY TasksTyped, Threads
  <2>2. task[Loop].s \in Attempt
    BY <1>6, AtWork, Threads DEF Attach, At, TypeInv, Resting
  <2> QED
    BY <1>6, <2>1, <2>2, SessionsTyped DEF Attach, Session
<1>7. ASSUME ClientReady PROVE sess' \in [Attempt -> Session]
  <2>1. task[Loop].k \in Maybe
    BY TasksTyped, Threads
  <2>2. task[Loop].s \in Attempt
    BY <1>7, AtWork, Threads DEF ClientReady, At, TypeInv, Resting
  <2> QED
    BY <1>7, <2>1, <2>2, SessionsTyped DEF ClientReady, Session
<1>8. ASSUME NEW t \in Thread, DropBegin(t) PROVE sess' \in [Attempt -> Session]
  <2>1. sess' = [sess EXCEPT ![task[t].s].st = "closed", ![task[t].s].once = "running"]
    BY <1>8 DEF DropBegin
  <2>2. task[t].s \in Attempt
    BY <1>8, AtWork DEF DropBegin, At, TypeInv, Resting
  <2>3. [sess[task[t].s] EXCEPT !.st = "closed", !.once = "running"] \in Session
    <3>1. [sess[task[t].s] EXCEPT !.st = "closed"] \in Session
      BY <2>2, SessionsTyped DEF Session
    <3> QED
      BY <3>1 DEF Session
  <2>4. sess' = [sess EXCEPT ![task[t].s] = [sess[task[t].s] EXCEPT !.st = "closed", !.once = "running"]]
    BY <2>1, <2>2, SessionsTyped
  <2> QED
    BY <2>2, <2>3, <2>4, SessionsTyped
<1>9. ASSUME NEW t \in Thread, Uncount(t) PROVE sess' \in [Attempt -> Session]
  <2>1. task[t].s \in Attempt
    BY <1>9, AtWork DEF Uncount, At, TypeInv, Resting
  <2> QED
    BY <1>9, <2>1, SessionsTyped DEF Uncount, Session
<1>10. ASSUME NEW k \in Attempt, Activate(k) PROVE sess' \in [Attempt -> Session]
  <2>1. task[Up(k)].k \in Maybe
    BY <1>10, TasksTyped, Threads
  <2>2. task[Up(k)].s \in Attempt
    BY <1>10, AtWork, Threads DEF Activate, At, TypeInv, Resting
  <2> QED
    BY <1>10, <2>1, <2>2, SessionsTyped DEF Activate, Session
<1>11. ASSUME NEW k \in Attempt, NEW b \in Backend, BackendAccepts(k, b) PROVE sess' \in [Attempt -> Session]
  BY <1>11, SessionsTyped DEF BackendAccepts, Session
<1> QED
  BY <1>1, <1>2, <1>3, <1>4, <1>5, <1>6, <1>7, <1>8, <1>9, <1>10, <1>11, Writers DEF Written,
     Writes_sess

\* So do links.
LEMMA LinksStayTyped ==
  ASSUME TypeInv, RefInv, Next
  PROVE  link' \in [Attempt -> LinkState]
<1>1. CASE UNCHANGED <<link>>
  BY <1>1, LinksTyped
<1>2. ASSUME OpenLink PROVE link' \in [Attempt -> LinkState]
  <2>1. task[Loop].s \in Attempt
    BY <1>2, AtWork, Threads DEF OpenLink, At, TypeInv, Resting
  <2>2. GivenUp({links[asking]}) \in [Attempt -> LinkState]
    BY GivenUpTyped
  <2> QED
    BY <1>2, <2>1, <2>2 DEF OpenLink, LinkState
<1>3. ASSUME OpenLinkFails PROVE link' \in [Attempt -> LinkState]
  BY <1>3, GivenUpTyped DEF OpenLinkFails
<1>4. ASSUME Bind PROVE link' \in [Attempt -> LinkState]
  <2> DEFINE k == task[Loop].k
             x == [link[k] EXCEPT !.s = task[Loop].s, !.lease = "zero"]
  <2>1. k \in Maybe /\ task[Loop].s \in Maybe
    BY TasksTyped, Threads
  <2>2. CASE k \in Attempt
    <3>1. x \in LinkState
      BY <2>1, <2>2, LinksTyped DEF LinkState
    <3>2. link' = [link EXCEPT ![k] = x]
      BY <1>4, <2>2, LinksTyped DEF Bind
    <3> QED
      BY <2>2, <3>1, <3>2, LinksTyped
  <2>3. CASE k \notin Attempt
    BY <1>4, <2>3, LinksTyped DEF Bind
  <2> QED
    BY <2>2, <2>3
<1>5. ASSUME NEW t \in Thread, ReleaseLink(t) PROVE link' \in [Attempt -> LinkState]
  <2>1. CASE task[t].k = Nobody
    BY <1>5, <2>1, LinksTyped DEF ReleaseLink
  <2>2. CASE task[t].k # Nobody
    <3> DEFINE x == [link[task[t].k] EXCEPT !.s = Nobody, !.lease = "running"]
    <3>1. task[t].k \in Attempt
      BY <2>2, TasksTyped, AttemptsTyped
    <3>0. link[task[t].k] \in LinkState /\ Nobody \in Maybe
      BY <3>1, LinksTyped DEF Maybe
    <3>2. x \in LinkState
      BY <3>0 DEF LinkState
    <3>3. link' = [link EXCEPT ![task[t].k] = x]
      BY <1>5, <2>2, <3>1, LinksTyped DEF ReleaseLink
    <3> QED
      BY <3>1, <3>2, <3>3, LinksTyped
  <2> QED
    BY <2>1, <2>2
<1>6. ASSUME NEW k \in Attempt, PostStop(k) PROVE link' \in [Attempt -> LinkState]
  BY <1>6, LinksTyped DEF PostStop, listenVars, gateVars, adminVars, LinkState
<1>7. ASSUME NEW k \in Attempt, RunUpStop(k) PROVE link' \in [Attempt -> LinkState]
  BY <1>7, LinksTyped DEF RunUpStop, Shutdown, listenVars, gateVars, adminVars, LinkState
<1>8. ASSUME NEW k \in Attempt, UpEnds(k) PROVE link' \in [Attempt -> LinkState]
  BY <1>8, LinksTyped DEF UpEnds, listenVars, gateVars, adminVars, LinkState
<1>9. ASSUME NEW k \in Attempt, LeaseExpires(k) PROVE link' \in [Attempt -> LinkState]
  BY <1>9, LinksTyped DEF LeaseExpires, listenVars, gateVars, adminVars, LinkState
<1>10. ASSUME NEW c \in Client, SweepLink(c) PROVE link' \in [Attempt -> LinkState]
  BY <1>10, GivenUpTyped DEF SweepLink
<1>11. ASSUME StopAllLinks PROVE link' \in [Attempt -> LinkState]
  BY <1>11, GivenUpTyped DEF StopAllLinks
<1> QED
  BY <1>1, <1>2, <1>3, <1>4, <1>5, <1>6, <1>7, <1>8, <1>9, <1>10, <1>11, Writers DEF Written,
     Writes_link

\* So does their table.
LEMMA LinkTableStaysTyped ==
  ASSUME TypeInv, RefInv, Next
  PROVE  links' \in [Client -> Maybe]
<1>1. CASE UNCHANGED <<links>>
  BY <1>1, LinksTyped
<1>2. ASSUME OpenLink PROVE links' \in [Client -> Maybe]
  <2>1. task[Loop].s \in Maybe
    BY TasksTyped, Threads
  <2> QED
    BY <1>2, <2>1, LinksTyped DEF OpenLink
<1>3. ASSUME OpenLinkFails PROVE links' \in [Client -> Maybe]
  BY <1>3, LinksTyped DEF OpenLinkFails, gateVars, adminVars, Maybe
<1>4. ASSUME NEW c \in Client, SweepLink(c) PROVE links' \in [Client -> Maybe]
  BY <1>4, LinksTyped DEF SweepLink, listenVars, gateVars, adminVars, Maybe
<1>5. ASSUME StopAllLinks PROVE links' \in [Client -> Maybe]
  BY <1>5, LinksTyped DEF StopAllLinks, listenVars, gateVars, adminVars, Maybe
<1> QED
  BY <1>1, <1>2, <1>3, <1>4, <1>5, Writers DEF Written, Writes_links

\* So do the peers towards backends.
LEMMA UpstreamPeersStayTyped ==
  ASSUME TypeInv, RefInv, Next
  PROVE  up' \in [Attempt -> [Backend -> PeerState]]
<1>1. CASE UNCHANGED <<up>>
  BY <1>1, LinksTyped
<1>2. ASSUME NEW k \in Attempt, RunConnect(k) PROVE up' \in [Attempt -> [Backend -> PeerState]]
  <2>1. uq[k] # <<>>
    BY <1>2 DEF RunConnect, HeadIs
  <2>2. Head(uq[k]).s \in Maybe
    BY <1>2, <2>1, HeadUp DEF Order, Command
  <2>3. Dialed(Head(uq[k]).s) \in PeerState
    BY <2>2 DEF Dialed, PeerState
  <2> QED
    BY <1>2, <2>3, LinksTyped DEF RunConnect
<1>3. ASSUME NEW k \in Attempt, RunUpDisconnect(k) PROVE up' \in [Attempt -> [Backend -> PeerState]]
  <2>1. uq[k] # <<>>
    BY <1>3 DEF RunUpDisconnect, HeadIs
  <2>2. Head(uq[k]).s \in Maybe
    BY <1>3, <2>1, HeadUp DEF Order, Command
  <2>3. [id |-> Head(uq[k]).s, st |-> "closing"] \in PeerState
    BY <2>2 DEF PeerState
  <2> QED
    BY <1>3, <2>3, LinksTyped DEF RunUpDisconnect
<1>4. ASSUME NEW k \in Attempt, RunUpStop(k) PROVE up' \in [Attempt -> [Backend -> PeerState]]
  <2>1. \A p \in PeerState : Shutdown(p) \in PeerState
    BY DEF Shutdown, PeerState
  <2>2. up' = [up EXCEPT ![k] = [b \in Backend |-> Shutdown(up[k][b])]]
    BY <1>4 DEF RunUpStop
  <2> QED
    BY <2>1, <2>2, LinksTyped
<1>5. ASSUME NEW k \in Attempt, UpEnds(k) PROVE up' \in [Attempt -> [Backend -> PeerState]]
  BY <1>5, LinksTyped DEF UpEnds, listenVars, gateVars, adminVars, NoPeer, Maybe, Nobody, PeerState
<1>6. ASSUME NEW k \in Attempt, NEW b \in Backend, BackendAccepts(k, b) PROVE up' \in [Attempt -> [Backend -> PeerState]]
  BY <1>6, LinksTyped DEF BackendAccepts, Connected, listenVars, gateVars, adminVars, NoPeer, Maybe,
     Nobody, PeerState
<1>7. ASSUME NEW k \in Attempt, NEW b \in Backend, BackendMismatch(k, b) PROVE up' \in [Attempt -> [Backend -> PeerState]]
  <2>1. [up[k][b] EXCEPT !.st = "closing"] \in PeerState
    BY LinksTyped DEF PeerState
  <2>2. up' = [up EXCEPT ![k] = [up[k] EXCEPT ![b] = [up[k][b] EXCEPT !.st = "closing"]]]
    BY <1>7, LinksTyped DEF BackendMismatch
  <2> QED
    BY <2>1, <2>2, LinksTyped
<1>8. ASSUME NEW k \in Attempt, NEW b \in Backend, NEW rejected \in BOOLEAN, DialFails(k, b, rejected) PROVE up' \in [Attempt -> [Backend -> PeerState]]
  BY <1>8, LinksTyped DEF DialFails, listenVars, gateVars, adminVars, NoPeer, Maybe, Nobody,
     PeerState
<1>9. ASSUME NEW k \in Attempt, NEW b \in Backend, BackendGone(k, b) PROVE up' \in [Attempt -> [Backend -> PeerState]]
  BY <1>9, LinksTyped DEF BackendGone, listenVars, gateVars, adminVars, NoPeer, Maybe, Nobody,
     PeerState
<1>10. ASSUME NEW k \in Attempt, NEW b \in Backend, UpPeerForgotten(k, b) PROVE up' \in [Attempt -> [Backend -> PeerState]]
  BY <1>10, LinksTyped DEF UpPeerForgotten, listenVars, gateVars, adminVars, NoPeer, Maybe, Nobody,
     PeerState
<1> QED
  BY <1>1, <1>2, <1>3, <1>4, <1>5, <1>6, <1>7, <1>8, <1>9, <1>10, Writers DEF Written, Writes_up

\* So do the peers of clients.
LEMMA PeersStayTyped ==
  ASSUME TypeInv, RefInv, Next
  PROVE  peer' \in [Client -> PeerState]
<1>1. CASE UNCHANGED <<peer>>
  BY <1>1, ClientsTyped
<1>2. ASSUME NEW c \in Client, ConnectRequest(c) PROVE peer' \in [Client -> PeerState]
  BY <1>2, ClientsTyped DEF ConnectRequest, Displaced, gateVars, adminVars, linkVars, NoPeer, Maybe,
     Nobody, PeerState
<1>3. ASSUME NEW c \in Client, ClientGone(c) PROVE peer' \in [Client -> PeerState]
  BY <1>3, ClientsTyped DEF ClientGone, gateVars, adminVars, linkVars, NoPeer, Maybe, Nobody,
     PeerState
<1>4. ASSUME NEW c \in Client, PeerForgotten(c) PROVE peer' \in [Client -> PeerState]
  BY <1>4, ClientsTyped DEF PeerForgotten, gateVars, adminVars, linkVars, NoPeer, Maybe, Nobody,
     PeerState
<1>5. ASSUME RunAccept PROVE peer' \in [Client -> PeerState]
  <2>1. Head(lq).s \in Maybe
    BY <1>5, HeadOfQueue DEF RunAccept, HeadIs
  <2>2. AcceptedPeer(Head(lq).s) \in PeerState
    BY <2>1 DEF AcceptedPeer, PeerState
  <2> QED
    BY <1>5, <2>2, ClientsTyped DEF RunAccept
<1>6. ASSUME RunDisconnect PROVE peer' \in [Client -> PeerState]
  BY <1>6, ClientsTyped DEF RunDisconnect, gateVars, adminVars, linkVars, NoPeer, Maybe, Nobody,
     PeerState
<1>7. ASSUME RunStop PROVE peer' \in [Client -> PeerState]
  BY <1>7, ClientsTyped DEF RunStop, Shutdown, gateVars, adminVars, linkVars, NoPeer, Maybe, Nobody,
     PeerState
<1>8. ASSUME LoopEnds PROVE peer' \in [Client -> PeerState]
  BY <1>8, ClientsTyped DEF LoopEnds, gateVars, adminVars, linkVars, NoPeer, Maybe, Nobody,
     PeerState
<1> QED
  BY <1>1, <1>2, <1>3, <1>4, <1>5, <1>6, <1>7, <1>8, Writers DEF Written, Writes_peer

\* So do requests.
LEMMA RequestsStayTyped ==
  ASSUME TypeInv, RefInv, Next
  PROVE  req' \in [Client -> Maybe] /\ attempts' \in 0..MaxAttempts
<1>1. CASE UNCHANGED <<attempts, req>>
  BY <1>1, ClientsTyped, AttemptsTyped
<1>2. ASSUME Request PROVE req' \in [Client -> Maybe] /\ attempts' \in 0..MaxAttempts
  <2>1. attempts + 1 \in Attempt
    BY <1>2, AttemptsTyped DEF Request, At, TypeInv, LoopInv, Deciding, Unseen, Seen
  <2>2. attempts' = attempts + 1 /\ req' = [req EXCEPT ![asking] = attempts + 1]
    BY <1>2 DEF Request
  <2>3. attempts + 1 \in Maybe /\ attempts + 1 \in 0..MaxAttempts
    BY <2>1, AttemptsTyped
  <2> QED
    BY <2>2, <2>3, ClientsTyped
<1>3. ASSUME RunReject PROVE req' \in [Client -> Maybe] /\ attempts' \in 0..MaxAttempts
  BY <1>3, ClientsTyped, AttemptsTyped DEF RunReject, Resolve, gateVars, adminVars, linkVars
<1>4. ASSUME RunAccept PROVE req' \in [Client -> Maybe] /\ attempts' \in 0..MaxAttempts
  BY <1>4, ClientsTyped, AttemptsTyped DEF RunAccept, Resolve, gateVars, adminVars, linkVars
<1> QED
  BY <1>1, <1>2, <1>3, <1>4, Writers DEF Written, Writes_attempts, Writes_req

\* So do answers.
LEMMA AnswersStayTyped ==
  ASSUME TypeInv, RefInv, Next
  PROVE  answer' \in [Attempt -> {"none", "accepted", "rejected"}]
<1>1. CASE UNCHANGED <<answer>>
  BY <1>1, AttemptsTyped
<1>2. ASSUME RunReject PROVE answer' \in [Attempt -> {"none", "accepted", "rejected"}]
  BY <1>2, AttemptsTyped DEF RunReject, Resolve, gateVars, adminVars, linkVars
<1>3. ASSUME RunAccept PROVE answer' \in [Attempt -> {"none", "accepted", "rejected"}]
  BY <1>3, AttemptsTyped DEF RunAccept, Resolve, gateVars, adminVars, linkVars
<1> QED
  BY <1>1, <1>2, <1>3, Writers DEF Written, Writes_answer

\* So do the tables of sessions and the timers.
LEMMA AddressesStayTyped ==
  ASSUME TypeInv, RefInv, Next
  PROVE  /\ byAddr' \in [Client -> Maybe] /\ byID' \subseteq Attempt
         /\ armed' \subseteq Attempt
<1>1. CASE UNCHANGED <<byAddr, byID, armed>>
  BY <1>1, ClientsTyped, NamedAttempts
<1>2. ASSUME Register PROVE /\ byAddr' \in [Client -> Maybe] /\ byID' \subseteq Attempt
         /\ armed' \subseteq Attempt
  <2>1. task[Loop].s \in Attempt
    BY <1>2, AtWork, Threads DEF Register, At, TypeInv, Resting
  <2> QED
    BY <1>2, <2>1, ClientsTyped, NamedAttempts, AttemptsTyped DEF Register, linkVars
<1>3. ASSUME Dial PROVE /\ byAddr' \in [Client -> Maybe] /\ byID' \subseteq Attempt
         /\ armed' \subseteq Attempt
  <2>1. task[Loop].s \in Attempt
    BY <1>3, AtWork, Threads DEF Dial, At, TypeInv, Resting
  <2> QED
    BY <1>3, <2>1, ClientsTyped, NamedAttempts, AttemptsTyped DEF Dial, listenVars
<1>4. ASSUME NEW t \in Thread, Forget(t) PROVE /\ byAddr' \in [Client -> Maybe] /\ byID' \subseteq Attempt
         /\ armed' \subseteq Attempt
  BY <1>4, ClientsTyped, NamedAttempts, AttemptsTyped DEF Forget, listenVars, gateVars, adminVars,
     linkVars
<1>5. ASSUME NEW s \in Attempt, TimerFires(s) PROVE /\ byAddr' \in [Client -> Maybe] /\ byID' \subseteq Attempt
         /\ armed' \subseteq Attempt
  BY <1>5, ClientsTyped, NamedAttempts, AttemptsTyped DEF TimerFires, listenVars, gateVars,
     adminVars, linkVars
<1> QED
  BY <1>1, <1>2, <1>3, <1>4, <1>5, Writers DEF Written, Writes_byAddr, Writes_byID, Writes_armed

\* What the console and the gate write.
LEMMA RestTyped ==
  ASSUME TypeInv
  PROVE  /\ count \in [IP -> Nat] /\ total \in Nat /\ banned \subseteq IP
         /\ redirects \in [IP -> Backend \cup {NoBackend}]
         /\ maintenance \in BOOLEAN /\ stopped \in BOOLEAN
         /\ listening \in {"open", "stopping", "ended"}
         /\ commands \in 0..MaxCommands
  BY DEF TypeInv, TypeOK

\* The backends.
LEMMA PoolTyped ==
  ASSUME TypeInv
  PROVE  pool \in [Backend -> BackendState]
  BY DEF TypeInv, TypeOK

\* The operators of the pool keep its type.
LEMMA PoolOperators ==
  ASSUME NEW p \in [Backend -> BackendState], NEW b
  PROVE  /\ MarkSuccess(p, b) \in [Backend -> BackendState]
         /\ MarkFailure(p, b) \in [Backend -> BackendState]
         /\ AddPlayer(p, b) \in [Backend -> BackendState]
         /\ RemovePlayer(p, b) \in [Backend -> BackendState]
         /\ \A on \in BOOLEAN : SetEnabled(p, b, on) \in [Backend -> BackendState]
         /\ ProbeDue(p, b) \in [Backend -> BackendState]
<1>1. CASE b \notin Backend
  BY <1>1 DEF MarkSuccess, MarkFailure, AddPlayer, RemovePlayer, SetEnabled, ProbeDue
<1>2. CASE b \in Backend
  <2>1. p[b] \in BackendState
    BY <1>2
  <2>1a. p[b].failures \in Nat /\ p[b].players \in Nat /\ p[b].healthy \in BOOLEAN
    BY <2>1 DEF BackendState
  <2> DEFINE ok   == [p[b] EXCEPT !.failures = 0, !.healthy = TRUE]
             mid  == [p[b] EXCEPT !.failures = @ + 1, !.rested = FALSE]
             down == p[b].healthy /\ p[b].failures + 1 < HealthFailures
             ko   == [mid EXCEPT !.healthy = down]
  <2>2. ok \in BackendState /\ ko \in BackendState
    <3>1. ok \in BackendState
      BY <2>1 DEF BackendState
    <3>2. down \in BOOLEAN /\ p[b].failures + 1 \in Nat
      BY <2>1a, ThresholdIsPositive
    <3>2a. \A x \in BackendState, n \in Nat : [x EXCEPT !.failures = n, !.rested = FALSE] \in BackendState
      BY DEF BackendState
    <3>2b. mid \in BackendState
      BY <2>1, <3>2, <3>2a
    <3> HIDE DEF mid, down
    <3>3. ko \in BackendState
      BY <3>2, <3>2b DEF BackendState
    <3> QED
      BY <3>1, <3>3
  <2>3. MarkSuccess(p, b) = [p EXCEPT ![b] = ok]
    BY <1>2 DEF MarkSuccess
  <2>4. MarkFailure(p, b) = [p EXCEPT ![b] = ko]
    BY <1>2, <2>1 DEF MarkFailure, BackendState
  <2>5. MarkSuccess(p, b) \in [Backend -> BackendState] /\ MarkFailure(p, b) \in [Backend -> BackendState]
    <3> HIDE DEF ok, ko
    <3> QED
      BY <2>2, <2>3, <2>4
  <2>6. /\ AddPlayer(p, b) \in [Backend -> BackendState]
        /\ RemovePlayer(p, b) \in [Backend -> BackendState]
    <3>1. /\ [p[b] EXCEPT !.players = @ + 1] \in BackendState
          /\ [p[b] EXCEPT !.players = IF @ > 0 THEN @ - 1 ELSE 0] \in BackendState
      BY <2>1, <2>1a DEF BackendState
    <3> QED
      BY <1>2, <3>1 DEF AddPlayer, RemovePlayer
  <2>7. \A on \in BOOLEAN : SetEnabled(p, b, on) \in [Backend -> BackendState]
    BY <1>2, <2>1 DEF BackendState, SetEnabled
  <2>8. ProbeDue(p, b) \in [Backend -> BackendState]
    BY <1>2, <2>1 DEF BackendState, ProbeDue
  <2> QED
    BY <2>5, <2>6, <2>7, <2>8
<1> QED
  BY <1>1, <1>2

\* The pool keeps its type.
LEMMA PoolStaysTyped ==
  ASSUME TypeInv, RefInv, Next
  PROVE  pool' \in [Backend -> BackendState]
<1>1. CASE UNCHANGED <<pool>>
  BY <1>1, PoolTyped
<1>2. ASSUME Acquire PROVE pool' \in [Backend -> BackendState]
  BY <1>2, PoolTyped, PoolOperators DEF Acquire, listenVars, adminVars, linkVars
<1>3. ASSUME NEW t \in Thread, Uncount(t) PROVE pool' \in [Backend -> BackendState]
  BY <1>3, PoolTyped, PoolOperators DEF Uncount, listenVars, adminVars, linkVars
<1>4. ASSUME NEW t \in Thread, Failed(t) PROVE pool' \in [Backend -> BackendState]
  BY <1>4, PoolTyped, PoolOperators DEF Failed, gateVars, adminVars, linkVars
<1>5. ASSUME NEW k \in Attempt, Confirm(k) PROVE pool' \in [Backend -> BackendState]
  BY <1>5, PoolTyped, PoolOperators DEF Confirm, gateVars, adminVars, linkVars
<1>6. ASSUME NEW b \in Backend, BackendRests(b) PROVE pool' \in [Backend -> BackendState]
  BY <1>6, PoolTyped, PoolOperators DEF BackendRests, listenVars, gateVars, adminVars, linkVars
<1>7. ASSUME NEW b \in Backend, NEW on \in BOOLEAN, SetBackendEnabled(b, on) PROVE pool' \in [Backend -> BackendState]
  BY <1>7, PoolTyped, PoolOperators DEF SetBackendEnabled, listenVars, gateVars, adminVars, linkVars
<1> QED
  BY <1>1, <1>2, <1>3, <1>4, <1>5, <1>6, <1>7, Writers DEF Written, Writes_pool

\* So do the counters of the gate.
LEMMA CountersStayTyped ==
  ASSUME TypeInv, RefInv, Next
  PROVE  count' \in [IP -> Nat] /\ total' \in Nat
<1>1. CASE UNCHANGED <<count, total>>
  BY <1>1, RestTyped
<1>2. ASSUME Acquire PROVE count' \in [IP -> Nat] /\ total' \in Nat
  <2> DEFINE ip == IpOf[asking]
  <2>1. count' = [count EXCEPT ![ip] = count[ip] + 1] /\ total' = total + 1
    BY <1>2 DEF Acquire, Acquired
  <2> HIDE DEF ip
  <2>2. ip \in IP => count[ip] + 1 \in Nat
    BY RestTyped
  <2>3. count' \in [IP -> Nat]
    BY <2>1, <2>2, RestTyped
  <2> QED
    BY <2>1, <2>3, RestTyped
<1>3. ASSUME NEW t \in Thread, Uncount(t) PROVE count' \in [IP -> Nat] /\ total' \in Nat
  <2> DEFINE ip == IpOf[sess[task[t].s].client]
             n  == IF count[ip] <= 1 THEN 0 ELSE count[ip] - 1
  <2>1. count' = [count EXCEPT ![ip] = n]
    BY <1>3 DEF Uncount, Released
  <2>2. total' = IF total > 0 THEN total - 1 ELSE 0
    BY <1>3 DEF Uncount, ReleasedTotal
  <2>3. count' \in [IP -> Nat]
    <3> HIDE DEF ip
    <3>1. ip \in IP => n \in Nat
      BY RestTyped
    <3> HIDE DEF n
    <3> QED
      BY <2>1, <3>1, RestTyped
  <2>4. total' \in Nat
    BY <2>2, RestTyped
  <2> QED
    BY <2>3, <2>4
<1> QED
  BY <1>1, <1>2, <1>3, Writers DEF Written, Writes_count, Writes_total

\* So does what administrators have ordered.
LEMMA OrdersStayTyped ==
  ASSUME TypeInv, RefInv, Next
  PROVE  /\ redirects' \in [IP -> Backend \cup {NoBackend}] /\ banned' \subseteq IP
         /\ maintenance' \in BOOLEAN /\ stopped' \in BOOLEAN
         /\ listening' \in {"open", "stopping", "ended"} /\ commands' \in 0..MaxCommands
<1>1. CASE UNCHANGED <<listening, redirects, maintenance, stopped, banned, commands>>
  BY <1>1, RestTyped
<1>2. ASSUME TakeRedirect PROVE /\ redirects' \in [IP -> Backend \cup {NoBackend}] /\ banned' \subseteq IP
         /\ maintenance' \in BOOLEAN /\ stopped' \in BOOLEAN
         /\ listening' \in {"open", "stopping", "ended"} /\ commands' \in 0..MaxCommands
  BY <1>2, RestTyped DEF TakeRedirect, listenVars, gateVars, linkVars
<1>3. ASSUME RunStop PROVE /\ redirects' \in [IP -> Backend \cup {NoBackend}] /\ banned' \subseteq IP
         /\ maintenance' \in BOOLEAN /\ stopped' \in BOOLEAN
         /\ listening' \in {"open", "stopping", "ended"} /\ commands' \in 0..MaxCommands
  BY <1>3, RestTyped DEF RunStop, gateVars, adminVars, linkVars
<1>4. ASSUME LoopEnds PROVE /\ redirects' \in [IP -> Backend \cup {NoBackend}] /\ banned' \subseteq IP
         /\ maintenance' \in BOOLEAN /\ stopped' \in BOOLEAN
         /\ listening' \in {"open", "stopping", "ended"} /\ commands' \in 0..MaxCommands
  BY <1>4, RestTyped DEF LoopEnds, gateVars, adminVars, linkVars
<1>5. ASSUME NEW s \in Attempt, Kick(s) PROVE /\ redirects' \in [IP -> Backend \cup {NoBackend}] /\ banned' \subseteq IP
         /\ maintenance' \in BOOLEAN /\ stopped' \in BOOLEAN
         /\ listening' \in {"open", "stopping", "ended"} /\ commands' \in 0..MaxCommands
  BY <1>5, AttemptsBound, RestTyped DEF Kick, ConsoleMay, listenVars, gateVars, adminVars, linkVars
<1>6. ASSUME NEW s \in Attempt, NEW b \in Backend, Move(s, b) PROVE /\ redirects' \in [IP -> Backend \cup {NoBackend}] /\ banned' \subseteq IP
         /\ maintenance' \in BOOLEAN /\ stopped' \in BOOLEAN
         /\ listening' \in {"open", "stopping", "ended"} /\ commands' \in 0..MaxCommands
  <2>1. redirects' = [redirects EXCEPT ![IpOf[sess[s].client]] = b] /\ UNCHANGED <<banned,
                                                                                   maintenance,
                                                                                   stopped,
                                                                                   listening>>
    BY <1>6 DEF Move, listenVars
  <2>2. commands < MaxCommands /\ commands' = commands + 1
    BY <1>6 DEF Move, ConsoleMay
  <2>3. commands' \in 0..MaxCommands
    BY <2>2, AttemptsBound, RestTyped
  <2>4. redirects' \in [IP -> Backend \cup {NoBackend}]
    BY <2>1, RestTyped
  <2> QED
    BY <2>1, <2>3, <2>4, RestTyped
<1>7. ASSUME NEW ip \in IP, Ban(ip) PROVE /\ redirects' \in [IP -> Backend \cup {NoBackend}] /\ banned' \subseteq IP
         /\ maintenance' \in BOOLEAN /\ stopped' \in BOOLEAN
         /\ listening' \in {"open", "stopping", "ended"} /\ commands' \in 0..MaxCommands
  BY <1>7, AttemptsBound, RestTyped DEF Ban, ConsoleMay, listenVars, gateVars, linkVars
<1>8. ASSUME NEW ip \in IP, Unban(ip) PROVE /\ redirects' \in [IP -> Backend \cup {NoBackend}] /\ banned' \subseteq IP
         /\ maintenance' \in BOOLEAN /\ stopped' \in BOOLEAN
         /\ listening' \in {"open", "stopping", "ended"} /\ commands' \in 0..MaxCommands
  BY <1>8, AttemptsBound, RestTyped DEF Unban, ConsoleMay, listenVars, gateVars, linkVars
<1>9. ASSUME NEW b \in Backend, NEW on \in BOOLEAN, SetBackendEnabled(b, on) PROVE /\ redirects' \in [IP -> Backend \cup {NoBackend}] /\ banned' \subseteq IP
         /\ maintenance' \in BOOLEAN /\ stopped' \in BOOLEAN
         /\ listening' \in {"open", "stopping", "ended"} /\ commands' \in 0..MaxCommands
  BY <1>9, AttemptsBound, RestTyped DEF SetBackendEnabled, ConsoleMay, SetEnabled, listenVars,
     gateVars, adminVars, linkVars
<1>10. ASSUME NEW on \in BOOLEAN, SetMaintenance(on) PROVE /\ redirects' \in [IP -> Backend \cup {NoBackend}] /\ banned' \subseteq IP
         /\ maintenance' \in BOOLEAN /\ stopped' \in BOOLEAN
         /\ listening' \in {"open", "stopping", "ended"} /\ commands' \in 0..MaxCommands
  BY <1>10, AttemptsBound, RestTyped DEF SetMaintenance, ConsoleMay, listenVars, gateVars, linkVars
<1>11. ASSUME CloseProxy PROVE /\ redirects' \in [IP -> Backend \cup {NoBackend}] /\ banned' \subseteq IP
         /\ maintenance' \in BOOLEAN /\ stopped' \in BOOLEAN
         /\ listening' \in {"open", "stopping", "ended"} /\ commands' \in 0..MaxCommands
  BY <1>11, RestTyped DEF CloseProxy, listenVars, gateVars, linkVars
<1> QED
  BY <1>1, <1>2, <1>3, <1>4, <1>5, <1>6, <1>7, <1>8, <1>9, <1>10, <1>11, Writers DEF Written,
     Writes_listening, Writes_redirects, Writes_maintenance, Writes_stopped, Writes_banned,
     Writes_commands

\* Goroutines keep theirs.
LEMMA TasksKept ==
  ASSUME TypeInv, RefInv, Next
  PROVE  TaskInv'
<1>1. CASE UNCHANGED <<task>>
  BY <1>1 DEF TypeInv, TaskInv
<1>2. ASSUME NEW c \in Client, ConnectRequest(c) PROVE TaskInv'
  BY <1>2, ConnectRequestMoves
<1>3. ASSUME NEW c \in Client, ClientGone(c) PROVE TaskInv'
  BY <1>3, ClientGoneMoves
<1>4. ASSUME Request PROVE TaskInv'
  BY <1>4, RequestMoves
<1>5. ASSUME Check PROVE TaskInv'
  BY <1>5, CheckMoves
<1>6. ASSUME TakeRedirect PROVE TaskInv'
  BY <1>6, TakeRedirectMoves
<1>7. ASSUME PickBackend PROVE TaskInv'
  BY <1>7, PickBackendMoves
<1>8. ASSUME Register PROVE TaskInv'
  BY <1>8, RegisterMoves
<1>9. ASSUME Acquire PROVE TaskInv'
  BY <1>9, AcquireMoves
<1>10. ASSUME ReuseLink PROVE TaskInv'
  BY <1>10, ReuseLinkMoves
<1>11. ASSUME OpenLink PROVE TaskInv'
  BY <1>11, OpenLinkMoves
<1>12. ASSUME OpenLinkFails PROVE TaskInv'
  BY <1>12, OpenLinkFailsMoves
<1>13. ASSUME Bind PROVE TaskInv'
  BY <1>13, BindMoves
<1>14. ASSUME Attach PROVE TaskInv'
  BY <1>14, AttachMoves
<1>15. ASSUME Dial PROVE TaskInv'
  BY <1>15, DialMoves
<1>16. ASSUME ClientReady PROVE TaskInv'
  BY <1>16, ClientReadyMoves
<1>17. ASSUME RunAccept PROVE TaskInv'
  BY <1>17, RunAcceptMoves
<1>18. ASSUME RunDisconnect PROVE TaskInv'
  BY <1>18, RunDisconnectMoves
<1>19. ASSUME NEW t \in Thread, CloseSession(t) PROVE TaskInv'
  BY <1>19, CloseSessionMoves
<1>20. ASSUME NEW t \in Thread, DropBegin(t) PROVE TaskInv'
  BY <1>20, DropBeginMoves
<1>21. ASSUME NEW t \in Thread, DropWaited(t) PROVE TaskInv'
  BY <1>21, DropWaitedMoves
<1>22. ASSUME NEW t \in Thread, ReleaseLink(t) PROVE TaskInv'
  BY <1>22, ReleaseLinkMoves
<1>23. ASSUME NEW t \in Thread, Forget(t) PROVE TaskInv'
  BY <1>23, ForgetMoves
<1>24. ASSUME NEW t \in Thread, Uncount(t) PROVE TaskInv'
  BY <1>24, UncountMoves
<1>25. ASSUME NEW t \in Thread, Refused(t) PROVE TaskInv'
  BY <1>25, RefusedMoves
<1>26. ASSUME NEW t \in Thread, Failed(t) PROVE TaskInv'
  BY <1>26, FailedMoves
<1>27. ASSUME NEW k \in Attempt, Activate(k) PROVE TaskInv'
  BY <1>27, ActivateMoves
<1>28. ASSUME NEW k \in Attempt, Confirm(k) PROVE TaskInv'
  BY <1>28, ConfirmMoves
<1>29. ASSUME NEW k \in Attempt, RunUpDisconnect(k) PROVE TaskInv'
  BY <1>29, RunUpDisconnectMoves
<1>30. ASSUME NEW k \in Attempt, NEW b \in Backend, BackendAccepts(k, b) PROVE TaskInv'
  BY <1>30, BackendAcceptsMoves
<1>31. ASSUME NEW k \in Attempt, NEW b \in Backend, NEW rejected \in BOOLEAN, DialFails(k, b, rejected) PROVE TaskInv'
  BY <1>31, DialFailsMoves
<1>32. ASSUME NEW k \in Attempt, NEW b \in Backend, BackendGone(k, b) PROVE TaskInv'
  BY <1>32, BackendGoneMoves
<1>33. ASSUME NEW s \in Attempt, TimerFires(s) PROVE TaskInv'
  BY <1>33, TimerFiresMoves
<1>34. ASSUME NEW s \in Attempt, RelayBreaks(s) PROVE TaskInv'
  BY <1>34, RelayBreaksMoves
<1>35. ASSUME NEW s \in Attempt, Kick(s) PROVE TaskInv'
  BY <1>35, KickMoves
<1>36. ASSUME NEW s \in Attempt, NEW b \in Backend, Move(s, b) PROVE TaskInv'
  BY <1>36, MoveMoves
<1>37. ASSUME NEW ip \in IP, Ban(ip) PROVE TaskInv'
  BY <1>37, BanMoves
<1>38. ASSUME CloseProxy PROVE TaskInv'
  BY <1>38, CloseProxyMoves
<1>39. ASSUME StopListening PROVE TaskInv'
  BY <1>39, StopListeningMoves
<1>40. ASSUME StopAllLinks PROVE TaskInv'
  BY <1>40, StopAllLinksMoves
<1>41. ASSUME LinksStopped PROVE TaskInv'
  BY <1>41, LinksStoppedMoves
<1> QED
  BY <1>1, <1>2, <1>3, <1>4, <1>5, <1>6, <1>7, <1>8, <1>9, <1>10, <1>11, <1>12, <1>13, <1>14,
     <1>15, <1>16, <1>17, <1>18, <1>19, <1>20, <1>21, <1>22, <1>23, <1>24, <1>25, <1>26, <1>27,
     <1>28, <1>29, <1>30, <1>31, <1>32, <1>33, <1>34, <1>35, <1>36, <1>37, <1>38, <1>39, <1>40,
     <1>41, Writers DEF Written, Writes_task

\* So does the client asking.
LEMMA AskingStaysTyped ==
  ASSUME TypeInv, RefInv, Next
  PROVE  asking' \in Client \cup {NoClient}
<1>1. CASE UNCHANGED <<asking>>
  BY <1>1, ClientsTyped
<1>2. ASSUME NEW c \in Client, ConnectRequest(c) PROVE asking' \in Client \cup {NoClient}
  BY <1>2, ClientsTyped DEF ConnectRequest, gateVars, adminVars, linkVars
<1>3. ASSUME Request PROVE asking' \in Client \cup {NoClient}
  BY <1>3, ClientsTyped DEF Request, Refuse, gateVars, adminVars, linkVars
<1>4. ASSUME Check PROVE asking' \in Client \cup {NoClient}
  BY <1>4, ClientsTyped DEF Check, Refuse, gateVars, adminVars, linkVars
<1>5. ASSUME PickBackend PROVE asking' \in Client \cup {NoClient}
  BY <1>5, ClientsTyped DEF PickBackend, Refuse, gateVars, adminVars, linkVars
<1>6. ASSUME OpenLinkFails PROVE asking' \in Client \cup {NoClient}
  BY <1>6, ClientsTyped DEF OpenLinkFails, gateVars, adminVars
<1>7. ASSUME Dial PROVE asking' \in Client \cup {NoClient}
  BY <1>7, ClientsTyped DEF Dial, listenVars, gateVars, adminVars
<1> QED
  BY <1>1, <1>2, <1>3, <1>4, <1>5, <1>6, <1>7, Writers DEF Written, Writes_asking

\* A step keeps the first layer, and so does a stutter.
LEMMA TypesKept ==
  ASSUME TypeInv, RefInv, [Next]_vars
  PROVE  TypeInv'
<1>1. CASE Next
  <2>1. QueueInv' /\ TaskInv'
    BY <1>1, QueueKept, TasksKept DEF TypeInv
  <2>2. LoopInv' /\ AttemptInv'
    BY <1>1, LoopKept, AttemptsKept DEF TypeInv
  <2>3. sess' \in [Attempt -> Session] /\ link' \in [Attempt -> LinkState] /\ links' \in [Client -> Maybe]
    BY <1>1, SessionsStayTyped, LinksStayTyped, LinkTableStaysTyped
  <2>4. up' \in [Attempt -> [Backend -> PeerState]] /\ peer' \in [Client -> PeerState]
    BY <1>1, UpstreamPeersStayTyped, PeersStayTyped
  <2>5. /\ req' \in [Client -> Maybe] /\ attempts' \in 0..MaxAttempts
        /\ answer' \in [Attempt -> {"none", "accepted", "rejected"}]
    BY <1>1, RequestsStayTyped, AnswersStayTyped
  <2>6. byAddr' \in [Client -> Maybe] /\ byID' \subseteq Attempt /\ armed' \subseteq Attempt
    BY <1>1, AddressesStayTyped
  <2>7. pool' \in [Backend -> BackendState] /\ count' \in [IP -> Nat] /\ total' \in Nat
    BY <1>1, PoolStaysTyped, CountersStayTyped
  <2>8. /\ redirects' \in [IP -> Backend \cup {NoBackend}] /\ banned' \subseteq IP
        /\ maintenance' \in BOOLEAN /\ stopped' \in BOOLEAN
        /\ listening' \in {"open", "stopping", "ended"} /\ commands' \in 0..MaxCommands
    BY <1>1, OrdersStayTyped
  <2>9. asking' \in Client \cup {NoClient}
    BY <1>1, AskingStaysTyped
  <2>10. lq' \in Seq(Command) /\ uq' \in [Attempt -> Seq(Command)]
    <3>1. Order \subseteq Command
      BY DEF Order
    <3>2. \A q \in Seq(Order) : q \in Seq(Command)
      BY <3>1
    <3> QED
      BY <2>1, <3>2 DEF QueueInv
  <2>11. /\ DOMAIN task' = Thread
         /\ \A t \in Thread : task'[t].s \in Maybe /\ task'[t].k \in Maybe /\ task'[t].todo \subseteq Attempt
    BY <2>1 DEF TaskInv, Task
  <2>12. TypeOK'
    BY <2>3, <2>4, <2>5, <2>6, <2>7, <2>8, <2>9, <2>10, <2>11 DEF TypeOK, Session, LinkState
  <2> QED
    BY <2>1, <2>2, <2>12 DEF TypeInv
<1>2. CASE UNCHANGED vars
  <2>1. TypeOK'
    BY <1>2 DEF TypeInv, TypeOK, vars
  <2>2. TaskInv' /\ QueueInv'
    BY <1>2 DEF TypeInv, TaskInv, QueueInv, vars
  <2>3. LoopInv' /\ AttemptInv'
    BY <1>2 DEF TypeInv, LoopInv, AttemptInv, Registered, vars
  <2> QED
    BY <2>1, <2>2, <2>3 DEF TypeInv
<1> QED
  BY <1>1, <1>2

-----------------------------------------------------------------------------
(* The second layer is preserved.                                          *)

\* Attempts and sessions are there to stay.
Later ==
  /\ attempts' \in Nat /\ attempts <= attempts'
  /\ \A s \in Attempt : Registered(s) => sess'[s].st # "none"

\* What has been attempted and registered stays so.
LEMMA NothingForgotten ==
  ASSUME TypeInv, RefInv, Next
  PROVE  Later
<1>1. CASE UNCHANGED <<attempts, sess>>
  BY <1>1, AttemptsTyped DEF Later, Registered
<1>2. ASSUME Request PROVE Later
  <2>1. attempts' = attempts + 1 /\ sess' = [sess EXCEPT ![attempts + 1].client = asking]
    BY <1>2 DEF Request
  <2>2. \A s \in Attempt : sess'[s].st = sess[s].st
    BY <2>1, SessionsTyped DEF Session
  <2> QED
    BY <2>1, <2>2, AttemptsTyped DEF Later, Registered
<1>3. ASSUME Register PROVE Later
  <2>1. attempts' = attempts
    BY <1>3 DEF Register, listenVars
  <2>2. \A s \in Attempt : sess'[s].st \in {sess[s].st, "pending"}
    BY <1>3, SessionsTyped DEF Register, Session
  <2> QED
    BY <2>1, <2>2, AttemptsTyped DEF Later, Registered
<1>4. ASSUME TakeRedirect \/ PickBackend PROVE Later
  BY <1>4, ChoosesTarget, AttemptsTyped DEF TargetChosen, Later, Registered
<1>5. ASSUME Attach PROVE Later
  <2>1. NamesKept
    BY <1>5, NamesAreKept
  <2> QED
    BY <2>1, AttemptsTyped DEF NamesKept, Registered, Later
<1>6. ASSUME ClientReady PROVE Later
  <2>1. NamesKept
    BY <1>6, NamesAreKept
  <2> QED
    BY <2>1, AttemptsTyped DEF NamesKept, Registered, Later
<1>7. ASSUME NEW t \in Thread, DropBegin(t) PROVE Later
  <2>1. NamesKept
    BY <1>7, NamesAreKept
  <2> QED
    BY <2>1, AttemptsTyped DEF NamesKept, Registered, Later
<1>8. ASSUME NEW t \in Thread, Uncount(t) PROVE Later
  <2>1. NamesKept
    BY <1>8, NamesAreKept
  <2> QED
    BY <2>1, AttemptsTyped DEF NamesKept, Registered, Later
<1>9. ASSUME NEW k \in Attempt, Activate(k) PROVE Later
  <2>1. NamesKept
    BY <1>9, NamesAreKept
  <2> QED
    BY <2>1, AttemptsTyped DEF NamesKept, Registered, Later
<1>10. ASSUME NEW k \in Attempt, NEW b \in Backend, BackendAccepts(k, b) PROVE Later
  <2>1. NamesKept
    BY <1>10, NamesAreKept
  <2> QED
    BY <2>1, AttemptsTyped DEF NamesKept, Registered, Later
<1> QED
  BY <1>1, <1>2, <1>3, <1>4, <1>5, <1>6, <1>7, <1>8, <1>9, <1>10, Writers DEF Written,
     Writes_attempts, Writes_sess

\* Where Loop has just registered a session.
LEMMA RegisterRegisters ==
  ASSUME TypeInv, RefInv, Register
  PROVE  /\ task[Loop].s = attempts /\ attempts \in Attempt
         /\ sess'[attempts].st = "pending"
         /\ byAddr' = [byAddr EXCEPT ![asking] = attempts]
         /\ byID' = byID \cup {attempts}
<1>1. task[Loop].s = attempts /\ attempts \in Attempt
  BY AttemptsTyped DEF Register, At, TypeInv, LoopInv, Deciding, Unseen, Seen
<1> QED
  BY <1>1, SessionsTyped DEF Register, Session

\* A goroutine that takes up nothing new, or something registered, refers
\* to registered sessions as it did.
LEMMA MovesRefer ==
  ASSUME TypeInv, RefInv, Later, NEW t \in Thread, NEW pc, NEW s, NEW k, NEW todo,
         Moves(t, pc, s, k, todo),
         s # Nobody /\ ~(t = Loop /\ pc \in Unseen) => s \in Attempt /\ sess'[s].st # "none",
         ~(t = Closer /\ pc = "drain") => \A r \in todo : r \in Attempt /\ Registered(r)
  PROVE  TasksRefer'
<1>1. \A u \in Thread : task[u].s \in Maybe /\ task[u].todo \in SUBSET Attempt
  BY TasksTyped
<1>2. ASSUME NEW u \in Thread, u # t
      PROVE  /\ task'[u].s # Nobody /\ ~(u = Loop /\ task'[u].pc \in Unseen) => sess'[task'[u].s].st # "none"
             /\ ~(u = Closer /\ task'[u].pc = "drain") => \A r \in task'[u].todo : sess'[r].st # "none"
  <2>1. task'[u] = task[u]
    BY <1>2 DEF Moves
  <2>2. task[u].s # Nobody => task[u].s \in Attempt
    BY <1>1 DEF Maybe
  <2> QED
    BY <1>1, <2>1, <2>2 DEF RefInv, TasksRefer, Registered, Later
<1>3. /\ task'[t].s # Nobody /\ ~(t = Loop /\ task'[t].pc \in Unseen) => sess'[task'[t].s].st # "none"
      /\ ~(t = Closer /\ task'[t].pc = "drain") => \A r \in task'[t].todo : sess'[r].st # "none"
  BY DEF Moves, Registered, Later
<1> QED
  BY <1>2, <1>3 DEF TasksRefer, Registered

\* It goes on with what it has in hand.
LEMMA GoesOn ==
  ASSUME TypeInv, RefInv, Later, NEW t \in Thread, NEW pc, NEW k, t # Closer \/ task[t].pc # "drain",
         ~(t = Loop /\ task[t].pc \in Unseen) \/ pc \in Unseen,
         Moves(t, pc, task[t].s, k, task[t].todo)
  PROVE  TasksRefer'
<1>1. task[t].s \in Maybe /\ task[t].todo \in SUBSET Attempt
  BY TasksTyped
<1>2. task[t].s # Nobody /\ ~(t = Loop /\ pc \in Unseen) => task[t].s \in Attempt /\ sess'[task[t].s].st # "none"
  BY <1>1 DEF RefInv, TasksRefer, Registered, Later, Maybe
<1>3. \A r \in task[t].todo : r \in Attempt /\ Registered(r)
  BY <1>1 DEF RefInv, TasksRefer
<1> QED
  BY <1>2, <1>3, MovesRefer

\* It takes up a registered session.
LEMMA TakesUp ==
  ASSUME TypeInv, RefInv, Later, NEW t \in Thread, NEW pc, NEW s \in Attempt, NEW k, t # Closer \/ task[t].pc # "drain",
         Registered(s) \/ (t = Loop /\ pc \in Unseen), Moves(t, pc, s, k, task[t].todo)
  PROVE  TasksRefer'
<1>1. \A r \in task[t].todo : r \in Attempt /\ Registered(r)
  BY TasksTyped DEF RefInv, TasksRefer
<1>2. ~(t = Loop /\ pc \in Unseen) => sess'[s].st # "none"
  BY DEF Later
<1> QED
  BY <1>1, <1>2, MovesRefer

\* It takes up one of several and notes the others.
LEMMA TakesUpAll ==
  ASSUME TypeInv, RefInv, Later, NEW t \in Thread, NEW S \in SUBSET Attempt, \A r \in S : Registered(r),
         NEW s \in S, Moves(t, "close", s, Nobody, S \ {s})
  PROVE  TasksRefer'
<1>1. s \in Attempt /\ sess'[s].st # "none"
  BY DEF Later
<1>2. \A r \in S \ {s} : r \in Attempt /\ Registered(r)
  OBVIOUS
<1> QED
  BY <1>1, <1>2, MovesRefer

\* It comes to rest.
LEMMA ComesToRest ==
  ASSUME TypeInv, RefInv, Later, NEW t \in Thread, NEW pc, Moves(t, pc, Nobody, Nobody, {})
  PROVE  TasksRefer'
  BY MovesRefer

\* It goes on with the next of those it has noted, or comes to rest.
LEMMA GoesBack ==
  ASSUME TypeInv, RefInv, Later, NEW t \in Thread, t # Closer \/ task[t].pc # "drain", Returns(t)
  PROVE  TasksRefer'
<1>1. \A r \in task[t].todo : r \in Attempt /\ Registered(r)
  BY TasksTyped DEF RefInv, TasksRefer
<1>2. CASE \E s \in task[t].todo : Moves(t, "close", s, Nobody, task[t].todo \ {s})
  <2>1. PICK s \in task[t].todo : Moves(t, "close", s, Nobody, task[t].todo \ {s})
    BY <1>2
  <2>2. task[t].todo \in SUBSET Attempt
    BY TasksTyped
  <2> QED
    BY <1>1, <2>1, <2>2, TakesUpAll
<1>3. CASE \E pc : Moves(t, pc, Nobody, Nobody, {})
  BY <1>3, ComesToRest
<1> QED
  BY <1>2, <1>3 DEF Returns

\* Goroutines that stay where they are still refer to what is registered.
LEMMA TasksStay ==
  ASSUME TypeInv, RefInv, Later, UNCHANGED task
  PROVE  TasksRefer'
<1>1. \A t \in Thread : task[t].s \in Maybe /\ task[t].todo \in SUBSET Attempt
  BY TasksTyped
<1> QED
  BY <1>1 DEF RefInv, TasksRefer, Registered, Later, Maybe

\* What goroutines refer to is registered.
LEMMA TasksStillRefer ==
  ASSUME TypeInv, RefInv, Later, Next
  PROVE  TasksRefer'
<1>1. CASE UNCHANGED <<task>>
  BY <1>1, TasksStay
<1>2. ASSUME NEW c \in Client, ConnectRequest(c) PROVE TasksRefer'
  <2>1. \A d \in Client : byAddr[d] # Nobody => byAddr[d] \in Attempt /\ Registered(byAddr[d])
    BY NamedAttempts DEF RefInv, TablesRefer
  <2>2. task[Loop].pc = "idle"
    BY <1>2 DEF ConnectRequest, LoopFree, At
  <2>3. CASE Moves(Loop, "request", task[Loop].s, task[Loop].k, task[Loop].todo)
    BY <2>2, <2>3, GoesOn, Threads DEF Unseen
  <2>4. CASE ~Moves(Loop, "request", task[Loop].s, task[Loop].k, task[Loop].todo)
    BY <1>2, <2>1, <2>2, <2>4, ConnectRequestMoves, TakesUp, Threads
  <2> QED
    BY <2>3, <2>4
<1>3. ASSUME NEW c \in Client, ClientGone(c) PROVE TasksRefer'
  <2>1. \A d \in Client : byAddr[d] # Nobody => byAddr[d] \in Attempt /\ Registered(byAddr[d])
    BY NamedAttempts DEF RefInv, TablesRefer
  <2>2. task[Loop].pc = "idle"
    BY <1>3 DEF ClientGone, LoopFree, At
  <2>3. CASE UNCHANGED task
    BY <2>3, TasksStay
  <2>4. CASE ~UNCHANGED task
    BY <1>3, <2>1, <2>2, <2>4, ClientGoneMoves, TakesUp, Threads
  <2> QED
    BY <2>3, <2>4
<1>4. ASSUME Request PROVE TasksRefer'
  <2>1. CASE Moves(Loop, "idle", Nobody, Nobody, {})
    BY <2>1, ComesToRest, Threads
  <2>2. CASE Moves(Loop, "check", attempts + 1, task[Loop].k, task[Loop].todo)
    <3>1. attempts + 1 \in Attempt /\ task[Loop].pc = "request"
      BY <1>4, AttemptsTyped DEF Request, At, TypeInv, LoopInv, Deciding, Unseen, Seen
    <3> QED
      BY <2>2, <3>1, TakesUp, Threads DEF Unseen
  <2> QED
    BY <1>4, <2>1, <2>2, RequestMoves
<1>5. ASSUME Check PROVE TasksRefer'
  <2>1. CASE Moves(Loop, "idle", Nobody, Nobody, {})
    BY <2>1, ComesToRest, Threads
  <2>2. CASE Moves(Loop, "redirect", task[Loop].s, task[Loop].k, task[Loop].todo)
    BY <1>5, <2>2, GoesOn, Threads DEF Check, At, Unseen
  <2> QED
    BY <1>5, <2>1, <2>2, CheckMoves
<1>6. ASSUME TakeRedirect PROVE TasksRefer'
  BY <1>6, TakeRedirectMoves, GoesOn, Threads DEF TakeRedirect, At, Unseen
<1>7. ASSUME PickBackend PROVE TasksRefer'
  <2>1. CASE Moves(Loop, "idle", Nobody, Nobody, {})
    BY <2>1, ComesToRest, Threads
  <2>2. CASE Moves(Loop, "register", task[Loop].s, task[Loop].k, task[Loop].todo)
    BY <1>7, <2>2, GoesOn, Threads DEF PickBackend, At, Unseen
  <2> QED
    BY <1>7, <2>1, <2>2, PickBackendMoves
<1>8. ASSUME Register PROVE TasksRefer'
  <2>1. Moves(Loop, "acquire", task[Loop].s, task[Loop].k, task[Loop].todo)
    BY <1>8, RegisterMoves
  <2>2. task[Loop].s \in Attempt /\ sess'[task[Loop].s].st # "none"
    BY <1>8, RegisterRegisters
  <2>3. task[Loop].pc = "register" /\ \A r \in task[Loop].todo : r \in Attempt /\ Registered(r)
    BY <1>8, TasksTyped, Threads DEF Register, At, RefInv, TasksRefer
  <2> QED
    BY <2>1, <2>2, <2>3, MovesRefer, Threads
<1>9. ASSUME Acquire PROVE TasksRefer'
  BY <1>9, AcquireMoves, GoesOn, Threads DEF Acquire, At, Unseen
<1>10. ASSUME ReuseLink PROVE TasksRefer'
  BY <1>10, ReuseLinkMoves, GoesOn, Threads DEF ReuseLink, At, Unseen
<1>11. ASSUME OpenLink PROVE TasksRefer'
  BY <1>11, OpenLinkMoves, GoesOn, Threads DEF OpenLink, At, Unseen
<1>12. ASSUME OpenLinkFails PROVE TasksRefer'
  BY <1>12, OpenLinkFailsMoves, GoesOn, Threads DEF OpenLinkFails, At, Unseen
<1>13. ASSUME Bind PROVE TasksRefer'
  BY <1>13, BindMoves, GoesOn, Threads DEF Bind, At, Unseen
<1>14. ASSUME Attach PROVE TasksRefer'
  BY <1>14, AttachMoves, GoesOn, Threads DEF Attach, At, Unseen
<1>15. ASSUME Dial PROVE TasksRefer'
  BY <1>15, DialMoves, ComesToRest, Threads
<1>16. ASSUME ClientReady PROVE TasksRefer'
  BY <1>16, ClientReadyMoves, ComesToRest, Threads
<1>17. ASSUME RunAccept PROVE TasksRefer'
  <2>1. \A c \in Client : byAddr[c] # Nobody => byAddr[c] \in Attempt /\ Registered(byAddr[c])
    BY NamedAttempts DEF RefInv, TablesRefer
  <2>2. task[Loop].pc = "idle" /\ sess[Head(lq).s].client \in Client
    <3>1. task[Loop].pc = "idle" /\ Head(lq).s \in Attempt /\ Head(lq).s <= attempts
      BY <1>17, HeadOfQueue DEF RunAccept, HeadIs, LoopFree, At
    <3> QED
      BY <3>1, ClientOfAttempt
  <2>3. CASE UNCHANGED task
    BY <2>3, TasksStay
  <2>4. CASE ~UNCHANGED task
    BY <1>17, <2>1, <2>2, <2>4, RunAcceptMoves, TakesUp, Threads
  <2> QED
    BY <2>3, <2>4
<1>18. ASSUME RunDisconnect PROVE TasksRefer'
  <2>1. \A c \in Client : byAddr[c] # Nobody => byAddr[c] \in Attempt /\ Registered(byAddr[c])
    BY NamedAttempts DEF RefInv, TablesRefer
  <2>2. task[Loop].pc = "idle" /\ sess[Head(lq).s].client \in Client
    <3>1. task[Loop].pc = "idle" /\ Head(lq).s \in Attempt /\ Head(lq).s <= attempts
      BY <1>18, HeadOfQueue DEF RunDisconnect, HeadIs, LoopFree, At
    <3> QED
      BY <3>1, ClientOfAttempt
  <2>3. CASE UNCHANGED task
    BY <2>3, TasksStay
  <2>4. CASE ~UNCHANGED task
    BY <1>18, <2>1, <2>2, <2>4, RunDisconnectMoves, TakesUp, Threads
  <2> QED
    BY <2>3, <2>4
<1>19. ASSUME NEW t \in Thread, CloseSession(t) PROVE TasksRefer'
  <2>1. (t # Closer \/ task[t].pc # "drain") /\ ~(t = Loop /\ task[t].pc \in Unseen)
    BY <1>19 DEF CloseSession, At, Unseen
  <2>2. CASE Returns(t)
    BY <2>1, <2>2, GoesBack
  <2>3. CASE ~Returns(t)
    BY <1>19, <2>1, <2>3, CloseSessionMoves, GoesOn
  <2> QED
    BY <2>2, <2>3
<1>20. ASSUME NEW t \in Thread, DropBegin(t) PROVE TasksRefer'
  BY <1>20, DropBeginMoves, GoesOn, Threads DEF DropBegin, At, Unseen
<1>21. ASSUME NEW t \in Thread, DropWaited(t) PROVE TasksRefer'
  BY <1>21, DropWaitedMoves, GoesBack DEF DropWaited, At
<1>22. ASSUME NEW t \in Thread, ReleaseLink(t) PROVE TasksRefer'
  BY <1>22, ReleaseLinkMoves, GoesOn, Threads DEF ReleaseLink, At, Unseen
<1>23. ASSUME NEW t \in Thread, Forget(t) PROVE TasksRefer'
  BY <1>23, ForgetMoves, GoesOn, Threads DEF Forget, At, Unseen
<1>24. ASSUME NEW t \in Thread, Uncount(t) PROVE TasksRefer'
  BY <1>24, UncountMoves, GoesBack DEF Uncount, At
<1>25. ASSUME NEW t \in Thread, Refused(t) PROVE TasksRefer'
  BY <1>25, RefusedMoves, GoesOn, Threads DEF Refused, At, Unseen
<1>26. ASSUME NEW t \in Thread, Failed(t) PROVE TasksRefer'
  BY <1>26, FailedMoves, GoesOn, Threads DEF Failed, At, Unseen
<1>27. ASSUME NEW k \in Attempt, Activate(k) PROVE TasksRefer'
  BY <1>27, ActivateMoves, GoesOn, Threads DEF Activate, At, Unseen
<1>28. ASSUME NEW k \in Attempt, Confirm(k) PROVE TasksRefer'
  BY <1>28, ConfirmMoves, ComesToRest, Threads
<1>29. ASSUME NEW k \in Attempt, RunUpDisconnect(k) PROVE TasksRefer'
  <2>1. link[k].s # Nobody => link[k].s \in Attempt /\ Registered(link[k].s)
    BY NamedAttempts DEF RefInv, LinksRefer
  <2>2. task[Up(k)].pc = "idle"
    BY <1>29 DEF RunUpDisconnect, UpFree, At
  <2>3. CASE UNCHANGED task
    BY <2>3, TasksStay
  <2>4. CASE ~UNCHANGED task
    BY <1>29, <2>1, <2>2, <2>4, RunUpDisconnectMoves, TakesUp, Threads
  <2> QED
    BY <2>3, <2>4
<1>30. ASSUME NEW k \in Attempt, NEW b \in Backend, BackendAccepts(k, b) PROVE TasksRefer'
  <2>1. link[k].s # Nobody => link[k].s \in Attempt /\ Registered(link[k].s)
    BY NamedAttempts DEF RefInv, LinksRefer
  <2>2. task[Up(k)].pc = "idle"
    BY <1>30 DEF BackendAccepts, UpFree, At
  <2>3. CASE UNCHANGED task
    BY <2>3, TasksStay
  <2>4. CASE ~UNCHANGED task
    BY <1>30, <2>1, <2>2, <2>4, BackendAcceptsMoves, TakesUp, Threads
  <2> QED
    BY <2>3, <2>4
<1>31. ASSUME NEW k \in Attempt, NEW b \in Backend, NEW rejected \in BOOLEAN, DialFails(k, b, rejected) PROVE TasksRefer'
  <2>1. link[k].s # Nobody => link[k].s \in Attempt /\ Registered(link[k].s)
    BY NamedAttempts DEF RefInv, LinksRefer
  <2>2. task[Up(k)].pc = "idle"
    BY <1>31 DEF DialFails, UpFree, At
  <2>3. CASE UNCHANGED task
    BY <2>3, TasksStay
  <2>4. CASE ~UNCHANGED task
    BY <1>31, <2>1, <2>2, <2>4, DialFailsMoves, TakesUp, Threads
  <2> QED
    BY <2>3, <2>4
<1>32. ASSUME NEW k \in Attempt, NEW b \in Backend, BackendGone(k, b) PROVE TasksRefer'
  <2>1. link[k].s # Nobody => link[k].s \in Attempt /\ Registered(link[k].s)
    BY NamedAttempts DEF RefInv, LinksRefer
  <2>2. task[Up(k)].pc = "idle"
    BY <1>32 DEF BackendGone, UpFree, At
  <2>3. CASE UNCHANGED task
    BY <2>3, TasksStay
  <2>4. CASE ~UNCHANGED task
    BY <1>32, <2>1, <2>2, <2>4, BackendGoneMoves, TakesUp, Threads
  <2> QED
    BY <2>3, <2>4
<1>33. ASSUME NEW s \in Attempt, TimerFires(s) PROVE TasksRefer'
  <2>1. Registered(s)
    BY <1>33 DEF TimerFires, RefInv, TablesRefer
  <2> QED
    BY <1>33, <2>1, TimerFiresMoves, TakesUp, Threads
<1>34. ASSUME NEW s \in Attempt, RelayBreaks(s) PROVE TasksRefer'
  <2>1. Registered(s) /\ task[Relay].pc = "idle"
    BY <1>34 DEF RelayBreaks, Live, At, RefInv, TablesRefer, Registered
  <2> QED
    BY <1>34, <2>1, RelayBreaksMoves, TakesUp, Threads
<1>35. ASSUME NEW s \in Attempt, Kick(s) PROVE TasksRefer'
  <2>1. Registered(s) /\ task[Console].pc = "idle"
    BY <1>35 DEF Kick, ConsoleMay, At, RefInv, TablesRefer, Registered
  <2> QED
    BY <1>35, <2>1, KickMoves, TakesUp, Threads
<1>36. ASSUME NEW s \in Attempt, NEW b \in Backend, Move(s, b) PROVE TasksRefer'
  <2>1. Registered(s) /\ task[Console].pc = "idle"
    BY <1>36 DEF Move, ConsoleMay, At, RefInv, TablesRefer, Registered
  <2> QED
    BY <1>36, <2>1, MoveMoves, TakesUp, Threads
<1>37. ASSUME NEW ip \in IP, Ban(ip) PROVE TasksRefer'
  <2> DEFINE S == Listed({c \in Client : IpOf[c] = ip})
  <2>1. S \in SUBSET Attempt /\ (\A s \in S : Registered(s)) /\ task[Console].pc = "idle"
    BY <1>37, NamedAttempts DEF Ban, ConsoleMay, At, RefInv, TablesRefer, Listed
  <2>2. CASE \E s \in S : Moves(Console, "close", s, Nobody, S \ {s})
    BY <2>1, <2>2, TakesUpAll, Threads
  <2>3. CASE Moves(Console, "idle", task[Console].s, task[Console].k, task[Console].todo)
    BY <2>1, <2>3, GoesOn, Threads DEF Unseen
  <2> QED
    BY <1>37, <2>2, <2>3, BanMoves
<1>38. ASSUME CloseProxy PROVE TasksRefer'
  <2> DEFINE S == Listed(Client)
  <2>1. S \in SUBSET Attempt /\ (\A s \in S : Registered(s)) /\ task[Closer].pc = "idle"
    BY <1>38, NamedAttempts DEF CloseProxy, ConsoleMay, At, RefInv, TablesRefer, Listed
  <2>2. CASE \E s \in S : Moves(Closer, "close", s, Nobody, S \ {s})
    BY <2>1, <2>2, TakesUpAll, Threads
  <2>3. CASE Moves(Closer, "stop", task[Closer].s, task[Closer].k, task[Closer].todo)
    BY <2>1, <2>3, GoesOn, Threads DEF Unseen
  <2> QED
    BY <1>38, <2>2, <2>3, CloseProxyMoves
<1>39. ASSUME StopListening PROVE TasksRefer'
  BY <1>39, StopListeningMoves, GoesOn, Threads DEF StopListening, At, Unseen
<1>40. ASSUME StopAllLinks PROVE TasksRefer'
  <2>1. PICK ks \in SUBSET Attempt : Moves(Closer, "drain", Nobody, Nobody, ks)
    BY <1>40, StopAllLinksMoves
  <2> QED
    BY <2>1, MovesRefer, Threads
<1>41. ASSUME LinksStopped PROVE TasksRefer'
  BY <1>41, LinksStoppedMoves, ComesToRest, Threads
<1> QED
  BY <1>1, <1>2, <1>3, <1>4, <1>5, <1>6, <1>7, <1>8, <1>9, <1>10, <1>11, <1>12, <1>13, <1>14,
     <1>15, <1>16, <1>17, <1>18, <1>19, <1>20, <1>21, <1>22, <1>23, <1>24, <1>25, <1>26, <1>27,
     <1>28, <1>29, <1>30, <1>31, <1>32, <1>33, <1>34, <1>35, <1>36, <1>37, <1>38, <1>39, <1>40,
     <1>41, Writers DEF Written, Writes_task

\* What has been registered has been an attempt.
LEMMA RegisteredAttempted ==
  ASSUME TypeInv, NEW s \in Attempt, Registered(s)
  PROVE  s <= attempts
  BY AttemptsTyped DEF TypeInv, AttemptInv, Registered, NewSession

\* So is what is in the tables and what timers wait for.
LEMMA TablesStillRefer ==
  ASSUME TypeInv, RefInv, Later, Next
  PROVE  TablesRefer'
<1>1. CASE UNCHANGED <<byAddr, byID, armed>>
  BY <1>1, NamedAttempts DEF RefInv, TablesRefer, Later, Registered
<1>2. ASSUME Register PROVE TablesRefer'
  <2>1. \/ UNCHANGED <<byAddr, byID>>
        \/ /\ attempts \in Attempt /\ sess'[attempts].st # "none"
           /\ byAddr' = [byAddr EXCEPT ![asking] = attempts] /\ byID' = byID \cup {attempts}
    BY <1>2, RegisterRegisters
  <2>2. armed' = armed
    BY <1>2 DEF Register
  <2> QED
    BY <2>1, <2>2, NamedAttempts, ClientsTyped DEF RefInv, TablesRefer, Later, Registered
<1>3. ASSUME Dial PROVE TablesRefer'
  <2>1. task[Loop].s \in Attempt /\ Registered(task[Loop].s)
    BY <1>3, InHandRegistered, Threads DEF Dial, At, Resting, Unseen
  <2>2. armed' = armed \cup {task[Loop].s} /\ UNCHANGED <<byAddr, byID>>
    BY <1>3 DEF Dial
  <2> QED
    BY <2>1, <2>2, NamedAttempts DEF RefInv, TablesRefer, Later, Registered
<1>4. ASSUME NEW t \in Thread, Forget(t) PROVE TablesRefer'
  <2>1. armed' = armed /\ byID' \subseteq byID /\ \A c \in Client : byAddr'[c] \in {Nobody, byAddr[c]}
    BY <1>4, ClientsTyped DEF Forget
  <2> QED
    BY <2>1, NamedAttempts DEF RefInv, TablesRefer, Later, Registered
<1>5. ASSUME NEW s \in Attempt, TimerFires(s) PROVE TablesRefer'
  BY <1>5, NamedAttempts DEF TimerFires, listenVars, gateVars, adminVars, linkVars, RefInv,
     TablesRefer, Later, Registered
<1> QED
  BY <1>1, <1>2, <1>3, <1>4, <1>5, Writers DEF Written, Writes_byAddr, Writes_byID, Writes_armed

\* So is what links are bound to.
LEMMA LinksStillRefer ==
  ASSUME TypeInv, RefInv, Later, Next
  PROVE  LinksRefer'
<1>1. CASE UNCHANGED <<link>>
  BY <1>1, NamedAttempts DEF RefInv, LinksRefer, Later, Registered
<1>2. ASSUME OpenLink PROVE LinksRefer'
  <2> DEFINE G == GivenUp({links[asking]})
  <2>0. task[Loop].s \in Attempt
    BY <1>2, AtWork, Threads DEF OpenLink, At, TypeInv, Resting
  <2>2. link' = [G EXCEPT ![task[Loop].s].mgr = "open"]
    BY <1>2 DEF OpenLink
  <2>3. G \in [Attempt -> LinkState] /\ \A k \in Attempt : G[k].s = link[k].s
    BY GivenUpTyped
  <2> HIDE DEF G
  <2>1. \A k \in Attempt : link'[k].s = link[k].s
    BY <2>0, <2>2, <2>3 DEF LinkState
  <2> QED
    BY <2>1, NamedAttempts DEF RefInv, LinksRefer, Later, Registered
<1>3. ASSUME OpenLinkFails PROVE LinksRefer'
  <2>1. \A k \in Attempt : link'[k].s = link[k].s
    BY <1>3, GivenUpTyped DEF OpenLinkFails
  <2> QED
    BY <2>1, NamedAttempts DEF RefInv, LinksRefer, Later, Registered
<1>4. ASSUME Bind PROVE LinksRefer'
  <2>1. task[Loop].s \in Attempt /\ Registered(task[Loop].s)
    BY <1>4, InHandRegistered, Threads DEF Bind, At, Resting, Unseen
  <2>2. \A k \in Attempt : link'[k].s \in {task[Loop].s, link[k].s}
    BY <1>4, LinksTyped DEF Bind, LinkState
  <2> QED
    BY <2>1, <2>2, NamedAttempts DEF RefInv, LinksRefer, Later, Registered
<1>5. ASSUME NEW t \in Thread, ReleaseLink(t) PROVE LinksRefer'
  <2>1. \A k \in Attempt : link'[k].s \in {Nobody, link[k].s}
    BY <1>5, LinksTyped DEF ReleaseLink, LinkState
  <2> QED
    BY <2>1, NamedAttempts DEF RefInv, LinksRefer, Later, Registered
<1>6. ASSUME NEW k \in Attempt, PostStop(k) PROVE LinksRefer'
  <2>1. \A j \in Attempt : link'[j].s = link[j].s
    BY <1>6, LinksTyped DEF PostStop, GivenUp, LinkState
  <2> QED
    BY <2>1, NamedAttempts DEF RefInv, LinksRefer, Later, Registered
<1>7. ASSUME NEW k \in Attempt, RunUpStop(k) PROVE LinksRefer'
  <2>1. \A j \in Attempt : link'[j].s = link[j].s
    BY <1>7, LinksTyped DEF RunUpStop, GivenUp, LinkState
  <2> QED
    BY <2>1, NamedAttempts DEF RefInv, LinksRefer, Later, Registered
<1>8. ASSUME NEW k \in Attempt, UpEnds(k) PROVE LinksRefer'
  <2>1. \A j \in Attempt : link'[j].s = link[j].s
    BY <1>8, LinksTyped DEF UpEnds, GivenUp, LinkState
  <2> QED
    BY <2>1, NamedAttempts DEF RefInv, LinksRefer, Later, Registered
<1>9. ASSUME NEW k \in Attempt, LeaseExpires(k) PROVE LinksRefer'
  <2>1. \A j \in Attempt : link'[j].s = link[j].s
    BY <1>9, LinksTyped DEF LeaseExpires, GivenUp, LinkState
  <2> QED
    BY <2>1, NamedAttempts DEF RefInv, LinksRefer, Later, Registered
<1>10. ASSUME NEW c \in Client, SweepLink(c) PROVE LinksRefer'
  <2>1. \A k \in Attempt : link'[k].s = link[k].s
    BY <1>10, GivenUpTyped DEF SweepLink
  <2> QED
    BY <2>1, NamedAttempts DEF RefInv, LinksRefer, Later, Registered
<1>11. ASSUME StopAllLinks PROVE LinksRefer'
  <2>1. \A k \in Attempt : link'[k].s = link[k].s
    BY <1>11, GivenUpTyped DEF StopAllLinks
  <2> QED
    BY <2>1, NamedAttempts DEF RefInv, LinksRefer, Later, Registered
<1> QED
  BY <1>1, <1>2, <1>3, <1>4, <1>5, <1>6, <1>7, <1>8, <1>9, <1>10, <1>11, Writers DEF Written,
     Writes_link

\* So does a queue that gets no longer.
LEMMA QueueStays ==
  ASSUME TypeInv, RefInv, Later, Orders(lq') \subseteq Orders(lq)
  PROVE  QueueRefers'
<1>1. \A cmd \in Orders(lq) : cmd.s \in Maybe /\ (cmd.what # "stop" => cmd.s # Nobody)
  BY DEF TypeInv, QueueInv, Orders, Order, Command
<1> QED
  BY <1>1, AttemptsTyped DEF RefInv, QueueRefers, Later, Registered

\* One command more, to an attempt there has been, and to accept only what
\* is registered.
LEMMA QueueGrows ==
  ASSUME TypeInv, RefInv, Later, NEW cmd, Orders(lq') \subseteq Orders(lq) \cup {cmd},
         cmd.s \in Maybe, cmd.s <= attempts', cmd.what = "accept" => cmd.s \in Attempt /\ Registered(cmd.s)
  PROVE  QueueRefers'
<1>1. \A c \in Orders(lq) : c.s \in Maybe /\ (c.what # "stop" => c.s # Nobody)
  BY DEF TypeInv, QueueInv, Orders, Order, Command
<1> QED
  BY <1>1, AttemptsTyped DEF RefInv, QueueRefers, Later, Registered

\* The same for what PostLoop posts.
LEMMA PostedRefers ==
  ASSUME TypeInv, RefInv, Later, NEW what \in {"reject", "accept", "disconnect"}, NEW s \in Attempt,
         Posts({Cmd(what, s)}), s <= attempts', what = "accept" => Registered(s)
  PROVE  QueueRefers'
<1> DEFINE cmd == Cmd(what, s)
<1>1. cmd.s = s /\ cmd.what = what
  BY CommandsAreOrders
<1>2. Orders(lq') \subseteq Orders(lq) \cup {cmd}
  BY DEF Posts
<1> HIDE DEF cmd
<1> QED
  BY <1>1, <1>2, QueueGrows DEF Maybe

\* So is what Loop is told.
LEMMA QueueStillRefers ==
  ASSUME TypeInv, RefInv, Later, Next
  PROVE  QueueRefers'
<1>1. CASE UNCHANGED <<lq>>
  BY <1>1, QueueStays
<1>2. ASSUME NEW c \in Client, ClientTalks(c) PROVE QueueRefers'
  <2>1. peer[c].id \in Attempt /\ peer[c].id <= attempts
    BY <1>2, ClientTalksPosts DEF RefInv, PeersRefer
  <2>2. peer[c].id <= attempts'
    BY <2>1, AttemptsTyped DEF Later
  <2> QED
    BY <1>2, <2>1, <2>2, ClientTalksPosts, PostedRefers
<1>3. ASSUME Request PROVE QueueRefers'
  <2>1. attempts + 1 \in Attempt /\ attempts' = attempts + 1
    BY <1>3, AttemptsTyped DEF Request, At, TypeInv, LoopInv, Deciding, Unseen, Seen
  <2>2. CASE lq' = lq
    BY <2>2, QueueStays
  <2>3. CASE Posts({Cmd("reject", attempts + 1)})
    BY <2>1, <2>3, PostedRefers, AttemptsTyped
  <2> QED
    BY <1>3, <2>2, <2>3, RequestPosts
<1>4. ASSUME Check PROVE QueueRefers'
  <2>1. task[Loop].s \in Attempt /\ task[Loop].s <= attempts /\ attempts' = attempts
    BY <1>4, AttemptsTyped DEF Check, At, TypeInv, LoopInv, Deciding, Unseen, Seen
  <2>2. CASE lq' = lq
    BY <2>2, QueueStays
  <2>3. CASE Posts({Cmd("reject", task[Loop].s)})
    BY <2>1, <2>3, PostedRefers
  <2> QED
    BY <1>4, <2>2, <2>3, CheckPosts
<1>5. ASSUME PickBackend PROVE QueueRefers'
  <2>1. task[Loop].s \in Attempt /\ task[Loop].s <= attempts /\ attempts' = attempts
    BY <1>5, AttemptsTyped DEF PickBackend, At, TypeInv, LoopInv, Deciding, Unseen, Seen
  <2>2. CASE lq' = lq
    BY <2>2, QueueStays
  <2>3. CASE Posts({Cmd("reject", task[Loop].s)})
    BY <2>1, <2>3, PostedRefers
  <2> QED
    BY <1>5, <2>2, <2>3, PickBackendPosts
<1>6. ASSUME OpenLinkFails PROVE QueueRefers'
  <2>1. task[Loop].s \in Attempt /\ task[Loop].s <= attempts /\ attempts' = attempts
    BY <1>6, AttemptsTyped DEF OpenLinkFails, At, TypeInv, LoopInv, Deciding, Unseen, Seen
  <2>2. CASE lq' = lq
    BY <2>2, QueueStays
  <2>3. CASE Posts({Cmd("reject", task[Loop].s)})
    BY <2>1, <2>3, PostedRefers
  <2> QED
    BY <1>6, <2>2, <2>3, OpenLinkFailsPosts
<1>7. ASSUME RunReject PROVE QueueRefers'
  <2>1. lq # <<>> /\ lq' = Tail(lq)
    BY <1>7 DEF RunReject, HeadIs
  <2>2. Orders(lq') \subseteq Orders(lq)
    BY <2>1, HeadOfQueue
  <2> QED
    BY <2>2, QueueStays
<1>8. ASSUME RunAccept PROVE QueueRefers'
  <2>1. /\ Orders(Tail(lq)) \subseteq Orders(lq)
        /\ Head(lq).s \in Attempt /\ Head(lq).s <= attempts /\ attempts' = attempts
    BY <1>8, HeadOfQueue DEF RunAccept, HeadIs
  <2>2. CASE Orders(lq') = Orders(Tail(lq))
    BY <2>1, <2>2, QueueStays
  <2>3. CASE Orders(lq') = Orders(Tail(lq)) \cup {Cmd("disconnect", Head(lq).s)}
    <3> DEFINE cmd == Cmd("disconnect", Head(lq).s)
    <3>1. cmd.s = Head(lq).s /\ cmd.what = "disconnect"
      BY <2>1, CommandsAreOrders
    <3>2. Orders(lq') \subseteq Orders(lq) \cup {cmd}
      BY <2>1, <2>3
    <3> HIDE DEF cmd
    <3> QED
      BY <2>1, <3>1, <3>2, QueueGrows DEF Maybe
  <2> QED
    BY <1>8, <2>2, <2>3, RunAcceptPosts
<1>9. ASSUME RunDisconnect PROVE QueueRefers'
  <2>1. lq # <<>> /\ lq' = Tail(lq)
    BY <1>9 DEF RunDisconnect, HeadIs
  <2>2. Orders(lq') \subseteq Orders(lq)
    BY <2>1, HeadOfQueue
  <2> QED
    BY <2>2, QueueStays
<1>10. ASSUME RunStop PROVE QueueRefers'
  <2>1. lq # <<>> /\ lq' = Tail(lq)
    BY <1>10 DEF RunStop, HeadIs
  <2>2. Orders(lq') \subseteq Orders(lq)
    BY <2>1, HeadOfQueue
  <2> QED
    BY <2>2, QueueStays
<1>11. ASSUME LoopEnds PROVE QueueRefers'
  <2>1. Orders(lq') = {}
    BY <1>11 DEF LoopEnds, Orders
  <2> QED
    BY <2>1, QueueStays
<1>12. ASSUME NEW t \in Thread, CloseSession(t) PROVE QueueRefers'
  <2> DEFINE n == sess[task[t].s].cpeer
  <2>1. task[t].s \in Attempt /\ attempts' = attempts
    BY <1>12, AtWork DEF CloseSession, At, TypeInv, Resting
  <2>2. n <= attempts
    BY <2>1 DEF RefInv, PeersRefer
  <2>3. CASE Orders(lq') = Orders(lq)
    BY <2>3, QueueStays
  <2>4. CASE n \in Attempt /\ Posts({Cmd("disconnect", n)})
    <3> HIDE DEF n
    <3> QED
      BY <2>1, <2>2, <2>4, PostedRefers
  <2> QED
    BY <1>12, <2>3, <2>4, CloseSessionPosts
<1>13. ASSUME NEW t \in Thread, Refused(t) PROVE QueueRefers'
  <2>1. task[t].s \in Attempt /\ Registered(task[t].s) /\ attempts' = attempts
    BY <1>13, InHandRegistered DEF Refused, At, Resting, Unseen
  <2>2. task[t].s <= attempts
    BY <2>1, RegisteredAttempted
  <2> QED
    BY <1>13, <2>1, <2>2, RefusedPosts, PostedRefers
<1>14. ASSUME NEW t \in Thread, Failed(t) PROVE QueueRefers'
  <2>1. task[t].s \in Attempt /\ Registered(task[t].s) /\ attempts' = attempts
    BY <1>14, InHandRegistered DEF Failed, At, Resting, Unseen
  <2>2. task[t].s <= attempts
    BY <2>1, RegisteredAttempted
  <2> QED
    BY <1>14, <2>1, <2>2, RefusedPosts, PostedRefers
<1>15. ASSUME NEW k \in Attempt, Confirm(k) PROVE QueueRefers'
  <2>1. Registered(task[Up(k)].s)
    BY <1>15, InHandRegistered, Threads DEF Confirm, At, Resting, Unseen
  <2>2. task[Up(k)].s \in Attempt /\ task[Up(k)].s <= attempts /\ attempts' = attempts
    BY <1>15, <2>1, ConfirmPosts, RegisteredAttempted DEF Confirm
  <2> QED
    BY <1>15, <2>1, <2>2, ConfirmPosts, PostedRefers
<1>16. ASSUME StopListening PROVE QueueRefers'
  <2>1. Cmd("stop", Nobody).s = Nobody /\ Cmd("stop", Nobody).what = "stop"
    BY CommandsAreOrders
  <2>2. Orders(lq') \subseteq Orders(lq) \cup {Cmd("stop", Nobody)} /\ attempts' = attempts
    BY <1>16, StopListeningPosts DEF Posts, StopListening
  <2> QED
    BY <2>1, <2>2, QueueGrows, AttemptsTyped
<1> QED
  BY <1>1, <1>2, <1>3, <1>4, <1>5, <1>6, <1>7, <1>8, <1>9, <1>10, <1>11, <1>12, <1>13, <1>14, <1>15,
     <1>16, Writers DEF Written, Writes_lq

\* So do peers that stay or end.
LEMMA PeersStay ==
  ASSUME TypeInv, RefInv, Later,
         \A d \in Client : 
             peer'[d] = peer[d] \/ (peer'[d].id \in {Nobody, peer[d].id} /\ (peer'[d].st = "connected" => peer'[d] = peer[d]))
  PROVE  \A c \in Client :
           peer'[c].id <= attempts' /\ (peer'[c].st = "connected" => peer'[c].id # Nobody)
<1>1. \A c \in Client : peer[c].id \in Maybe /\ peer[c].id <= attempts /\ (peer[c].st = "connected" => peer[c].id # Nobody)
  BY ClientsTyped DEF RefInv, PeersRefer, PeerState
<1> QED
  BY <1>1, AttemptsTyped DEF Later

\* Peers of clients are named by attempts there have been.
LEMMA PeersAttempted ==
  ASSUME TypeInv, RefInv, Later, Next
  PROVE  \A d \in Client :
           peer'[d].id <= attempts' /\ (peer'[d].st = "connected" => peer'[d].id # Nobody)
<1>1. CASE UNCHANGED <<peer>>
  BY <1>1, PeersStay
<1>2. ASSUME NEW c \in Client, ConnectRequest(c) PROVE \A d \in Client :
           peer'[d].id <= attempts' /\ (peer'[d].st = "connected" => peer'[d].id # Nobody)
  <2>1. \A d \in Client : 
             peer'[d] = peer[d] \/ (peer'[d].id \in {Nobody, peer[d].id} /\ (peer'[d].st = "connected" => peer'[d] = peer[d]))
    BY <1>2, ClientsTyped DEF ConnectRequest, Displaced, NoPeer, Shutdown, PeerState
  <2> QED
    BY <2>1, PeersStay
<1>3. ASSUME NEW c \in Client, ClientGone(c) PROVE \A d \in Client :
           peer'[d].id <= attempts' /\ (peer'[d].st = "connected" => peer'[d].id # Nobody)
  <2>1. \A d \in Client : 
             peer'[d] = peer[d] \/ (peer'[d].id \in {Nobody, peer[d].id} /\ (peer'[d].st = "connected" => peer'[d] = peer[d]))
    BY <1>3, ClientsTyped DEF ClientGone, Displaced, NoPeer, Shutdown, PeerState
  <2> QED
    BY <2>1, PeersStay
<1>4. ASSUME NEW c \in Client, PeerForgotten(c) PROVE \A d \in Client :
           peer'[d].id <= attempts' /\ (peer'[d].st = "connected" => peer'[d].id # Nobody)
  <2>1. \A d \in Client : 
             peer'[d] = peer[d] \/ (peer'[d].id \in {Nobody, peer[d].id} /\ (peer'[d].st = "connected" => peer'[d] = peer[d]))
    BY <1>4, ClientsTyped DEF PeerForgotten, Displaced, NoPeer, Shutdown, PeerState
  <2> QED
    BY <2>1, PeersStay
<1>5. ASSUME RunAccept PROVE \A d \in Client :
           peer'[d].id <= attempts' /\ (peer'[d].st = "connected" => peer'[d].id # Nobody)
  <2>1. Head(lq).s \in Attempt /\ Head(lq).s <= attempts /\ attempts' = attempts
    BY <1>5, HeadOfQueue DEF RunAccept, HeadIs
  <2>2. \A c \in Client : peer'[c] \in {peer[c], AcceptedPeer(Head(lq).s)}
    BY <1>5, ClientsTyped DEF RunAccept
  <2>3. AcceptedPeer(Head(lq).s).id = Head(lq).s
    BY DEF AcceptedPeer
  <2> QED
    BY <2>1, <2>2, <2>3, ClientsTyped, AttemptsTyped DEF RefInv, PeersRefer, PeerState
<1>6. ASSUME RunDisconnect PROVE \A d \in Client :
           peer'[d].id <= attempts' /\ (peer'[d].st = "connected" => peer'[d].id # Nobody)
  <2>1. \A d \in Client : 
             peer'[d] = peer[d] \/ (peer'[d].id \in {Nobody, peer[d].id} /\ (peer'[d].st = "connected" => peer'[d] = peer[d]))
    BY <1>6, ClientsTyped DEF RunDisconnect, Displaced, NoPeer, Shutdown, PeerState
  <2> QED
    BY <2>1, PeersStay
<1>7. ASSUME RunStop PROVE \A d \in Client :
           peer'[d].id <= attempts' /\ (peer'[d].st = "connected" => peer'[d].id # Nobody)
  <2>1. \A d \in Client : 
             peer'[d] = peer[d] \/ (peer'[d].id \in {Nobody, peer[d].id} /\ (peer'[d].st = "connected" => peer'[d] = peer[d]))
    BY <1>7, ClientsTyped DEF RunStop, Displaced, NoPeer, Shutdown, PeerState
  <2> QED
    BY <2>1, PeersStay
<1>8. ASSUME LoopEnds PROVE \A d \in Client :
           peer'[d].id <= attempts' /\ (peer'[d].st = "connected" => peer'[d].id # Nobody)
  <2>1. \A d \in Client : 
             peer'[d] = peer[d] \/ (peer'[d].id \in {Nobody, peer[d].id} /\ (peer'[d].st = "connected" => peer'[d] = peer[d]))
    BY <1>8, ClientsTyped DEF LoopEnds, Displaced, NoPeer, Shutdown, PeerState
  <2> QED
    BY <2>1, PeersStay
<1> QED
  BY <1>1, <1>2, <1>3, <1>4, <1>5, <1>6, <1>7, <1>8, Writers DEF Written, Writes_peer

\* So does Loop, unless it has come to a new peer.
LEMMA ReadyStays ==
  ASSUME TypeInv, RefInv, Later, task'[Loop] = task[Loop] \/ task'[Loop].pc # "ready"
  PROVE  task'[Loop].pc = "ready" => task'[Loop].k <= attempts'
<1>1. task[Loop].k \in Maybe
  BY TasksTyped, Threads
<1> QED
  BY <1>1, AttemptsTyped DEF RefInv, PeersRefer, At, Later

\* So is the peer that Loop has in hand.
LEMMA ReadyAttempted ==
  ASSUME TypeInv, RefInv, Later, Next
  PROVE  task'[Loop].pc = "ready" => task'[Loop].k <= attempts'
<1>1. CASE UNCHANGED <<task>>
  BY <1>1, ReadyStays
<1>2. ASSUME NEW c \in Client, ConnectRequest(c) PROVE task'[Loop].pc = "ready" => task'[Loop].k <= attempts'
  <2>1. task'[Loop] = task[Loop] \/ task'[Loop].pc # "ready"
    BY <1>2, ConnectRequestMoves, Threads DEF Moves
  <2> QED
    BY <2>1, ReadyStays
<1>3. ASSUME NEW c \in Client, ClientGone(c) PROVE task'[Loop].pc = "ready" => task'[Loop].k <= attempts'
  <2>1. task'[Loop] = task[Loop] \/ task'[Loop].pc # "ready"
    BY <1>3, ClientGoneMoves, Threads DEF Moves
  <2> QED
    BY <2>1, ReadyStays
<1>4. ASSUME Request PROVE task'[Loop].pc = "ready" => task'[Loop].k <= attempts'
  <2>1. task'[Loop] = task[Loop] \/ task'[Loop].pc # "ready"
    BY <1>4, RequestMoves, Threads DEF Moves
  <2> QED
    BY <2>1, ReadyStays
<1>5. ASSUME Check PROVE task'[Loop].pc = "ready" => task'[Loop].k <= attempts'
  <2>1. task'[Loop] = task[Loop] \/ task'[Loop].pc # "ready"
    BY <1>5, CheckMoves, Threads DEF Moves
  <2> QED
    BY <2>1, ReadyStays
<1>6. ASSUME TakeRedirect PROVE task'[Loop].pc = "ready" => task'[Loop].k <= attempts'
  <2>1. task'[Loop] = task[Loop] \/ task'[Loop].pc # "ready"
    BY <1>6, TakeRedirectMoves, Threads DEF Moves
  <2> QED
    BY <2>1, ReadyStays
<1>7. ASSUME PickBackend PROVE task'[Loop].pc = "ready" => task'[Loop].k <= attempts'
  <2>1. task'[Loop] = task[Loop] \/ task'[Loop].pc # "ready"
    BY <1>7, PickBackendMoves, Threads DEF Moves
  <2> QED
    BY <2>1, ReadyStays
<1>8. ASSUME Register PROVE task'[Loop].pc = "ready" => task'[Loop].k <= attempts'
  <2>1. task'[Loop] = task[Loop] \/ task'[Loop].pc # "ready"
    BY <1>8, RegisterMoves, Threads DEF Moves
  <2> QED
    BY <2>1, ReadyStays
<1>9. ASSUME Acquire PROVE task'[Loop].pc = "ready" => task'[Loop].k <= attempts'
  <2>1. task'[Loop] = task[Loop] \/ task'[Loop].pc # "ready"
    BY <1>9, AcquireMoves, Threads DEF Moves
  <2> QED
    BY <2>1, ReadyStays
<1>10. ASSUME ReuseLink PROVE task'[Loop].pc = "ready" => task'[Loop].k <= attempts'
  <2>1. task'[Loop] = task[Loop] \/ task'[Loop].pc # "ready"
    BY <1>10, ReuseLinkMoves, Threads DEF Moves
  <2> QED
    BY <2>1, ReadyStays
<1>11. ASSUME OpenLink PROVE task'[Loop].pc = "ready" => task'[Loop].k <= attempts'
  <2>1. task'[Loop] = task[Loop] \/ task'[Loop].pc # "ready"
    BY <1>11, OpenLinkMoves, Threads DEF Moves
  <2> QED
    BY <2>1, ReadyStays
<1>12. ASSUME OpenLinkFails PROVE task'[Loop].pc = "ready" => task'[Loop].k <= attempts'
  <2>1. task'[Loop] = task[Loop] \/ task'[Loop].pc # "ready"
    BY <1>12, OpenLinkFailsMoves, Threads DEF Moves
  <2> QED
    BY <2>1, ReadyStays
<1>13. ASSUME Bind PROVE task'[Loop].pc = "ready" => task'[Loop].k <= attempts'
  <2>1. task'[Loop] = task[Loop] \/ task'[Loop].pc # "ready"
    BY <1>13, BindMoves, Threads DEF Moves
  <2> QED
    BY <2>1, ReadyStays
<1>14. ASSUME Attach PROVE task'[Loop].pc = "ready" => task'[Loop].k <= attempts'
  <2>1. task'[Loop] = task[Loop] \/ task'[Loop].pc # "ready"
    BY <1>14, AttachMoves, Threads DEF Moves
  <2> QED
    BY <2>1, ReadyStays
<1>15. ASSUME Dial PROVE task'[Loop].pc = "ready" => task'[Loop].k <= attempts'
  <2>1. task'[Loop] = task[Loop] \/ task'[Loop].pc # "ready"
    BY <1>15, DialMoves, Threads DEF Moves
  <2> QED
    BY <2>1, ReadyStays
<1>16. ASSUME ClientReady PROVE task'[Loop].pc = "ready" => task'[Loop].k <= attempts'
  <2>1. task'[Loop] = task[Loop] \/ task'[Loop].pc # "ready"
    BY <1>16, ClientReadyMoves, Threads DEF Moves
  <2> QED
    BY <2>1, ReadyStays
<1>17. ASSUME RunAccept PROVE task'[Loop].pc = "ready" => task'[Loop].k <= attempts'
  <2>1. Head(lq).s <= attempts /\ attempts' = attempts
    BY <1>17, HeadOfQueue DEF RunAccept, HeadIs
  <2>2. task'[Loop] = task[Loop] \/ task'[Loop].k = Head(lq).s
    BY <1>17, RunAcceptMoves, Threads DEF Moves
  <2> QED
    BY <2>1, <2>2 DEF RefInv, PeersRefer, At
<1>18. ASSUME RunDisconnect PROVE task'[Loop].pc = "ready" => task'[Loop].k <= attempts'
  <2>1. task'[Loop] = task[Loop] \/ task'[Loop].pc # "ready"
    BY <1>18, RunDisconnectMoves, Threads DEF Moves
  <2> QED
    BY <2>1, ReadyStays
<1>19. ASSUME NEW t \in Thread, CloseSession(t) PROVE task'[Loop].pc = "ready" => task'[Loop].k <= attempts'
  <2>1. task'[Loop] = task[Loop] \/ task'[Loop].pc # "ready"
    BY <1>19, CloseSessionMoves, Threads DEF Moves, Returns
  <2> QED
    BY <2>1, ReadyStays
<1>20. ASSUME NEW t \in Thread, DropBegin(t) PROVE task'[Loop].pc = "ready" => task'[Loop].k <= attempts'
  <2>1. task'[Loop] = task[Loop] \/ task'[Loop].pc # "ready"
    BY <1>20, DropBeginMoves, Threads DEF Moves
  <2> QED
    BY <2>1, ReadyStays
<1>21. ASSUME NEW t \in Thread, DropWaited(t) PROVE task'[Loop].pc = "ready" => task'[Loop].k <= attempts'
  <2>1. task'[Loop] = task[Loop] \/ task'[Loop].pc # "ready"
    BY <1>21, DropWaitedMoves, Threads DEF Moves, Returns
  <2> QED
    BY <2>1, ReadyStays
<1>22. ASSUME NEW t \in Thread, ReleaseLink(t) PROVE task'[Loop].pc = "ready" => task'[Loop].k <= attempts'
  <2>1. task'[Loop] = task[Loop] \/ task'[Loop].pc # "ready"
    BY <1>22, ReleaseLinkMoves, Threads DEF Moves
  <2> QED
    BY <2>1, ReadyStays
<1>23. ASSUME NEW t \in Thread, Forget(t) PROVE task'[Loop].pc = "ready" => task'[Loop].k <= attempts'
  <2>1. task'[Loop] = task[Loop] \/ task'[Loop].pc # "ready"
    BY <1>23, ForgetMoves, Threads DEF Moves
  <2> QED
    BY <2>1, ReadyStays
<1>24. ASSUME NEW t \in Thread, Uncount(t) PROVE task'[Loop].pc = "ready" => task'[Loop].k <= attempts'
  <2>1. task'[Loop] = task[Loop] \/ task'[Loop].pc # "ready"
    BY <1>24, UncountMoves, Threads DEF Moves, Returns
  <2> QED
    BY <2>1, ReadyStays
<1>25. ASSUME NEW t \in Thread, Refused(t) PROVE task'[Loop].pc = "ready" => task'[Loop].k <= attempts'
  <2>1. task'[Loop] = task[Loop] \/ task'[Loop].pc # "ready"
    BY <1>25, RefusedMoves, Threads DEF Moves
  <2> QED
    BY <2>1, ReadyStays
<1>26. ASSUME NEW t \in Thread, Failed(t) PROVE task'[Loop].pc = "ready" => task'[Loop].k <= attempts'
  <2>1. task'[Loop] = task[Loop] \/ task'[Loop].pc # "ready"
    BY <1>26, FailedMoves, Threads DEF Moves
  <2> QED
    BY <2>1, ReadyStays
<1>27. ASSUME NEW k \in Attempt, Activate(k) PROVE task'[Loop].pc = "ready" => task'[Loop].k <= attempts'
  <2>1. task'[Loop] = task[Loop] \/ task'[Loop].pc # "ready"
    BY <1>27, ActivateMoves, Threads DEF Moves
  <2> QED
    BY <2>1, ReadyStays
<1>28. ASSUME NEW k \in Attempt, Confirm(k) PROVE task'[Loop].pc = "ready" => task'[Loop].k <= attempts'
  <2>1. task'[Loop] = task[Loop] \/ task'[Loop].pc # "ready"
    BY <1>28, ConfirmMoves, Threads DEF Moves
  <2> QED
    BY <2>1, ReadyStays
<1>29. ASSUME NEW k \in Attempt, RunUpDisconnect(k) PROVE task'[Loop].pc = "ready" => task'[Loop].k <= attempts'
  <2>1. task'[Loop] = task[Loop] \/ task'[Loop].pc # "ready"
    BY <1>29, RunUpDisconnectMoves, Threads DEF Moves
  <2> QED
    BY <2>1, ReadyStays
<1>30. ASSUME NEW k \in Attempt, NEW b \in Backend, BackendAccepts(k, b) PROVE task'[Loop].pc = "ready" => task'[Loop].k <= attempts'
  <2>1. task'[Loop] = task[Loop] \/ task'[Loop].pc # "ready"
    BY <1>30, BackendAcceptsMoves, Threads DEF Moves
  <2> QED
    BY <2>1, ReadyStays
<1>31. ASSUME NEW k \in Attempt, NEW b \in Backend, NEW rejected \in BOOLEAN, DialFails(k, b, rejected) PROVE task'[Loop].pc = "ready" => task'[Loop].k <= attempts'
  <2>1. task'[Loop] = task[Loop] \/ task'[Loop].pc # "ready"
    BY <1>31, DialFailsMoves, Threads DEF Moves
  <2> QED
    BY <2>1, ReadyStays
<1>32. ASSUME NEW k \in Attempt, NEW b \in Backend, BackendGone(k, b) PROVE task'[Loop].pc = "ready" => task'[Loop].k <= attempts'
  <2>1. task'[Loop] = task[Loop] \/ task'[Loop].pc # "ready"
    BY <1>32, BackendGoneMoves, Threads DEF Moves
  <2> QED
    BY <2>1, ReadyStays
<1>33. ASSUME NEW s \in Attempt, TimerFires(s) PROVE task'[Loop].pc = "ready" => task'[Loop].k <= attempts'
  <2>1. task'[Loop] = task[Loop] \/ task'[Loop].pc # "ready"
    BY <1>33, TimerFiresMoves, Threads DEF Moves
  <2> QED
    BY <2>1, ReadyStays
<1>34. ASSUME NEW s \in Attempt, RelayBreaks(s) PROVE task'[Loop].pc = "ready" => task'[Loop].k <= attempts'
  <2>1. task'[Loop] = task[Loop] \/ task'[Loop].pc # "ready"
    BY <1>34, RelayBreaksMoves, Threads DEF Moves
  <2> QED
    BY <2>1, ReadyStays
<1>35. ASSUME NEW s \in Attempt, Kick(s) PROVE task'[Loop].pc = "ready" => task'[Loop].k <= attempts'
  <2>1. task'[Loop] = task[Loop] \/ task'[Loop].pc # "ready"
    BY <1>35, KickMoves, Threads DEF Moves
  <2> QED
    BY <2>1, ReadyStays
<1>36. ASSUME NEW s \in Attempt, NEW b \in Backend, Move(s, b) PROVE task'[Loop].pc = "ready" => task'[Loop].k <= attempts'
  <2>1. task'[Loop] = task[Loop] \/ task'[Loop].pc # "ready"
    BY <1>36, MoveMoves, Threads DEF Moves
  <2> QED
    BY <2>1, ReadyStays
<1>37. ASSUME NEW ip \in IP, Ban(ip) PROVE task'[Loop].pc = "ready" => task'[Loop].k <= attempts'
  <2>1. task'[Loop] = task[Loop] \/ task'[Loop].pc # "ready"
    BY <1>37, BanMoves, Threads DEF Moves
  <2> QED
    BY <2>1, ReadyStays
<1>38. ASSUME CloseProxy PROVE task'[Loop].pc = "ready" => task'[Loop].k <= attempts'
  <2>1. task'[Loop] = task[Loop] \/ task'[Loop].pc # "ready"
    BY <1>38, CloseProxyMoves, Threads DEF Moves
  <2> QED
    BY <2>1, ReadyStays
<1>39. ASSUME StopListening PROVE task'[Loop].pc = "ready" => task'[Loop].k <= attempts'
  <2>1. task'[Loop] = task[Loop] \/ task'[Loop].pc # "ready"
    BY <1>39, StopListeningMoves, Threads DEF Moves
  <2> QED
    BY <2>1, ReadyStays
<1>40. ASSUME StopAllLinks PROVE task'[Loop].pc = "ready" => task'[Loop].k <= attempts'
  <2>1. task'[Loop] = task[Loop] \/ task'[Loop].pc # "ready"
    BY <1>40, StopAllLinksMoves, Threads DEF Moves
  <2> QED
    BY <2>1, ReadyStays
<1>41. ASSUME LinksStopped PROVE task'[Loop].pc = "ready" => task'[Loop].k <= attempts'
  <2>1. task'[Loop] = task[Loop] \/ task'[Loop].pc # "ready"
    BY <1>41, LinksStoppedMoves, Threads DEF Moves
  <2> QED
    BY <2>1, ReadyStays
<1> QED
  BY <1>1, <1>2, <1>3, <1>4, <1>5, <1>6, <1>7, <1>8, <1>9, <1>10, <1>11, <1>12, <1>13, <1>14,
     <1>15, <1>16, <1>17, <1>18, <1>19, <1>20, <1>21, <1>22, <1>23, <1>24, <1>25, <1>26, <1>27,
     <1>28, <1>29, <1>30, <1>31, <1>32, <1>33, <1>34, <1>35, <1>36, <1>37, <1>38, <1>39, <1>40,
     <1>41, Writers DEF Written, Writes_task

\* Sessions that keep their peers refer to peers there have been.
LEMMA CpeersStay ==
  ASSUME TypeInv, RefInv, Later, \A r \in Attempt : sess'[r].cpeer = sess[r].cpeer
  PROVE  \A s \in Attempt : sess'[s].cpeer <= attempts'
<1>1. \A s \in Attempt : sess[s].cpeer \in Maybe /\ sess[s].cpeer <= attempts
  BY SessionsTyped DEF Session, RefInv, PeersRefer
<1> QED
  BY <1>1, AttemptsTyped DEF Later

\* So are the client peers of sessions.
LEMMA ClientPeersAttempted ==
  ASSUME TypeInv, RefInv, Later, Next
  PROVE  \A s \in Attempt : sess'[s].cpeer <= attempts'
<1>1. CASE UNCHANGED <<sess>>
  BY <1>1, CpeersStay
<1>2. ASSUME Request PROVE \A s \in Attempt : sess'[s].cpeer <= attempts'
  <2>1. \A r \in Attempt : sess'[r].cpeer = sess[r].cpeer
    BY <1>2, SessionsTyped DEF Request, Session, listenVars
  <2> QED
    BY <2>1, CpeersStay
<1>3. ASSUME TakeRedirect \/ PickBackend PROVE \A s \in Attempt : sess'[s].cpeer <= attempts'
  BY <1>3, ChoosesTarget, CpeersStay DEF TargetChosen
<1>4. ASSUME Register PROVE \A s \in Attempt : sess'[s].cpeer <= attempts'
  <2>1. \A r \in Attempt : sess'[r].cpeer = sess[r].cpeer
    BY <1>4, SessionsTyped DEF Register, Session, listenVars
  <2> QED
    BY <2>1, CpeersStay
<1>5. ASSUME Attach PROVE \A s \in Attempt : sess'[s].cpeer <= attempts'
  <2>1. \A r \in Attempt : sess'[r].cpeer = sess[r].cpeer
    BY <1>5, SessionsTyped DEF Attach, Session, listenVars
  <2> QED
    BY <2>1, CpeersStay
<1>6. ASSUME ClientReady PROVE \A s \in Attempt : sess'[s].cpeer <= attempts'
  <2>1. task[Loop].k <= attempts /\ attempts' = attempts
    BY <1>6 DEF ClientReady, listenVars, RefInv, PeersRefer
  <2>2. \A r \in Attempt : sess'[r].cpeer \in {sess[r].cpeer, task[Loop].k}
    BY <1>6, SessionsTyped DEF ClientReady, Session
  <2> QED
    BY <2>1, <2>2 DEF RefInv, PeersRefer
<1>7. ASSUME NEW t \in Thread, DropBegin(t) PROVE \A s \in Attempt : sess'[s].cpeer <= attempts'
  <2>1. \A r \in Attempt : sess'[r].cpeer = sess[r].cpeer
    BY <1>7, SessionsTyped DEF DropBegin, Session, listenVars
  <2> QED
    BY <2>1, CpeersStay
<1>8. ASSUME NEW t \in Thread, Uncount(t) PROVE \A s \in Attempt : sess'[s].cpeer <= attempts'
  <2>1. \A r \in Attempt : sess'[r].cpeer = sess[r].cpeer
    BY <1>8, SessionsTyped DEF Uncount, Session, listenVars
  <2> QED
    BY <2>1, CpeersStay
<1>9. ASSUME NEW k \in Attempt, Activate(k) PROVE \A s \in Attempt : sess'[s].cpeer <= attempts'
  <2>1. \A r \in Attempt : sess'[r].cpeer = sess[r].cpeer
    BY <1>9, SessionsTyped DEF Activate, Session, listenVars
  <2> QED
    BY <2>1, CpeersStay
<1>10. ASSUME NEW k \in Attempt, NEW b \in Backend, BackendAccepts(k, b) PROVE \A s \in Attempt : sess'[s].cpeer <= attempts'
  <2>1. \A r \in Attempt : sess'[r].cpeer = sess[r].cpeer
    BY <1>10, SessionsTyped DEF BackendAccepts, Session, listenVars
  <2> QED
    BY <2>1, CpeersStay
<1> QED
  BY <1>1, <1>2, <1>3, <1>4, <1>5, <1>6, <1>7, <1>8, <1>9, <1>10, Writers DEF Written, Writes_sess

\* A step keeps the second layer.
LEMMA RefKept ==
  ASSUME TypeInv, RefInv, [Next]_vars
  PROVE  RefInv'
<1>1. CASE Next
  <2>1. Later
    BY <1>1, NothingForgotten
  <2>2. TasksRefer' /\ TablesRefer' /\ LinksRefer' /\ QueueRefers'
    BY <1>1, <2>1, TasksStillRefer, TablesStillRefer, LinksStillRefer, QueueStillRefers
  <2>3. PeersRefer'
    BY <1>1, <2>1, PeersAttempted, ReadyAttempted, ClientPeersAttempted DEF PeersRefer, At
  <2> QED
    BY <2>2, <2>3 DEF RefInv
<1>2. CASE UNCHANGED vars
  BY <1>2 DEF vars, RefInv, TasksRefer, TablesRefer, LinksRefer, QueueRefers, PeersRefer,
     Registered, At
<1> QED
  BY <1>1, <1>2

-----------------------------------------------------------------------------
(* What every behaviour keeps.                                             *)

\* The first two layers hold at first.
LEMMA InitTypes == Init => TypeInv /\ RefInv
<1> SUFFICES ASSUME Init PROVE TypeInv /\ RefInv
  OBVIOUS
<1>1. /\ Idle \in Task /\ Idle.pc = "idle" /\ Idle.s = Nobody /\ Idle.todo = {}
      /\ NewSession \in Session /\ NewSession.st = "none" /\ NewSession.cpeer = Nobody
      /\ NoPeer \in PeerState /\ NoPeer.id = Nobody /\ NoPeer.st = "none"
      /\ NewLink \in LinkState /\ NewLink.s = Nobody
      /\ Nobody \in Maybe /\ Nobody = 0
  BY DEF Idle, Task, Places, Resting, NewSession, Session, NoPeer, PeerState, NewLink, LinkState,
     Maybe, Nobody
<1>2. TypeOK
  <2>1. sess \in [Attempt -> Session] /\ link \in [Attempt -> LinkState]
    BY <1>1 DEF Init, NewLink
  <2>2. up \in [Attempt -> [Backend -> PeerState]] /\ peer \in [Client -> PeerState]
    BY <1>1 DEF Init
  <2>3. pool \in [Backend -> BackendState]
    BY DEF Init, NewPool, BackendState
  <2>4. lq \in Seq(Command) /\ uq \in [Attempt -> Seq(Command)]
    BY DEF Init
  <2>5. DOMAIN task = Thread /\ \A t \in Thread : task[t].s \in Maybe /\ task[t].k \in Maybe /\ task[t].todo \subseteq Attempt
    BY <1>1 DEF Init, Idle
  <2>6. /\ attempts \in 0..MaxAttempts /\ commands \in 0..MaxCommands
        /\ req \in [Client -> Maybe] /\ byAddr \in [Client -> Maybe] /\ links \in [Client -> Maybe]
        /\ answer \in [Attempt -> {"none", "accepted", "rejected"}]
    BY <1>1, AttemptsBound DEF Init
  <2> QED
    BY <2>1, <2>2, <2>3, <2>4, <2>5, <2>6 DEF Init, TypeOK, Session, LinkState
<1>3. TaskInv /\ QueueInv
  BY <1>1 DEF Init, TaskInv, QueueInv, Resting
<1>4. LoopInv
  BY <1>1, Threads DEF Init, LoopInv, Deciding, Unseen, Seen
<1>5. AttemptInv
  BY <1>1, AttemptsBound DEF Init, AttemptInv, Registered, Attempt
<1>6. RefInv
  <2>1. Orders(lq) = {}
    BY DEF Init, Orders
  <2> QED
    BY <1>1, <2>1, Threads DEF Init, RefInv, TasksRefer, TablesRefer, LinksRefer, QueueRefers,
       PeersRefer, At
<1> QED
  BY <1>2, <1>3, <1>4, <1>5, <1>6 DEF TypeInv

\* What the proofs below stand on.
LEMMA Foundation == Spec => [](TypeInv /\ RefInv)
<1>1. TypeInv /\ RefInv /\ [Next]_vars => TypeInv' /\ RefInv'
  BY TypesKept, RefKept
<1> QED
  BY InitTypes, <1>1, PTL DEF Spec

\* Every variable of the proxy keeps its type, whatever clients, backends and
\* administrators do: in particular the counters stay natural numbers, and
\* whatever names a session names one that there is.
THEOREM TypeCorrect == Spec => []TypeOK
<1>1. TypeInv => TypeOK
  BY DEF TypeInv
<1> QED
  BY Foundation, <1>1, PTL

-----------------------------------------------------------------------------
(* Sockets in the table, and the health of the backends.                   *)

InTable == \A k \in Attempt : link[k].mgr = "open" => \E c \in Client : links[c] = k

\* A socket that is open stays in the table.
LEMMA NoLinkGetsLost ==
  ASSUME TypeInv, RefInv, InTable, Next
  PROVE  InTable'
<1>1. CASE UNCHANGED <<links, link>>
  BY <1>1 DEF InTable
<1>2. ASSUME OpenLink PROVE InTable'
  <2> DEFINE n == task[Loop].s
  <2>1. \A k \in Attempt : link'[k].mgr = "open" => k = n \/ (link[k].mgr = "open" /\ k # links[asking])
    BY <1>2, LinksTyped DEF OpenLink, GivenUp, LinkState
  <2>2. asking \in Client
    BY <1>2, ClientsTyped DEF OpenLink, At, TypeInv, LoopInv, Deciding, Unseen, Seen
  <2>3. links' = [links EXCEPT ![asking] = n]
    BY <1>2 DEF OpenLink
  <2>4. links'[asking] = n /\ \A c \in Client : links'[c] = links[c] \/ c = asking
    BY <2>2, <2>3, LinksTyped
  <2> QED
    BY <2>1, <2>2, <2>4 DEF InTable
<1>3. ASSUME OpenLinkFails PROVE InTable'
  <2>1. \A k \in Attempt : link'[k].mgr = "open" => link[k].mgr = "open" /\ k # links[asking]
    BY <1>3, LinksTyped DEF OpenLinkFails, GivenUp, LinkState
  <2>2. \A c \in Client : links'[c] = links[c] \/ c = asking
    BY <1>3, LinksTyped DEF OpenLinkFails
  <2> QED
    BY <2>1, <2>2 DEF InTable
<1>4. ASSUME Bind PROVE InTable'
  <2>1. links' = links /\ \A j \in Attempt : link'[j].mgr = "open" => link[j].mgr = "open"
    BY <1>4, LinksTyped DEF Bind, LinkState
  <2> QED
    BY <2>1 DEF InTable
<1>5. ASSUME NEW t \in Thread, ReleaseLink(t) PROVE InTable'
  <2>1. links' = links /\ \A j \in Attempt : link'[j].mgr = "open" => link[j].mgr = "open"
    BY <1>5, LinksTyped DEF ReleaseLink, LinkState
  <2> QED
    BY <2>1 DEF InTable
<1>6. ASSUME NEW k \in Attempt, PostStop(k) PROVE InTable'
  <2>1. links' = links /\ \A j \in Attempt : link'[j].mgr = "open" => link[j].mgr = "open"
    BY <1>6, LinksTyped DEF PostStop, LinkState
  <2> QED
    BY <2>1 DEF InTable
<1>7. ASSUME NEW k \in Attempt, RunUpStop(k) PROVE InTable'
  <2>1. links' = links /\ \A j \in Attempt : link'[j].mgr = "open" => link[j].mgr = "open"
    BY <1>7, LinksTyped DEF RunUpStop, LinkState
  <2> QED
    BY <2>1 DEF InTable
<1>8. ASSUME NEW k \in Attempt, UpEnds(k) PROVE InTable'
  <2>1. links' = links /\ \A j \in Attempt : link'[j].mgr = "open" => link[j].mgr = "open"
    BY <1>8, LinksTyped DEF UpEnds, LinkState
  <2> QED
    BY <2>1 DEF InTable
<1>9. ASSUME NEW k \in Attempt, LeaseExpires(k) PROVE InTable'
  <2>1. links' = links /\ \A j \in Attempt : link'[j].mgr = "open" => link[j].mgr = "open"
    BY <1>9, LinksTyped DEF LeaseExpires, LinkState
  <2> QED
    BY <2>1 DEF InTable
<1>10. ASSUME NEW c \in Client, SweepLink(c) PROVE InTable'
  <2>1. \A k \in Attempt : link'[k].mgr = "open" => link[k].mgr = "open" /\ k # links[c]
    BY <1>10, LinksTyped DEF SweepLink, GivenUp, LinkState
  <2>2. \A d \in Client : links'[d] = links[d] \/ d = c
    BY <1>10, LinksTyped DEF SweepLink
  <2> QED
    BY <2>1, <2>2 DEF InTable
<1>11. ASSUME StopAllLinks PROVE InTable'
  <2>1. link' = GivenUp({links[c] : c \in Client} \ {Nobody})
    BY <1>11 DEF StopAllLinks
  <2>2. \A k \in Attempt : link'[k].mgr = "open" => link[k].mgr = "open" /\ k \notin {links[c] : c \in Client} \ {Nobody}
    BY <2>1, LinksTyped DEF GivenUp, LinkState
  <2>3. \A k \in Attempt : k # Nobody
    BY AttemptsTyped
  <2> QED
    BY <2>2, <2>3 DEF InTable
<1> QED
  BY <1>1, <1>2, <1>3, <1>4, <1>5, <1>6, <1>7, <1>8, <1>9, <1>10, <1>11, Writers DEF Written,
     Writes_links, Writes_link

\* So is every socket that is open.
LEMMA LinksStayInTable == Spec => []InTable
<1>1. Init => InTable
  BY DEF Init, InTable
<1>2. TypeInv /\ RefInv /\ InTable /\ [Next]_vars => InTable'
  <2>1. ASSUME InTable, UNCHANGED vars PROVE InTable'
    BY <2>1 DEF InTable, vars
  <2> QED
    BY <2>1, NoLinkGetsLost
<1> QED
  BY Foundation, <1>1, <1>2, PTL DEF Spec

\* What each operation of the pool does to the health of the backends.
LEMMA HealthOfOperators ==
  ASSUME NEW p \in [Backend -> BackendState], NEW b,
         \A c \in Backend : p[c].healthy <=> p[c].failures < HealthFailures,
         NEW q, \/ q = MarkSuccess(p, b) \/ q = MarkFailure(p, b) \/ q = AddPlayer(p, b) \/ q = RemovePlayer(p, b)
                \/ q = ProbeDue(p, b) \/ \E on \in BOOLEAN : q = SetEnabled(p, b, on)
  PROVE  \A c \in Backend : q[c].healthy <=> q[c].failures < HealthFailures
<1>1. \A c \in Backend : p[c].failures \in Nat /\ DOMAIN p[c] = {"enabled", "healthy", "rested", "failures", "players"}
  BY DEF BackendState
<1>2. CASE b \in Backend
  <2>1. CASE q = MarkSuccess(p, b)
    <3>1. q[b].failures = 0 /\ q[b].healthy = TRUE /\ \A c \in Backend : c # b => q[c] = p[c]
      BY <1>1, <1>2, <2>1 DEF MarkSuccess, BackendState
    <3> QED
      BY <3>1, ThresholdIsPositive
  <2>2. CASE q = MarkFailure(p, b)
    <3> DEFINE h == p[b].healthy /\ p[b].failures + 1 < HealthFailures
    <3>1. q[b].failures = p[b].failures + 1 /\ \A c \in Backend : c # b => q[c] = p[c]
      BY <1>1, <1>2, <2>2 DEF MarkFailure, BackendState
    <3>2. q[b].healthy = h
      BY <1>1, <1>2, <2>2 DEF MarkFailure, BackendState
    <3>3. h <=> p[b].failures + 1 < HealthFailures
      BY <1>1, <1>2, ThresholdIsPositive
    <3> HIDE DEF h
    <3> QED
      BY <3>1, <3>2, <3>3
  <2>3. CASE \A c \in Backend : q[c].failures = p[c].failures /\ q[c].healthy = p[c].healthy
    BY <2>3
  <2>4. q = AddPlayer(p, b) \/ q = RemovePlayer(p, b) \/ q = ProbeDue(p, b) \/ (\E on \in BOOLEAN : q = SetEnabled(p, b, on))
          => \A c \in Backend : q[c].failures = p[c].failures /\ q[c].healthy = p[c].healthy
    BY <1>1, <1>2 DEF AddPlayer, RemovePlayer, ProbeDue, SetEnabled, BackendState
  <2> QED
    BY <2>1, <2>2, <2>3, <2>4
<1>3. CASE b \notin Backend
  BY <1>3 DEF MarkSuccess, MarkFailure, AddPlayer, RemovePlayer, ProbeDue, SetEnabled
<1> QED
  BY <1>2, <1>3

\* A backend stays as healthy as its failures in a row say.
LEMMA HealthStaysTrue ==
  ASSUME TypeInv, RefInv, HealthFollowsFailures, Next
  PROVE  HealthFollowsFailures'
<1>1. CASE UNCHANGED <<pool>>
  BY <1>1 DEF HealthFollowsFailures
<1>2. ASSUME Acquire PROVE HealthFollowsFailures'
  BY <1>2, PoolTyped, HealthOfOperators DEF Acquire, HealthFollowsFailures
<1>3. ASSUME NEW t \in Thread, Uncount(t) PROVE HealthFollowsFailures'
  BY <1>3, PoolTyped, HealthOfOperators DEF Uncount, HealthFollowsFailures
<1>4. ASSUME NEW t \in Thread, Failed(t) PROVE HealthFollowsFailures'
  BY <1>4, PoolTyped, HealthOfOperators DEF Failed, HealthFollowsFailures
<1>5. ASSUME NEW k \in Attempt, Confirm(k) PROVE HealthFollowsFailures'
  BY <1>5, PoolTyped, HealthOfOperators DEF Confirm, HealthFollowsFailures
<1>6. ASSUME NEW b \in Backend, BackendRests(b) PROVE HealthFollowsFailures'
  BY <1>6, PoolTyped, HealthOfOperators DEF BackendRests, HealthFollowsFailures
<1>7. ASSUME NEW b \in Backend, NEW on \in BOOLEAN, SetBackendEnabled(b, on) PROVE HealthFollowsFailures'
  BY <1>7, PoolTyped, HealthOfOperators DEF SetBackendEnabled, HealthFollowsFailures
<1> QED
  BY <1>1, <1>2, <1>3, <1>4, <1>5, <1>6, <1>7, Writers DEF Written, Writes_pool

\* A backend is down exactly when its failures in a row have reached the
\* threshold, whichever links, timers and administrators report on it.
THEOREM BackendsAreDownInTime == Spec => []HealthFollowsFailures
<1>1. Init => HealthFollowsFailures
  BY ThresholdIsPositive DEF Init, HealthFollowsFailures, NewPool
<1>2. TypeInv /\ RefInv /\ HealthFollowsFailures /\ [Next]_vars => HealthFollowsFailures'
  <2>1. ASSUME HealthFollowsFailures, UNCHANGED vars PROVE HealthFollowsFailures'
    BY <2>1 DEF HealthFollowsFailures, vars
  <2> QED
    BY <2>1, HealthStaysTrue
<1> QED
  BY Foundation, <1>1, <1>2, PTL DEF Spec

-----------------------------------------------------------------------------
(* The tables of sessions.                                                 *)

\* A registered session keeps its client and its backend.
NamesLast ==
  \A s \in Attempt : Registered(s) =>
    sess'[s].client = sess[s].client /\ sess'[s].target = sess[s].target

\* Nothing changes them.
LEMMA NamesOfRegisteredLast ==
  ASSUME TypeInv, RefInv, Next
  PROVE  NamesLast
<1>1. CASE UNCHANGED <<sess>>
  BY <1>1 DEF NamesLast
<1>2. ASSUME Request PROVE NamesLast
  <2>1. /\ attempts + 1 \in Attempt /\ ~Registered(attempts + 1)
        /\ sess' = [sess EXCEPT ![attempts + 1].client = asking]
    BY <1>2, AttemptsTyped
       DEF Request, At, TypeInv, LoopInv, AttemptInv, Deciding, Unseen, Seen, Registered, NewSession
  <2> QED
    BY <2>1, SessionsTyped DEF NamesLast, Session
<1>3. ASSUME TakeRedirect \/ PickBackend PROVE NamesLast
  BY <1>3, ChoosesTarget DEF TargetChosen, NamesLast
<1>4. ASSUME Register PROVE NamesLast
  <2>1. ~Registered(task[Loop].s)
    BY <1>4 DEF Register, At, TypeInv, LoopInv, Deciding, Unseen, Seen
  <2> QED
    BY <1>4, <2>1, SessionsTyped DEF Register, NamesLast, Session
<1>5. ASSUME Attach PROVE NamesLast
  <2>1. NamesKept
    BY <1>5, NamesAreKept
  <2> QED
    BY <2>1 DEF NamesKept, NamesLast
<1>6. ASSUME ClientReady PROVE NamesLast
  <2>1. NamesKept
    BY <1>6, NamesAreKept
  <2> QED
    BY <2>1 DEF NamesKept, NamesLast
<1>7. ASSUME NEW t \in Thread, DropBegin(t) PROVE NamesLast
  <2>1. NamesKept
    BY <1>7, NamesAreKept
  <2> QED
    BY <2>1 DEF NamesKept, NamesLast
<1>8. ASSUME NEW t \in Thread, Uncount(t) PROVE NamesLast
  <2>1. NamesKept
    BY <1>8, NamesAreKept
  <2> QED
    BY <2>1 DEF NamesKept, NamesLast
<1>9. ASSUME NEW k \in Attempt, Activate(k) PROVE NamesLast
  <2>1. NamesKept
    BY <1>9, NamesAreKept
  <2> QED
    BY <2>1 DEF NamesKept, NamesLast
<1>10. ASSUME NEW k \in Attempt, NEW b \in Backend, BackendAccepts(k, b) PROVE NamesLast
  <2>1. NamesKept
    BY <1>10, NamesAreKept
  <2> QED
    BY <2>1 DEF NamesKept, NamesLast
<1> QED
  BY <1>1, <1>2, <1>3, <1>4, <1>5, <1>6, <1>7, <1>8, <1>9, <1>10, Writers DEF Written, Writes_sess

\* The tables go on agreeing.
LEMMA TablesStillAgree ==
  ASSUME TypeInv, RefInv, TablesAgree, NamesLast, Next
  PROVE  TablesAgree'
<1>1. CASE UNCHANGED <<byAddr, byID>>
  BY <1>1, NamedAttempts DEF RefInv, TablesRefer, NamesLast, TablesAgree
<1>2. ASSUME Register PROVE TablesAgree'
  <2>1. attempts \in Attempt /\ sess[attempts].client = asking /\ asking \in Client /\ ~Registered(attempts)
    BY <1>2, RegisterRegisters, ClientsTyped DEF Register, At, TypeInv, LoopInv, Deciding, Unseen,
       Seen
  <2>2. sess'[attempts].client = asking
    BY <1>2, <2>1, SessionsTyped DEF Register, Session
  <2>3. byAddr' = [byAddr EXCEPT ![asking] = attempts] /\ byID' = byID \cup {attempts}
    BY <1>2, RegisterRegisters
  <2> QED
    BY <2>1, <2>2, <2>3, NamedAttempts, ClientsTyped DEF RefInv, TablesRefer, NamesLast, TablesAgree
<1>3. ASSUME NEW t \in Thread, Forget(t) PROVE TablesAgree'
  <2>1. task[t].s \in Attempt
    BY <1>3, AtWork DEF Forget, At, TypeInv, Resting
  <2>2. /\ byAddr' = [byAddr EXCEPT ![sess[task[t].s].client] = Nobody]
        /\ byID' = byID \ {task[t].s} /\ sess' = sess
    BY <1>3 DEF Forget
  <2> QED
    BY <2>1, <2>2, ClientsTyped DEF TablesAgree
<1> QED
  BY <1>1, <1>2, <1>3, Writers DEF Written, Writes_byAddr, Writes_byID

\* An address leads to a session of that address that the other table has
\* too, however registrations and drops of several goroutines interleave.
THEOREM AddressesLeadToSessions == Spec => []TablesAgree
<1>1. Init => TablesAgree
  BY DEF Init, TablesAgree
<1>2. TypeInv /\ RefInv /\ TablesAgree /\ [Next]_vars => TablesAgree'
  <2>1. ASSUME TablesAgree, UNCHANGED vars PROVE TablesAgree'
    BY <2>1 DEF TablesAgree, vars
  <2> QED
    BY <2>1, TablesStillAgree, NamesOfRegisteredLast
<1> QED
  BY Foundation, <1>1, <1>2, PTL DEF Spec

-----------------------------------------------------------------------------
(* A session is dropped once.                                              *)

\* No two timers are one.
LEMMA TimersDiffer ==
  /\ \A s, r \in Attempt : Timer(s) = Timer(r) => s = r
  /\ \A s, k \in Attempt : Timer(s) # Up(k)
  /\ \A s \in Attempt : Timer(s) \in Thread /\ Timer(s) \notin {Loop, Console, Relay, Closer}
  BY DEF Timer, Up, Thread, Loop, Console, Relay, Closer

\* Timers stay with their sessions.
LEMMA TimersKept ==
  ASSUME TypeInv, RefInv, TimerInv, Next
  PROVE  TimerInv'
<1>1. CASE UNCHANGED <<task>>
  BY <1>1 DEF TimerInv
<1>2. ASSUME NEW c \in Client, ConnectRequest(c) PROVE TimerInv'
  <2>1. \A r \in Attempt : task'[Timer(r)] = task[Timer(r)]
    BY <1>2, ConnectRequestMoves, TimersDiffer DEF Moves
  <2> QED
    BY <2>1 DEF TimerInv
<1>3. ASSUME NEW c \in Client, ClientGone(c) PROVE TimerInv'
  <2>1. \A r \in Attempt : task'[Timer(r)] = task[Timer(r)]
    BY <1>3, ClientGoneMoves, TimersDiffer DEF Moves
  <2> QED
    BY <2>1 DEF TimerInv
<1>4. ASSUME Request PROVE TimerInv'
  <2>1. \A r \in Attempt : task'[Timer(r)] = task[Timer(r)]
    BY <1>4, RequestMoves, TimersDiffer DEF Moves
  <2> QED
    BY <2>1 DEF TimerInv
<1>5. ASSUME Check PROVE TimerInv'
  <2>1. \A r \in Attempt : task'[Timer(r)] = task[Timer(r)]
    BY <1>5, CheckMoves, TimersDiffer DEF Moves
  <2> QED
    BY <2>1 DEF TimerInv
<1>6. ASSUME TakeRedirect PROVE TimerInv'
  <2>1. \A r \in Attempt : task'[Timer(r)] = task[Timer(r)]
    BY <1>6, TakeRedirectMoves, TimersDiffer DEF Moves
  <2> QED
    BY <2>1 DEF TimerInv
<1>7. ASSUME PickBackend PROVE TimerInv'
  <2>1. \A r \in Attempt : task'[Timer(r)] = task[Timer(r)]
    BY <1>7, PickBackendMoves, TimersDiffer DEF Moves
  <2> QED
    BY <2>1 DEF TimerInv
<1>8. ASSUME Register PROVE TimerInv'
  <2>1. \A r \in Attempt : task'[Timer(r)] = task[Timer(r)]
    BY <1>8, RegisterMoves, TimersDiffer DEF Moves
  <2> QED
    BY <2>1 DEF TimerInv
<1>9. ASSUME Acquire PROVE TimerInv'
  <2>1. \A r \in Attempt : task'[Timer(r)] = task[Timer(r)]
    BY <1>9, AcquireMoves, TimersDiffer DEF Moves
  <2> QED
    BY <2>1 DEF TimerInv
<1>10. ASSUME ReuseLink PROVE TimerInv'
  <2>1. \A r \in Attempt : task'[Timer(r)] = task[Timer(r)]
    BY <1>10, ReuseLinkMoves, TimersDiffer DEF Moves
  <2> QED
    BY <2>1 DEF TimerInv
<1>11. ASSUME OpenLink PROVE TimerInv'
  <2>1. \A r \in Attempt : task'[Timer(r)] = task[Timer(r)]
    BY <1>11, OpenLinkMoves, TimersDiffer DEF Moves
  <2> QED
    BY <2>1 DEF TimerInv
<1>12. ASSUME OpenLinkFails PROVE TimerInv'
  <2>1. \A r \in Attempt : task'[Timer(r)] = task[Timer(r)]
    BY <1>12, OpenLinkFailsMoves, TimersDiffer DEF Moves
  <2> QED
    BY <2>1 DEF TimerInv
<1>13. ASSUME Bind PROVE TimerInv'
  <2>1. \A r \in Attempt : task'[Timer(r)] = task[Timer(r)]
    BY <1>13, BindMoves, TimersDiffer DEF Moves
  <2> QED
    BY <2>1 DEF TimerInv
<1>14. ASSUME Attach PROVE TimerInv'
  <2>1. \A r \in Attempt : task'[Timer(r)] = task[Timer(r)]
    BY <1>14, AttachMoves, TimersDiffer DEF Moves
  <2> QED
    BY <2>1 DEF TimerInv
<1>15. ASSUME Dial PROVE TimerInv'
  <2>1. \A r \in Attempt : task'[Timer(r)] = task[Timer(r)]
    BY <1>15, DialMoves, TimersDiffer DEF Moves
  <2> QED
    BY <2>1 DEF TimerInv
<1>16. ASSUME ClientReady PROVE TimerInv'
  <2>1. \A r \in Attempt : task'[Timer(r)] = task[Timer(r)]
    BY <1>16, ClientReadyMoves, TimersDiffer DEF Moves
  <2> QED
    BY <2>1 DEF TimerInv
<1>17. ASSUME RunAccept PROVE TimerInv'
  <2>1. \A r \in Attempt : task'[Timer(r)] = task[Timer(r)]
    BY <1>17, RunAcceptMoves, TimersDiffer DEF Moves
  <2> QED
    BY <2>1 DEF TimerInv
<1>18. ASSUME RunDisconnect PROVE TimerInv'
  <2>1. \A r \in Attempt : task'[Timer(r)] = task[Timer(r)]
    BY <1>18, RunDisconnectMoves, TimersDiffer DEF Moves
  <2> QED
    BY <2>1 DEF TimerInv
<1>19. ASSUME NEW t \in Thread, CloseSession(t) PROVE TimerInv'
  <2>1. /\ task'[t].s \in {task[t].s, Nobody} \/ task[t].todo # {}
        /\ task[t].todo = {} => task'[t].todo = {}
        /\ \A u \in Thread : u # t => task'[u] = task[u]
    BY <1>19, CloseSessionMoves DEF Moves, Returns
  <2> QED
    BY <2>1, TimersDiffer DEF TimerInv
<1>20. ASSUME NEW t \in Thread, DropBegin(t) PROVE TimerInv'
  <2>1. /\ task'[t].s \in {task[t].s, Nobody} \/ task[t].todo # {}
        /\ task[t].todo = {} => task'[t].todo = {}
        /\ \A u \in Thread : u # t => task'[u] = task[u]
    BY <1>20, DropBeginMoves DEF Moves
  <2> QED
    BY <2>1, TimersDiffer DEF TimerInv
<1>21. ASSUME NEW t \in Thread, DropWaited(t) PROVE TimerInv'
  <2>1. /\ task'[t].s \in {task[t].s, Nobody} \/ task[t].todo # {}
        /\ task[t].todo = {} => task'[t].todo = {}
        /\ \A u \in Thread : u # t => task'[u] = task[u]
    BY <1>21, DropWaitedMoves DEF Moves, Returns
  <2> QED
    BY <2>1, TimersDiffer DEF TimerInv
<1>22. ASSUME NEW t \in Thread, ReleaseLink(t) PROVE TimerInv'
  <2>1. /\ task'[t].s \in {task[t].s, Nobody} \/ task[t].todo # {}
        /\ task[t].todo = {} => task'[t].todo = {}
        /\ \A u \in Thread : u # t => task'[u] = task[u]
    BY <1>22, ReleaseLinkMoves DEF Moves
  <2> QED
    BY <2>1, TimersDiffer DEF TimerInv
<1>23. ASSUME NEW t \in Thread, Forget(t) PROVE TimerInv'
  <2>1. /\ task'[t].s \in {task[t].s, Nobody} \/ task[t].todo # {}
        /\ task[t].todo = {} => task'[t].todo = {}
        /\ \A u \in Thread : u # t => task'[u] = task[u]
    BY <1>23, ForgetMoves DEF Moves
  <2> QED
    BY <2>1, TimersDiffer DEF TimerInv
<1>24. ASSUME NEW t \in Thread, Uncount(t) PROVE TimerInv'
  <2>1. /\ task'[t].s \in {task[t].s, Nobody} \/ task[t].todo # {}
        /\ task[t].todo = {} => task'[t].todo = {}
        /\ \A u \in Thread : u # t => task'[u] = task[u]
    BY <1>24, UncountMoves DEF Moves, Returns
  <2> QED
    BY <2>1, TimersDiffer DEF TimerInv
<1>25. ASSUME NEW t \in Thread, Refused(t) PROVE TimerInv'
  <2>1. /\ task'[t].s \in {task[t].s, Nobody} \/ task[t].todo # {}
        /\ task[t].todo = {} => task'[t].todo = {}
        /\ \A u \in Thread : u # t => task'[u] = task[u]
    BY <1>25, RefusedMoves DEF Moves
  <2> QED
    BY <2>1, TimersDiffer DEF TimerInv
<1>26. ASSUME NEW t \in Thread, Failed(t) PROVE TimerInv'
  <2>1. /\ task'[t].s \in {task[t].s, Nobody} \/ task[t].todo # {}
        /\ task[t].todo = {} => task'[t].todo = {}
        /\ \A u \in Thread : u # t => task'[u] = task[u]
    BY <1>26, FailedMoves DEF Moves
  <2> QED
    BY <2>1, TimersDiffer DEF TimerInv
<1>27. ASSUME NEW k \in Attempt, Activate(k) PROVE TimerInv'
  <2>1. \A r \in Attempt : task'[Timer(r)] = task[Timer(r)]
    BY <1>27, ActivateMoves, TimersDiffer DEF Moves
  <2> QED
    BY <2>1 DEF TimerInv
<1>28. ASSUME NEW k \in Attempt, Confirm(k) PROVE TimerInv'
  <2>1. \A r \in Attempt : task'[Timer(r)] = task[Timer(r)]
    BY <1>28, ConfirmMoves, TimersDiffer DEF Moves
  <2> QED
    BY <2>1 DEF TimerInv
<1>29. ASSUME NEW k \in Attempt, RunUpDisconnect(k) PROVE TimerInv'
  <2>1. \A r \in Attempt : task'[Timer(r)] = task[Timer(r)]
    BY <1>29, RunUpDisconnectMoves, TimersDiffer DEF Moves
  <2> QED
    BY <2>1 DEF TimerInv
<1>30. ASSUME NEW k \in Attempt, NEW b \in Backend, BackendAccepts(k, b) PROVE TimerInv'
  <2>1. \A r \in Attempt : task'[Timer(r)] = task[Timer(r)]
    BY <1>30, BackendAcceptsMoves, TimersDiffer DEF Moves
  <2> QED
    BY <2>1 DEF TimerInv
<1>31. ASSUME NEW k \in Attempt, NEW b \in Backend, NEW rejected \in BOOLEAN, DialFails(k, b, rejected) PROVE TimerInv'
  <2>1. \A r \in Attempt : task'[Timer(r)] = task[Timer(r)]
    BY <1>31, DialFailsMoves, TimersDiffer DEF Moves
  <2> QED
    BY <2>1 DEF TimerInv
<1>32. ASSUME NEW k \in Attempt, NEW b \in Backend, BackendGone(k, b) PROVE TimerInv'
  <2>1. \A r \in Attempt : task'[Timer(r)] = task[Timer(r)]
    BY <1>32, BackendGoneMoves, TimersDiffer DEF Moves
  <2> QED
    BY <2>1 DEF TimerInv
<1>33. ASSUME NEW s \in Attempt, TimerFires(s) PROVE TimerInv'
  <2>1. /\ task'[Timer(s)].s = s /\ task'[Timer(s)].todo = task[Timer(s)].todo
        /\ \A u \in Thread : u # Timer(s) => task'[u] = task[u]
    BY <1>33, TimerFiresMoves DEF Moves
  <2> QED
    BY <2>1, TimersDiffer DEF TimerInv
<1>34. ASSUME NEW s \in Attempt, RelayBreaks(s) PROVE TimerInv'
  <2>1. \A r \in Attempt : task'[Timer(r)] = task[Timer(r)]
    BY <1>34, RelayBreaksMoves, TimersDiffer DEF Moves
  <2> QED
    BY <2>1 DEF TimerInv
<1>35. ASSUME NEW s \in Attempt, Kick(s) PROVE TimerInv'
  <2>1. \A r \in Attempt : task'[Timer(r)] = task[Timer(r)]
    BY <1>35, KickMoves, TimersDiffer DEF Moves
  <2> QED
    BY <2>1 DEF TimerInv
<1>36. ASSUME NEW s \in Attempt, NEW b \in Backend, Move(s, b) PROVE TimerInv'
  <2>1. \A r \in Attempt : task'[Timer(r)] = task[Timer(r)]
    BY <1>36, MoveMoves, TimersDiffer DEF Moves
  <2> QED
    BY <2>1 DEF TimerInv
<1>37. ASSUME NEW ip \in IP, Ban(ip) PROVE TimerInv'
  <2>1. \A r \in Attempt : task'[Timer(r)] = task[Timer(r)]
    BY <1>37, BanMoves, TimersDiffer DEF Moves
  <2> QED
    BY <2>1 DEF TimerInv
<1>38. ASSUME CloseProxy PROVE TimerInv'
  <2>1. \A r \in Attempt : task'[Timer(r)] = task[Timer(r)]
    BY <1>38, CloseProxyMoves, TimersDiffer DEF Moves
  <2> QED
    BY <2>1 DEF TimerInv
<1>39. ASSUME StopListening PROVE TimerInv'
  <2>1. \A r \in Attempt : task'[Timer(r)] = task[Timer(r)]
    BY <1>39, StopListeningMoves, TimersDiffer DEF Moves
  <2> QED
    BY <2>1 DEF TimerInv
<1>40. ASSUME StopAllLinks PROVE TimerInv'
  <2>1. \A r \in Attempt : task'[Timer(r)] = task[Timer(r)]
    BY <1>40, StopAllLinksMoves, TimersDiffer DEF Moves
  <2> QED
    BY <2>1 DEF TimerInv
<1>41. ASSUME LinksStopped PROVE TimerInv'
  <2>1. \A r \in Attempt : task'[Timer(r)] = task[Timer(r)]
    BY <1>41, LinksStoppedMoves, TimersDiffer DEF Moves
  <2> QED
    BY <2>1 DEF TimerInv
<1> QED
  BY <1>1, <1>2, <1>3, <1>4, <1>5, <1>6, <1>7, <1>8, <1>9, <1>10, <1>11, <1>12, <1>13, <1>14,
     <1>15, <1>16, <1>17, <1>18, <1>19, <1>20, <1>21, <1>22, <1>23, <1>24, <1>25, <1>26, <1>27,
     <1>28, <1>29, <1>30, <1>31, <1>32, <1>33, <1>34, <1>35, <1>36, <1>37, <1>38, <1>39, <1>40,
     <1>41, Writers DEF Written, Writes_task

\* Who drops what does not change.
DroppersStay ==
  \A t \in Thread :
    /\ task'[t].pc \in Drops <=> task[t].pc \in Drops
    /\ task[t].pc \in Drops => task'[t].s = task[t].s

\* Nor does how far sessions have got.
StagesStay ==
  \A s \in Attempt :
    sess'[s].once = sess[s].once /\ (sess'[s].st = "closed" <=> sess[s].st = "closed")

\* Where nobody starts or ends a drop, sessions are dropped as before.
LEMMA DropStays ==
  ASSUME TypeInv, RefInv, DropInv, DroppersStay, StagesStay
  PROVE  DropInv'
<1>1. \A t \in Thread : task[t].pc \in Drops => task[t].s \in Attempt
  BY AtWork DEF TypeInv, Drops, Resting
<1>2. ASSUME NEW t \in Thread, task'[t].pc \in Drops
      PROVE  task[t].pc \in Drops /\ task'[t].s = task[t].s /\ sess'[task'[t].s].once = "running"
  BY <1>1, <1>2 DEF DropInv, Dropping, DroppersStay, StagesStay
<1>3. ASSUME NEW s \in Attempt, sess'[s].once = "running"
      PROVE  \E t \in Thread : task'[t].pc \in Drops /\ task'[t].s = s
  BY <1>3 DEF DropInv, Dropping, DroppersStay, StagesStay
<1>4. \A s \in Attempt : sess'[s].once = "no" <=> sess'[s].st # "closed"
  BY DEF DropInv, StagesStay
<1>5. ASSUME NEW t \in Thread, NEW u \in Thread, task'[t].pc \in Drops, task'[u].pc \in Drops, task'[t].s = task'[u].s
      PROVE  t = u
  BY <1>2, <1>5 DEF DropInv, Dropping
<1> QED
  BY <1>2, <1>3, <1>4, <1>5 DEF DropInv, Dropping

\* One goroutine drops a session, once.
LEMMA DropKept ==
  ASSUME TypeInv, RefInv, TimerInv, DropInv, Next
  PROVE  DropInv'
<1>1. CASE UNCHANGED <<sess, task>>
  <2>1. DroppersStay /\ StagesStay
    BY <1>1 DEF DroppersStay, StagesStay
  <2> QED
    BY <2>1, DropStays
<1>2. ASSUME NEW c \in Client, ConnectRequest(c) PROVE DropInv'
  <2>2. DroppersStay
    BY <1>2, ConnectRequestMoves, Threads DEF Moves, ConnectRequest, At, LoopFree, Drops,
       DroppersStay
  <2>3. StagesStay
    BY <1>2 DEF StagesStay, ConnectRequest
  <2> QED
    BY <2>2, <2>3, DropStays
<1>3. ASSUME NEW c \in Client, ClientGone(c) PROVE DropInv'
  <2>2. DroppersStay
    BY <1>3, ClientGoneMoves, Threads DEF Moves, ClientGone, At, LoopFree, Drops, DroppersStay
  <2>3. StagesStay
    BY <1>3 DEF StagesStay, ClientGone
  <2> QED
    BY <2>2, <2>3, DropStays
<1>4. ASSUME Request PROVE DropInv'
  <2>2. DroppersStay
    BY <1>4, RequestMoves, Threads DEF Moves, Request, At, Drops, DroppersStay
  <2>3. StagesStay
    BY <1>4, SessionsTyped DEF StagesStay, Request, Session
  <2> QED
    BY <2>2, <2>3, DropStays
<1>5. ASSUME Check PROVE DropInv'
  <2>2. DroppersStay
    BY <1>5, CheckMoves, Threads DEF Moves, Check, At, Drops, DroppersStay
  <2>3. StagesStay
    BY <1>5 DEF StagesStay, Check
  <2> QED
    BY <2>2, <2>3, DropStays
<1>6. ASSUME TakeRedirect PROVE DropInv'
  <2>2. DroppersStay
    BY <1>6, TakeRedirectMoves, Threads DEF Moves, TakeRedirect, At, Drops, DroppersStay
  <2>3. StagesStay
    BY <1>6, ChoosesTarget DEF StagesStay, TargetChosen
  <2> QED
    BY <2>2, <2>3, DropStays
<1>7. ASSUME PickBackend PROVE DropInv'
  <2>2. DroppersStay
    BY <1>7, PickBackendMoves, Threads DEF Moves, PickBackend, At, Drops, DroppersStay
  <2>3. StagesStay
    BY <1>7, ChoosesTarget DEF StagesStay, TargetChosen
  <2> QED
    BY <2>2, <2>3, DropStays
<1>8. ASSUME Register PROVE DropInv'
  <2>2. DroppersStay
    BY <1>8, RegisterMoves, Threads DEF Moves, Register, At, Drops, DroppersStay
  <2>3. ~Registered(task[Loop].s)
    BY <1>8 DEF Register, At, TypeInv, LoopInv, Deciding, Unseen, Seen
  <2>4. StagesStay
    BY <1>8, <2>3, SessionsTyped DEF StagesStay, Register, Registered, Session
  <2> QED
    BY <2>2, <2>4, DropStays
<1>9. ASSUME Acquire PROVE DropInv'
  <2>2. DroppersStay
    BY <1>9, AcquireMoves, Threads DEF Moves, Acquire, At, Drops, DroppersStay
  <2>3. StagesStay
    BY <1>9 DEF StagesStay, Acquire
  <2> QED
    BY <2>2, <2>3, DropStays
<1>10. ASSUME ReuseLink PROVE DropInv'
  <2>2. DroppersStay
    BY <1>10, ReuseLinkMoves, Threads DEF Moves, ReuseLink, At, Drops, DroppersStay
  <2>3. StagesStay
    BY <1>10 DEF StagesStay, ReuseLink
  <2> QED
    BY <2>2, <2>3, DropStays
<1>11. ASSUME OpenLink PROVE DropInv'
  <2>2. DroppersStay
    BY <1>11, OpenLinkMoves, Threads DEF Moves, OpenLink, At, Drops, DroppersStay
  <2>3. StagesStay
    BY <1>11 DEF StagesStay, OpenLink
  <2> QED
    BY <2>2, <2>3, DropStays
<1>12. ASSUME OpenLinkFails PROVE DropInv'
  <2>2. DroppersStay
    BY <1>12, OpenLinkFailsMoves, Threads DEF Moves, OpenLinkFails, At, Drops, DroppersStay
  <2>3. StagesStay
    BY <1>12 DEF StagesStay, OpenLinkFails
  <2> QED
    BY <2>2, <2>3, DropStays
<1>13. ASSUME Bind PROVE DropInv'
  <2>2. DroppersStay
    BY <1>13, BindMoves, Threads DEF Moves, Bind, At, Drops, DroppersStay
  <2>3. StagesStay
    BY <1>13 DEF StagesStay, Bind
  <2> QED
    BY <2>2, <2>3, DropStays
<1>14. ASSUME Attach PROVE DropInv'
  <2>2. DroppersStay
    BY <1>14, AttachMoves, Threads DEF Moves, Attach, At, Drops, DroppersStay
  <2>3. StagesStay
    BY <1>14, SessionsTyped DEF StagesStay, Attach, Session
  <2> QED
    BY <2>2, <2>3, DropStays
<1>15. ASSUME Dial PROVE DropInv'
  <2>2. DroppersStay
    BY <1>15, DialMoves, Threads DEF Moves, Dial, At, Drops, DroppersStay
  <2>3. StagesStay
    BY <1>15 DEF StagesStay, Dial
  <2> QED
    BY <2>2, <2>3, DropStays
<1>16. ASSUME ClientReady PROVE DropInv'
  <2>2. DroppersStay
    BY <1>16, ClientReadyMoves, Threads DEF Moves, ClientReady, At, Drops, DroppersStay
  <2>3. StagesStay
    BY <1>16, SessionsTyped DEF StagesStay, ClientReady, Session
  <2> QED
    BY <2>2, <2>3, DropStays
<1>17. ASSUME RunAccept PROVE DropInv'
  <2>2. DroppersStay
    BY <1>17, RunAcceptMoves, Threads DEF Moves, RunAccept, At, LoopFree, Drops, DroppersStay
  <2>3. StagesStay
    BY <1>17 DEF StagesStay, RunAccept
  <2> QED
    BY <2>2, <2>3, DropStays
<1>18. ASSUME RunDisconnect PROVE DropInv'
  <2>2. DroppersStay
    BY <1>18, RunDisconnectMoves, Threads DEF Moves, RunDisconnect, At, LoopFree, Drops,
       DroppersStay
  <2>3. StagesStay
    BY <1>18 DEF StagesStay, RunDisconnect
  <2> QED
    BY <2>2, <2>3, DropStays
<1>19. ASSUME NEW t \in Thread, CloseSession(t) PROVE DropInv'
  <2>2. DroppersStay
    BY <1>19, CloseSessionMoves, Departures, Threads DEF Moves, Returns, Drops, DroppersStay
  <2>3. StagesStay
    BY <1>19 DEF StagesStay, CloseSession
  <2> QED
    BY <2>2, <2>3, DropStays
<1>20. ASSUME NEW t \in Thread, DropBegin(t) PROVE DropInv'
  <2> DEFINE s == task[t].s
  <2>1. s \in Attempt /\ sess[s].once = "no" /\ task[t].pc = "drop"
    BY <1>20, AtWork DEF DropBegin, At, TypeInv, Resting
  <2>2. /\ sess'[s].st = "closed" /\ sess'[s].once = "running"
        /\ \A r \in Attempt : r # s => sess'[r] = sess[r]
    BY <1>20, <2>1, SessionsTyped DEF DropBegin, Session
  <2>3. /\ task'[t].pc \in Drops /\ task'[t].s = s
        /\ \A u \in Thread : u # t => task'[u] = task[u]
    BY <1>20, DropBeginMoves DEF Moves, Drops
  <2> HIDE DEF s
  <2>4. \A u \in Thread : task[u].pc \in Drops => task[u].s # s /\ u # t /\ task[u].s \in Attempt
    BY <2>1, AtWork DEF DropInv, Dropping, Drops, TypeInv, Resting
  <2>5. ASSUME NEW u \in Thread, task'[u].pc \in Drops
        PROVE  sess'[task'[u].s].once = "running"
    BY <2>2, <2>3, <2>4, <2>5 DEF DropInv, Dropping
  <2>6. ASSUME NEW u \in Thread, NEW v \in Thread, task'[u].pc \in Drops, task'[v].pc \in Drops, task'[u].s = task'[v].s
        PROVE  u = v
    BY <2>3, <2>4, <2>6 DEF DropInv, Dropping
  <2>7. \A r \in Attempt : sess'[r].once = "no" <=> sess'[r].st # "closed"
    BY <2>2 DEF DropInv
  <2>8. ASSUME NEW r \in Attempt, sess'[r].once = "running"
        PROVE  \E u \in Thread : task'[u].pc \in Drops /\ task'[u].s = r
    <3>1. CASE r = s
      BY <2>3, <3>1
    <3>2. CASE r # s
      <4>1. PICK u \in Thread : task[u].pc \in Drops /\ task[u].s = r
        BY <2>2, <2>8, <3>2 DEF DropInv, Dropping
      <4> QED
        BY <2>3, <2>4, <4>1
    <3> QED
      BY <3>1, <3>2
  <2> QED
    BY <2>5, <2>6, <2>7, <2>8 DEF DropInv, Dropping
<1>21. ASSUME NEW t \in Thread, DropWaited(t) PROVE DropInv'
  <2>2. DroppersStay
    BY <1>21, DropWaitedMoves, Departures, Threads DEF Moves, Returns, Drops, DroppersStay
  <2>3. StagesStay
    BY <1>21 DEF StagesStay, DropWaited
  <2> QED
    BY <2>2, <2>3, DropStays
<1>22. ASSUME NEW t \in Thread, ReleaseLink(t) PROVE DropInv'
  <2>2. DroppersStay
    BY <1>22, ReleaseLinkMoves, Departures, Threads DEF Moves, Drops, DroppersStay
  <2>3. StagesStay
    BY <1>22 DEF StagesStay, ReleaseLink
  <2> QED
    BY <2>2, <2>3, DropStays
<1>23. ASSUME NEW t \in Thread, Forget(t) PROVE DropInv'
  <2>2. DroppersStay
    BY <1>23, ForgetMoves, Departures, Threads DEF Moves, Drops, DroppersStay
  <2>3. StagesStay
    BY <1>23 DEF StagesStay, Forget
  <2> QED
    BY <2>2, <2>3, DropStays
<1>24. ASSUME NEW t \in Thread, Uncount(t) PROVE DropInv'
  <2> DEFINE s == task[t].s
  <2>1. s \in Attempt /\ task[t].pc \in Drops
    BY <1>24, AtWork DEF Uncount, At, TypeInv, Resting, Drops
  <2>2. /\ sess'[s].st = sess[s].st /\ sess'[s].once = "done" /\ sess[s].once = "running"
        /\ \A r \in Attempt : r # s => sess'[r] = sess[r]
    BY <1>24, <2>1, SessionsTyped DEF Uncount, Session, DropInv, Dropping
  <2>3. /\ task'[t].pc \notin Drops
        /\ \A u \in Thread : u # t => task'[u] = task[u]
    BY <1>24, UncountMoves DEF Moves, Returns, Drops
  <2> HIDE DEF s
  <2>4. \A u \in Thread : task[u].pc \in Drops /\ u # t => task[u].s # s /\ task[u].s \in Attempt
    BY <2>1, AtWork DEF s, DropInv, Dropping, Drops, TypeInv, Resting
  <2>5. ASSUME NEW u \in Thread, task'[u].pc \in Drops
        PROVE  sess'[task'[u].s].once = "running"
    BY <2>2, <2>3, <2>4, <2>5 DEF DropInv, Dropping
  <2>6. ASSUME NEW u \in Thread, NEW v \in Thread, task'[u].pc \in Drops, task'[v].pc \in Drops, task'[u].s = task'[v].s
        PROVE  u = v
    BY <2>3, <2>4, <2>6 DEF DropInv, Dropping
  <2>7. \A r \in Attempt : sess'[r].once = "no" <=> sess'[r].st # "closed"
    BY <2>2 DEF DropInv
  <2>8. ASSUME NEW r \in Attempt, sess'[r].once = "running"
        PROVE  \E u \in Thread : task'[u].pc \in Drops /\ task'[u].s = r
    <3>1. r # s
      BY <2>2, <2>8
    <3>2. PICK u \in Thread : task[u].pc \in Drops /\ task[u].s = r
      BY <2>2, <2>8, <3>1 DEF DropInv, Dropping
    <3>3. u # t
      BY <3>1, <3>2 DEF s
    <3> QED
      BY <2>3, <3>2, <3>3
  <2> QED
    BY <2>5, <2>6, <2>7, <2>8 DEF DropInv, Dropping
<1>25. ASSUME NEW t \in Thread, Refused(t) PROVE DropInv'
  <2>2. DroppersStay
    BY <1>25, RefusedMoves, Departures, Threads DEF Moves, Drops, DroppersStay
  <2>3. StagesStay
    BY <1>25 DEF StagesStay, Refused
  <2> QED
    BY <2>2, <2>3, DropStays
<1>26. ASSUME NEW t \in Thread, Failed(t) PROVE DropInv'
  <2>2. DroppersStay
    BY <1>26, FailedMoves, Departures, Threads DEF Moves, Drops, DroppersStay
  <2>3. StagesStay
    BY <1>26 DEF StagesStay, Failed
  <2> QED
    BY <2>2, <2>3, DropStays
<1>27. ASSUME NEW k \in Attempt, Activate(k) PROVE DropInv'
  <2>2. DroppersStay
    BY <1>27, ActivateMoves, Threads DEF Moves, Activate, At, Drops, DroppersStay
  <2>3. StagesStay
    BY <1>27, SessionsTyped DEF StagesStay, Activate, Session
  <2> QED
    BY <2>2, <2>3, DropStays
<1>28. ASSUME NEW k \in Attempt, Confirm(k) PROVE DropInv'
  <2>2. DroppersStay
    BY <1>28, ConfirmMoves, Threads DEF Moves, Confirm, At, Drops, DroppersStay
  <2>3. StagesStay
    BY <1>28 DEF StagesStay, Confirm
  <2> QED
    BY <2>2, <2>3, DropStays
<1>29. ASSUME NEW k \in Attempt, RunUpDisconnect(k) PROVE DropInv'
  <2>2. DroppersStay
    BY <1>29, RunUpDisconnectMoves, Threads DEF Moves, RunUpDisconnect, At, UpFree, Drops,
       DroppersStay
  <2>3. StagesStay
    BY <1>29 DEF StagesStay, RunUpDisconnect
  <2> QED
    BY <2>2, <2>3, DropStays
<1>30. ASSUME NEW k \in Attempt, NEW b \in Backend, BackendAccepts(k, b) PROVE DropInv'
  <2>2. DroppersStay
    BY <1>30, BackendAcceptsMoves, Threads DEF Moves, BackendAccepts, At, UpFree, Drops,
       DroppersStay
  <2>3. StagesStay
    BY <1>30, SessionsTyped DEF StagesStay, BackendAccepts, Session
  <2> QED
    BY <2>2, <2>3, DropStays
<1>31. ASSUME NEW k \in Attempt, NEW b \in Backend, NEW rejected \in BOOLEAN, DialFails(k, b, rejected) PROVE DropInv'
  <2>2. DroppersStay
    BY <1>31, DialFailsMoves, Threads DEF Moves, DialFails, At, UpFree, Drops, DroppersStay
  <2>3. StagesStay
    BY <1>31 DEF StagesStay, DialFails
  <2> QED
    BY <2>2, <2>3, DropStays
<1>32. ASSUME NEW k \in Attempt, NEW b \in Backend, BackendGone(k, b) PROVE DropInv'
  <2>2. DroppersStay
    BY <1>32, BackendGoneMoves, Threads DEF Moves, BackendGone, At, UpFree, Drops, DroppersStay
  <2>3. StagesStay
    BY <1>32 DEF StagesStay, BackendGone
  <2> QED
    BY <2>2, <2>3, DropStays
<1>33. ASSUME NEW s \in Attempt, TimerFires(s) PROVE DropInv'
  <2>1. task[Timer(s)].pc \notin Drops
    <3>1. sess[s].once = "no" /\ task[Timer(s)].s \in {Nobody, s} /\ Timer(s) \in Thread
      BY <1>33, TimersDiffer DEF TimerFires, DropInv, TimerInv
    <3>2. task[Timer(s)].pc \in Drops => task[Timer(s)].s # Nobody
      BY <3>1, TasksTyped DEF Resting, Drops
    <3> QED
      BY <3>1, <3>2 DEF DropInv, Dropping
  <2>2. DroppersStay
    BY <1>33, <2>1, TimerFiresMoves DEF Moves, Drops, DroppersStay
  <2>3. StagesStay
    BY <1>33 DEF StagesStay, TimerFires
  <2> QED
    BY <2>2, <2>3, DropStays
<1>34. ASSUME NEW s \in Attempt, RelayBreaks(s) PROVE DropInv'
  <2>2. DroppersStay
    BY <1>34, RelayBreaksMoves, Threads DEF Moves, RelayBreaks, At, Drops, DroppersStay
  <2>3. StagesStay
    BY <1>34 DEF StagesStay, RelayBreaks
  <2> QED
    BY <2>2, <2>3, DropStays
<1>35. ASSUME NEW s \in Attempt, Kick(s) PROVE DropInv'
  <2>2. DroppersStay
    BY <1>35, KickMoves, Threads DEF Moves, Kick, At, ConsoleMay, Drops, DroppersStay
  <2>3. StagesStay
    BY <1>35 DEF StagesStay, Kick
  <2> QED
    BY <2>2, <2>3, DropStays
<1>36. ASSUME NEW s \in Attempt, NEW b \in Backend, Move(s, b) PROVE DropInv'
  <2>2. DroppersStay
    BY <1>36, MoveMoves, Threads DEF Moves, Move, At, ConsoleMay, Drops, DroppersStay
  <2>3. StagesStay
    BY <1>36 DEF StagesStay, Move
  <2> QED
    BY <2>2, <2>3, DropStays
<1>37. ASSUME NEW ip \in IP, Ban(ip) PROVE DropInv'
  <2>2. DroppersStay
    BY <1>37, BanMoves, Threads DEF Moves, Ban, At, ConsoleMay, Drops, DroppersStay
  <2>3. StagesStay
    BY <1>37 DEF StagesStay, Ban
  <2> QED
    BY <2>2, <2>3, DropStays
<1>38. ASSUME CloseProxy PROVE DropInv'
  <2>2. DroppersStay
    BY <1>38, CloseProxyMoves, Threads DEF Moves, CloseProxy, At, Drops, DroppersStay
  <2>3. StagesStay
    BY <1>38 DEF StagesStay, CloseProxy
  <2> QED
    BY <2>2, <2>3, DropStays
<1>39. ASSUME StopListening PROVE DropInv'
  <2>2. DroppersStay
    BY <1>39, StopListeningMoves, Threads DEF Moves, StopListening, At, Drops, DroppersStay
  <2>3. StagesStay
    BY <1>39 DEF StagesStay, StopListening
  <2> QED
    BY <2>2, <2>3, DropStays
<1>40. ASSUME StopAllLinks PROVE DropInv'
  <2>2. DroppersStay
    BY <1>40, StopAllLinksMoves, Threads DEF Moves, StopAllLinks, At, Drops, DroppersStay
  <2>3. StagesStay
    BY <1>40 DEF StagesStay, StopAllLinks
  <2> QED
    BY <2>2, <2>3, DropStays
<1>41. ASSUME LinksStopped PROVE DropInv'
  <2>2. DroppersStay
    BY <1>41, LinksStoppedMoves, Threads DEF Moves, LinksStopped, At, Drops, DroppersStay
  <2>3. StagesStay
    BY <1>41 DEF StagesStay, LinksStopped
  <2> QED
    BY <2>2, <2>3, DropStays
<1> QED
  BY <1>1, <1>2, <1>3, <1>4, <1>5, <1>6, <1>7, <1>8, <1>9, <1>10, <1>11, <1>12, <1>13, <1>14,
     <1>15, <1>16, <1>17, <1>18, <1>19, <1>20, <1>21, <1>22, <1>23, <1>24, <1>25, <1>26, <1>27,
     <1>28, <1>29, <1>30, <1>31, <1>32, <1>33, <1>34, <1>35, <1>36, <1>37, <1>38, <1>39, <1>40,
     <1>41, Writers DEF Written, Writes_sess, Writes_task

\* Nobody comes to take a session out of the counters, or is done with it.
UncountersStay ==
  \A t \in Thread :
    /\ task'[t].pc = "uncount" <=> task[t].pc = "uncount"
    /\ task[t].pc = "uncount" => task'[t].s = task[t].s

\* Sessions stay held.
HeldStay ==
  \A s \in Attempt :
    (sess'[s].st # "none" <=> sess[s].st # "none") /\ (sess'[s].once = "done" <=> sess[s].once = "done")

\* Where nobody comes to the counters or leaves them, the table is right as before.
LEMMA ListedStays ==
  ASSUME TypeInv, RefInv, ListedInv, UncountersStay, HeldStay, byID' = byID
  PROVE  ListedInv'
<1>1. ASSUME NEW s \in Attempt
      PROVE  (\A t \in Thread : task[t].pc = "uncount" => task[t].s # s)
             <=> (\A t \in Thread : task'[t].pc = "uncount" => task'[t].s # s)
  BY DEF UncountersStay
<1> QED
  BY <1>1 DEF ListedInv, Held, HeldStay, Registered, At

\* A session is listed until its dropper takes it out.
LEMMA ListedKept ==
  ASSUME TypeInv, RefInv, TimerInv, DropInv, ListedInv, Next
  PROVE  ListedInv'
<1>1. CASE UNCHANGED <<byID, sess, task>>
  <2>1. UncountersStay /\ HeldStay
    BY <1>1 DEF UncountersStay, HeldStay
  <2> QED
    BY <1>1, <2>1, ListedStays
<1>2. ASSUME NEW c \in Client, ConnectRequest(c) PROVE ListedInv'
  <2>2. UncountersStay
    BY <1>2, ConnectRequestMoves, Threads DEF Moves, ConnectRequest, At, LoopFree, UncountersStay
  <2>3. HeldStay /\ byID' = byID
    BY <1>2 DEF HeldStay, ConnectRequest
  <2> QED
    BY <2>2, <2>3, ListedStays
<1>3. ASSUME NEW c \in Client, ClientGone(c) PROVE ListedInv'
  <2>2. UncountersStay
    BY <1>3, ClientGoneMoves, Threads DEF Moves, ClientGone, At, LoopFree, UncountersStay
  <2>3. HeldStay /\ byID' = byID
    BY <1>3 DEF HeldStay, ClientGone
  <2> QED
    BY <2>2, <2>3, ListedStays
<1>4. ASSUME Request PROVE ListedInv'
  <2>2. UncountersStay
    BY <1>4, RequestMoves, Threads DEF Moves, Request, At, UncountersStay
  <2>3. HeldStay /\ byID' = byID
    BY <1>4, SessionsTyped DEF HeldStay, Request, Session
  <2> QED
    BY <2>2, <2>3, ListedStays
<1>5. ASSUME Check PROVE ListedInv'
  <2>2. UncountersStay
    BY <1>5, CheckMoves, Threads DEF Moves, Check, At, UncountersStay
  <2>3. HeldStay /\ byID' = byID
    BY <1>5 DEF HeldStay, Check
  <2> QED
    BY <2>2, <2>3, ListedStays
<1>6. ASSUME TakeRedirect PROVE ListedInv'
  <2>2. UncountersStay
    BY <1>6, TakeRedirectMoves, Threads DEF Moves, TakeRedirect, At, UncountersStay
  <2>3. HeldStay /\ byID' = byID
    BY <1>6, ChoosesTarget DEF HeldStay, TargetChosen, TakeRedirect
  <2> QED
    BY <2>2, <2>3, ListedStays
<1>7. ASSUME PickBackend PROVE ListedInv'
  <2>2. UncountersStay
    BY <1>7, PickBackendMoves, Threads DEF Moves, PickBackend, At, UncountersStay
  <2>3. HeldStay /\ byID' = byID
    BY <1>7, ChoosesTarget DEF HeldStay, TargetChosen, PickBackend
  <2> QED
    BY <2>2, <2>3, ListedStays
<1>8. ASSUME Register PROVE ListedInv'
  <2> DEFINE n == attempts
  <2>1. n \in Attempt /\ task[Loop].s = n /\ ~Registered(n) /\ task[Loop].pc = "register"
    BY <1>8, RegisterRegisters DEF Register, At, TypeInv, LoopInv, Deciding, Unseen, Seen
  <2>2. UncountersStay
    BY <1>8, RegisterMoves, Threads DEF Moves, Register, At, UncountersStay
  <2>3. sess'[n].st = "pending" /\ byID' = byID \cup {n}
    BY <1>8, RegisterRegisters
  <2>4. /\ sess'[n].once = sess[n].once
        /\ \A r \in Attempt : r # n => sess'[r] = sess[r]
    BY <1>8, <2>1, SessionsTyped DEF Register, Session
  <2>5. sess[n].once = "no"
    BY <2>1 DEF DropInv, Registered
  <2>6. \A t \in Thread : task[t].pc = "uncount" => task[t].s \in Attempt /\ Registered(task[t].s)
    BY InHandRegistered DEF Resting, Unseen
  <2>7. \A t \in Thread : task'[t].pc = "uncount" => task'[t].s # n
    BY <2>1, <2>2, <2>6 DEF UncountersStay
  <2>8. ASSUME NEW s \in Attempt, s # n
        PROVE  (\A t \in Thread : task[t].pc = "uncount" => task[t].s # s)
               <=> (\A t \in Thread : task'[t].pc = "uncount" => task'[t].s # s)
    BY <2>2 DEF UncountersStay
  <2>9. ASSUME NEW s \in Attempt
        PROVE  s \in byID' <=> /\ sess'[s].st # "none" /\ sess'[s].once # "done"
                              /\ \A t \in Thread : task'[t].pc = "uncount" => task'[t].s # s
    <3>1. CASE s = n
      BY <2>3, <2>4, <2>5, <2>7, <3>1
    <3>2. CASE s # n
      BY <2>3, <2>4, <2>8, <3>2 DEF ListedInv, Held, Registered, At
    <3> QED
      BY <3>1, <3>2
  <2> QED
    BY <2>9 DEF ListedInv, Held, Registered, At
<1>9. ASSUME Acquire PROVE ListedInv'
  <2>2. UncountersStay
    BY <1>9, AcquireMoves, Threads DEF Moves, Acquire, At, UncountersStay
  <2>3. HeldStay /\ byID' = byID
    BY <1>9 DEF HeldStay, Acquire
  <2> QED
    BY <2>2, <2>3, ListedStays
<1>10. ASSUME ReuseLink PROVE ListedInv'
  <2>2. UncountersStay
    BY <1>10, ReuseLinkMoves, Threads DEF Moves, ReuseLink, At, UncountersStay
  <2>3. HeldStay /\ byID' = byID
    BY <1>10 DEF HeldStay, ReuseLink
  <2> QED
    BY <2>2, <2>3, ListedStays
<1>11. ASSUME OpenLink PROVE ListedInv'
  <2>2. UncountersStay
    BY <1>11, OpenLinkMoves, Threads DEF Moves, OpenLink, At, UncountersStay
  <2>3. HeldStay /\ byID' = byID
    BY <1>11 DEF HeldStay, OpenLink
  <2> QED
    BY <2>2, <2>3, ListedStays
<1>12. ASSUME OpenLinkFails PROVE ListedInv'
  <2>2. UncountersStay
    BY <1>12, OpenLinkFailsMoves, Threads DEF Moves, OpenLinkFails, At, UncountersStay
  <2>3. HeldStay /\ byID' = byID
    BY <1>12 DEF HeldStay, OpenLinkFails
  <2> QED
    BY <2>2, <2>3, ListedStays
<1>13. ASSUME Bind PROVE ListedInv'
  <2>2. UncountersStay
    BY <1>13, BindMoves, Threads DEF Moves, Bind, At, UncountersStay
  <2>3. HeldStay /\ byID' = byID
    BY <1>13 DEF HeldStay, Bind
  <2> QED
    BY <2>2, <2>3, ListedStays
<1>14. ASSUME Attach PROVE ListedInv'
  <2>2. UncountersStay
    BY <1>14, AttachMoves, Threads DEF Moves, Attach, At, UncountersStay
  <2>3. HeldStay /\ byID' = byID
    BY <1>14, SessionsTyped DEF HeldStay, Attach, Session
  <2> QED
    BY <2>2, <2>3, ListedStays
<1>15. ASSUME Dial PROVE ListedInv'
  <2>2. UncountersStay
    BY <1>15, DialMoves, Threads DEF Moves, Dial, At, UncountersStay
  <2>3. HeldStay /\ byID' = byID
    BY <1>15 DEF HeldStay, Dial
  <2> QED
    BY <2>2, <2>3, ListedStays
<1>16. ASSUME ClientReady PROVE ListedInv'
  <2>2. UncountersStay
    BY <1>16, ClientReadyMoves, Threads DEF Moves, ClientReady, At, UncountersStay
  <2>3. HeldStay /\ byID' = byID
    BY <1>16, SessionsTyped DEF HeldStay, ClientReady, Session
  <2> QED
    BY <2>2, <2>3, ListedStays
<1>17. ASSUME RunAccept PROVE ListedInv'
  <2>2. UncountersStay
    BY <1>17, RunAcceptMoves, Threads DEF Moves, RunAccept, At, LoopFree, UncountersStay
  <2>3. HeldStay /\ byID' = byID
    BY <1>17 DEF HeldStay, RunAccept
  <2> QED
    BY <2>2, <2>3, ListedStays
<1>18. ASSUME RunDisconnect PROVE ListedInv'
  <2>2. UncountersStay
    BY <1>18, RunDisconnectMoves, Threads DEF Moves, RunDisconnect, At, LoopFree, UncountersStay
  <2>3. HeldStay /\ byID' = byID
    BY <1>18 DEF HeldStay, RunDisconnect
  <2> QED
    BY <2>2, <2>3, ListedStays
<1>19. ASSUME NEW t \in Thread, CloseSession(t) PROVE ListedInv'
  <2>2. UncountersStay
    BY <1>19, CloseSessionMoves, Departures, Threads DEF Moves, Returns, UncountersStay
  <2>3. HeldStay /\ byID' = byID
    BY <1>19 DEF HeldStay, CloseSession
  <2> QED
    BY <2>2, <2>3, ListedStays
<1>20. ASSUME NEW t \in Thread, DropBegin(t) PROVE ListedInv'
  <2>2. UncountersStay
    BY <1>20, DropBeginMoves, Departures, Threads DEF Moves, UncountersStay
  <2>3. byID' = byID /\ Registered(task[t].s) /\ sess[task[t].s].once = "no"
    BY <1>20, InHandRegistered DEF DropBegin, At, Resting, Unseen
  <2>4. HeldStay
    BY <1>20, <2>3, SessionsTyped DEF HeldStay, DropBegin, Registered, Session
  <2> QED
    BY <2>2, <2>3, <2>4, ListedStays
<1>21. ASSUME NEW t \in Thread, DropWaited(t) PROVE ListedInv'
  <2>2. UncountersStay
    BY <1>21, DropWaitedMoves, Departures, Threads DEF Moves, Returns, UncountersStay
  <2>3. HeldStay /\ byID' = byID
    BY <1>21 DEF HeldStay, DropWaited
  <2> QED
    BY <2>2, <2>3, ListedStays
<1>22. ASSUME NEW t \in Thread, ReleaseLink(t) PROVE ListedInv'
  <2>2. UncountersStay
    BY <1>22, ReleaseLinkMoves, Departures, Threads DEF Moves, UncountersStay
  <2>3. HeldStay /\ byID' = byID
    BY <1>22 DEF HeldStay, ReleaseLink
  <2> QED
    BY <2>2, <2>3, ListedStays
<1>23. ASSUME NEW t \in Thread, Forget(t) PROVE ListedInv'
  <2> DEFINE s == task[t].s
  <2>1. s \in Attempt /\ task[t].pc = "forget"
    BY <1>23, AtWork DEF Forget, At, TypeInv, Resting
  <2>2. sess' = sess /\ byID' = byID \ {s}
    BY <1>23 DEF Forget
  <2>3. task'[t].pc = "uncount" /\ task'[t].s = s /\ \A u \in Thread : u # t => task'[u] = task[u]
    BY <1>23, ForgetMoves DEF Moves
  <2> HIDE DEF s
  <2>4. ASSUME NEW r \in Attempt, r # s
        PROVE  (\A u \in Thread : task[u].pc = "uncount" => task[u].s # r)
               <=> (\A u \in Thread : task'[u].pc = "uncount" => task'[u].s # r)
    BY <2>1, <2>3, <2>4
  <2>5. ASSUME NEW r \in Attempt
        PROVE  r \in byID' <=> /\ sess'[r].st # "none" /\ sess'[r].once # "done"
                              /\ \A u \in Thread : task'[u].pc = "uncount" => task'[u].s # r
    <3>1. CASE r = s
      BY <2>2, <2>3, <3>1
    <3>2. CASE r # s
      BY <2>2, <2>4, <3>2 DEF ListedInv, Held, Registered, At
    <3> QED
      BY <3>1, <3>2
  <2> QED
    BY <2>5 DEF ListedInv, Held, Registered, At
<1>24. ASSUME NEW t \in Thread, Uncount(t) PROVE ListedInv'
  <2> DEFINE s == task[t].s
  <2>1. s \in Attempt /\ task[t].pc = "uncount"
    BY <1>24, AtWork DEF Uncount, At, TypeInv, Resting
  <2>2. /\ sess'[s].once = "done" /\ byID' = byID
        /\ \A r \in Attempt : r # s => sess'[r] = sess[r]
    BY <1>24, <2>1, SessionsTyped DEF Uncount, Session
  <2>3. task'[t].pc # "uncount" /\ \A u \in Thread : u # t => task'[u] = task[u]
    BY <1>24, UncountMoves DEF Moves, Returns
  <2>4. s \notin byID
    BY <2>1 DEF ListedInv, At
  <2>5. ASSUME NEW r \in Attempt, r # s
        PROVE  (\A u \in Thread : task[u].pc = "uncount" => task[u].s # r)
               <=> (\A u \in Thread : task'[u].pc = "uncount" => task'[u].s # r)
    <3> DEFINE x == task[t].s
    <3>1. x # r
      BY <2>5
    <3> QED
      BY <2>1, <2>3, <3>1
  <2> HIDE DEF s
  <2>6. ASSUME NEW r \in Attempt
        PROVE  r \in byID' <=> /\ sess'[r].st # "none" /\ sess'[r].once # "done"
                              /\ \A u \in Thread : task'[u].pc = "uncount" => task'[u].s # r
    <3>1. CASE r = s
      BY <2>2, <2>4, <3>1
    <3>2. CASE r # s
      BY <2>2, <2>5, <3>2 DEF ListedInv, Held, Registered, At
    <3> QED
      BY <3>1, <3>2
  <2> QED
    BY <2>6 DEF ListedInv, Held, Registered, At
<1>25. ASSUME NEW t \in Thread, Refused(t) PROVE ListedInv'
  <2>2. UncountersStay
    BY <1>25, RefusedMoves, Departures, Threads DEF Moves, UncountersStay
  <2>3. HeldStay /\ byID' = byID
    BY <1>25 DEF HeldStay, Refused
  <2> QED
    BY <2>2, <2>3, ListedStays
<1>26. ASSUME NEW t \in Thread, Failed(t) PROVE ListedInv'
  <2>2. UncountersStay
    BY <1>26, FailedMoves, Departures, Threads DEF Moves, UncountersStay
  <2>3. HeldStay /\ byID' = byID
    BY <1>26 DEF HeldStay, Failed
  <2> QED
    BY <2>2, <2>3, ListedStays
<1>27. ASSUME NEW k \in Attempt, Activate(k) PROVE ListedInv'
  <2>2. UncountersStay
    BY <1>27, ActivateMoves, Threads DEF Moves, Activate, At, UncountersStay
  <2>3. HeldStay /\ byID' = byID
    BY <1>27, SessionsTyped DEF HeldStay, Activate, Session
  <2> QED
    BY <2>2, <2>3, ListedStays
<1>28. ASSUME NEW k \in Attempt, Confirm(k) PROVE ListedInv'
  <2>2. UncountersStay
    BY <1>28, ConfirmMoves, Threads DEF Moves, Confirm, At, UncountersStay
  <2>3. HeldStay /\ byID' = byID
    BY <1>28 DEF HeldStay, Confirm
  <2> QED
    BY <2>2, <2>3, ListedStays
<1>29. ASSUME NEW k \in Attempt, RunUpDisconnect(k) PROVE ListedInv'
  <2>2. UncountersStay
    BY <1>29, RunUpDisconnectMoves, Threads DEF Moves, RunUpDisconnect, At, UpFree, UncountersStay
  <2>3. HeldStay /\ byID' = byID
    BY <1>29 DEF HeldStay, RunUpDisconnect
  <2> QED
    BY <2>2, <2>3, ListedStays
<1>30. ASSUME NEW k \in Attempt, NEW b \in Backend, BackendAccepts(k, b) PROVE ListedInv'
  <2>2. UncountersStay
    BY <1>30, BackendAcceptsMoves, Threads DEF Moves, BackendAccepts, At, UpFree, UncountersStay
  <2>3. byID' = byID
    BY <1>30 DEF BackendAccepts
  <2>4. HeldStay
    BY <1>30, <2>3, SessionsTyped DEF HeldStay, BackendAccepts, Session
  <2> QED
    BY <2>2, <2>3, <2>4, ListedStays
<1>31. ASSUME NEW k \in Attempt, NEW b \in Backend, NEW rejected \in BOOLEAN, DialFails(k, b, rejected) PROVE ListedInv'
  <2>2. UncountersStay
    BY <1>31, DialFailsMoves, Threads DEF Moves, DialFails, At, UpFree, UncountersStay
  <2>3. HeldStay /\ byID' = byID
    BY <1>31 DEF HeldStay, DialFails
  <2> QED
    BY <2>2, <2>3, ListedStays
<1>32. ASSUME NEW k \in Attempt, NEW b \in Backend, BackendGone(k, b) PROVE ListedInv'
  <2>2. UncountersStay
    BY <1>32, BackendGoneMoves, Threads DEF Moves, BackendGone, At, UpFree, UncountersStay
  <2>3. HeldStay /\ byID' = byID
    BY <1>32 DEF HeldStay, BackendGone
  <2> QED
    BY <2>2, <2>3, ListedStays
<1>33. ASSUME NEW s \in Attempt, TimerFires(s) PROVE ListedInv'
  <2>1. task[Timer(s)].pc # "uncount"
    <3>1. sess[s].once = "no" /\ task[Timer(s)].s \in {Nobody, s} /\ Timer(s) \in Thread
      BY <1>33, TimersDiffer DEF TimerFires, DropInv, TimerInv
    <3>2. task[Timer(s)].pc \in Drops => task[Timer(s)].s # Nobody
      BY <3>1, TasksTyped DEF Resting, Drops
    <3> QED
      BY <3>1, <3>2 DEF DropInv, Dropping, Drops
  <2>2. UncountersStay
    BY <1>33, <2>1, TimerFiresMoves DEF Moves, UncountersStay
  <2>3. HeldStay /\ byID' = byID
    BY <1>33 DEF HeldStay, TimerFires
  <2> QED
    BY <2>2, <2>3, ListedStays
<1>34. ASSUME NEW s \in Attempt, RelayBreaks(s) PROVE ListedInv'
  <2>2. UncountersStay
    BY <1>34, RelayBreaksMoves, Threads DEF Moves, RelayBreaks, At, UncountersStay
  <2>3. HeldStay /\ byID' = byID
    BY <1>34 DEF HeldStay, RelayBreaks
  <2> QED
    BY <2>2, <2>3, ListedStays
<1>35. ASSUME NEW s \in Attempt, Kick(s) PROVE ListedInv'
  <2>2. UncountersStay
    BY <1>35, KickMoves, Threads DEF Moves, Kick, At, ConsoleMay, UncountersStay
  <2>3. HeldStay /\ byID' = byID
    BY <1>35 DEF HeldStay, Kick
  <2> QED
    BY <2>2, <2>3, ListedStays
<1>36. ASSUME NEW s \in Attempt, NEW b \in Backend, Move(s, b) PROVE ListedInv'
  <2>2. UncountersStay
    BY <1>36, MoveMoves, Threads DEF Moves, Move, At, ConsoleMay, UncountersStay
  <2>3. HeldStay /\ byID' = byID
    BY <1>36 DEF HeldStay, Move
  <2> QED
    BY <2>2, <2>3, ListedStays
<1>37. ASSUME NEW ip \in IP, Ban(ip) PROVE ListedInv'
  <2>2. UncountersStay
    BY <1>37, BanMoves, Threads DEF Moves, Ban, At, ConsoleMay, UncountersStay
  <2>3. HeldStay /\ byID' = byID
    BY <1>37 DEF HeldStay, Ban
  <2> QED
    BY <2>2, <2>3, ListedStays
<1>38. ASSUME CloseProxy PROVE ListedInv'
  <2>2. UncountersStay
    BY <1>38, CloseProxyMoves, Threads DEF Moves, CloseProxy, At, UncountersStay
  <2>3. HeldStay /\ byID' = byID
    BY <1>38 DEF HeldStay, CloseProxy
  <2> QED
    BY <2>2, <2>3, ListedStays
<1>39. ASSUME StopListening PROVE ListedInv'
  <2>2. UncountersStay
    BY <1>39, StopListeningMoves, Threads DEF Moves, StopListening, At, UncountersStay
  <2>3. HeldStay /\ byID' = byID
    BY <1>39 DEF HeldStay, StopListening
  <2> QED
    BY <2>2, <2>3, ListedStays
<1>40. ASSUME StopAllLinks PROVE ListedInv'
  <2>2. UncountersStay
    BY <1>40, StopAllLinksMoves, Threads DEF Moves, StopAllLinks, At, UncountersStay
  <2>3. HeldStay /\ byID' = byID
    BY <1>40 DEF HeldStay, StopAllLinks
  <2> QED
    BY <2>2, <2>3, ListedStays
<1>41. ASSUME LinksStopped PROVE ListedInv'
  <2>2. UncountersStay
    BY <1>41, LinksStoppedMoves, Threads DEF Moves, LinksStopped, At, UncountersStay
  <2>3. HeldStay /\ byID' = byID
    BY <1>41 DEF HeldStay, LinksStopped
  <2> QED
    BY <2>2, <2>3, ListedStays
<1> QED
  BY <1>1, <1>2, <1>3, <1>4, <1>5, <1>6, <1>7, <1>8, <1>9, <1>10, <1>11, <1>12, <1>13, <1>14,
     <1>15, <1>16, <1>17, <1>18, <1>19, <1>20, <1>21, <1>22, <1>23, <1>24, <1>25, <1>26, <1>27,
     <1>28, <1>29, <1>30, <1>31, <1>32, <1>33, <1>34, <1>35, <1>36, <1>37, <1>38, <1>39, <1>40,
     <1>41, Writers DEF Written, Writes_byID, Writes_sess, Writes_task

\* The third layer holds always.
LEMMA DropsFoundation == Spec => [](TimerInv /\ DropInv /\ ListedInv)
<1>1. Init => TimerInv /\ DropInv /\ ListedInv
  <2> SUFFICES ASSUME Init PROVE TimerInv /\ DropInv /\ ListedInv
    OBVIOUS
  <2>1. \A t \in Thread : task[t].pc = "idle" /\ task[t].s = Nobody /\ task[t].todo = {}
    BY DEF Init, Idle
  <2>2. \A s \in Attempt : sess[s].st = "none" /\ sess[s].once = "no"
    BY DEF Init, NewSession
  <2> QED
    BY <2>1, <2>2, TimersDiffer DEF Init, TimerInv, DropInv, ListedInv, Dropping, Drops, Held,
       Registered, At
<1>2. TypeInv /\ RefInv /\ TimerInv /\ DropInv /\ ListedInv /\ [Next]_vars => TimerInv' /\ DropInv' /\ ListedInv'
  <2>1. ASSUME TimerInv, DropInv, ListedInv, UNCHANGED vars PROVE TimerInv' /\ DropInv' /\ ListedInv'
    BY <2>1 DEF TimerInv, DropInv, ListedInv, Dropping, Held, Registered, At, vars
  <2> QED
    BY <2>1, TimersKept, DropKept, ListedKept
<1> QED
  BY Foundation, <1>1, <1>2, PTL DEF Spec

-----------------------------------------------------------------------------
(* The caps.                                                               *)

\* Only registering a session and taking it out of the counters change what
\* is held.
LEMMA HeldChanges ==
  ASSUME TypeInv, RefInv, Next
  PROVE  HeldStay \/ Register \/ \E u \in Thread : Uncount(u)
<1>1. CASE UNCHANGED <<sess>>
  BY <1>1 DEF HeldStay
<1>2. ASSUME Request PROVE HeldStay \/ Register \/ \E u \in Thread : Uncount(u)
  BY <1>2, SessionsTyped DEF HeldStay, Request, Session
<1>3. ASSUME TakeRedirect \/ PickBackend PROVE HeldStay \/ Register \/ \E u \in Thread : Uncount(u)
  BY <1>3, ChoosesTarget DEF TargetChosen, HeldStay
<1>4. ASSUME Register PROVE HeldStay \/ Register \/ \E u \in Thread : Uncount(u)
  BY <1>4
<1>5. ASSUME Attach PROVE HeldStay \/ Register \/ \E u \in Thread : Uncount(u)
  BY <1>5, SessionsTyped DEF HeldStay, Attach, Session
<1>6. ASSUME ClientReady PROVE HeldStay \/ Register \/ \E u \in Thread : Uncount(u)
  BY <1>6, SessionsTyped DEF HeldStay, ClientReady, Session
<1>7. ASSUME NEW t \in Thread, DropBegin(t) PROVE HeldStay \/ Register \/ \E u \in Thread : Uncount(u)
  <2>1. Registered(task[t].s) /\ sess[task[t].s].once = "no"
    BY <1>7, InHandRegistered DEF DropBegin, At, Resting, Unseen
  <2> QED
    BY <1>7, <2>1, SessionsTyped DEF HeldStay, DropBegin, Session, Registered
<1>8. ASSUME NEW t \in Thread, Uncount(t) PROVE HeldStay \/ Register \/ \E u \in Thread : Uncount(u)
  BY <1>8
<1>9. ASSUME NEW k \in Attempt, Activate(k) PROVE HeldStay \/ Register \/ \E u \in Thread : Uncount(u)
  BY <1>9, SessionsTyped DEF HeldStay, Activate, Session
<1>10. ASSUME NEW k \in Attempt, NEW b \in Backend, BackendAccepts(k, b) PROVE HeldStay \/ Register \/ \E u \in Thread : Uncount(u)
  BY <1>10, SessionsTyped DEF HeldStay, BackendAccepts, Session
<1> QED
  BY <1>1, <1>2, <1>3, <1>4, <1>5, <1>6, <1>7, <1>8, <1>9, <1>10, Writers DEF Written, Writes_sess

\* Only the gate's two operations change its counters.
LEMMA CountersChange ==
  ASSUME TypeInv, RefInv, Next
  PROVE  UNCHANGED <<count, total>> \/ Acquire \/ \E u \in Thread : Uncount(u)
<1>1. CASE UNCHANGED <<count, total>>
  BY <1>1
<1>2. ASSUME Acquire PROVE UNCHANGED <<count, total>> \/ Acquire \/ \E u \in Thread : Uncount(u)
  BY <1>2
<1>3. ASSUME NEW t \in Thread, Uncount(t) PROVE UNCHANGED <<count, total>> \/ Acquire \/ \E u \in Thread : Uncount(u)
  BY <1>3
<1> QED
  BY <1>1, <1>2, <1>3, Writers DEF Written, Writes_count, Writes_total

\* Loop goes on with a request it has admitted, or gives it up.
LoopStays ==
  /\ attempts' = attempts
  /\ task'[Loop].pc = "acquire" <=> task[Loop].pc = "acquire"
  /\ task'[Loop].pc \in Unseen \cup {"acquire"} =>
       task[Loop].pc \in Unseen \cup {"acquire"} /\ asking' = asking
  /\ task[Loop].pc = "bind" => task'[Loop] = task[Loop] \/ Bind

\* A request is admitted by Request alone.
LEMMA LoopAdmits ==
  ASSUME TypeInv, RefInv, Next
  PROVE  LoopStays \/ Request \/ Register \/ Acquire
<1>1. CASE UNCHANGED <<attempts, asking, task>>
  BY <1>1 DEF LoopStays
<1>2. ASSUME NEW c \in Client, ConnectRequest(c) PROVE LoopStays \/ Request \/ Register \/ Acquire
  BY <1>2, ConnectRequestMoves, Threads DEF Moves, ConnectRequest, At, LoopFree, LoopStays, Unseen,
     gateVars, adminVars, linkVars
<1>3. ASSUME NEW c \in Client, ClientGone(c) PROVE LoopStays \/ Request \/ Register \/ Acquire
  BY <1>3, ClientGoneMoves, Threads DEF Moves, ClientGone, At, LoopFree, LoopStays, Unseen,
     gateVars, adminVars, linkVars
<1>4. ASSUME Request PROVE LoopStays \/ Request \/ Register \/ Acquire
  BY <1>4
<1>5. ASSUME Check PROVE LoopStays \/ Request \/ Register \/ Acquire
  BY <1>5, CheckMoves, Threads DEF Moves, Check, At, LoopStays, Unseen, gateVars, adminVars,
     linkVars
<1>6. ASSUME TakeRedirect PROVE LoopStays \/ Request \/ Register \/ Acquire
  BY <1>6, TakeRedirectMoves, Threads DEF Moves, TakeRedirect, At, LoopStays, Unseen, listenVars
<1>7. ASSUME PickBackend PROVE LoopStays \/ Request \/ Register \/ Acquire
  BY <1>7, PickBackendMoves, Threads DEF Moves, PickBackend, At, LoopStays, Unseen
<1>8. ASSUME Register PROVE LoopStays \/ Request \/ Register \/ Acquire
  BY <1>8
<1>9. ASSUME Acquire PROVE LoopStays \/ Request \/ Register \/ Acquire
  BY <1>9
<1>10. ASSUME ReuseLink PROVE LoopStays \/ Request \/ Register \/ Acquire
  BY <1>10, ReuseLinkMoves, Threads DEF Moves, ReuseLink, At, LoopStays, Unseen, listenVars,
     gateVars, adminVars, linkVars
<1>11. ASSUME OpenLink PROVE LoopStays \/ Request \/ Register \/ Acquire
  BY <1>11, OpenLinkMoves, Threads DEF Moves, OpenLink, At, LoopStays, Unseen, listenVars, gateVars,
     adminVars
<1>12. ASSUME OpenLinkFails PROVE LoopStays \/ Request \/ Register \/ Acquire
  BY <1>12, OpenLinkFailsMoves, Threads DEF Moves, OpenLinkFails, At, LoopStays, Unseen, gateVars,
     adminVars
<1>13. ASSUME Bind PROVE LoopStays \/ Request \/ Register \/ Acquire
  BY <1>13, BindMoves, Threads DEF Moves, Bind, At, LoopStays, Unseen, listenVars, gateVars,
     adminVars
<1>14. ASSUME Attach PROVE LoopStays \/ Request \/ Register \/ Acquire
  BY <1>14, AttachMoves, Threads DEF Moves, Attach, At, LoopStays, Unseen, listenVars, gateVars,
     adminVars, linkVars
<1>15. ASSUME Dial PROVE LoopStays \/ Request \/ Register \/ Acquire
  BY <1>15, DialMoves, Threads DEF Moves, Dial, At, LoopStays, Unseen, listenVars, gateVars,
     adminVars
<1>16. ASSUME ClientReady PROVE LoopStays \/ Request \/ Register \/ Acquire
  BY <1>16, ClientReadyMoves, Threads DEF Moves, ClientReady, At, LoopStays, Unseen, listenVars,
     gateVars, adminVars, linkVars
<1>17. ASSUME RunAccept PROVE LoopStays \/ Request \/ Register \/ Acquire
  BY <1>17, RunAcceptMoves, Threads DEF Moves, RunAccept, At, LoopFree, LoopStays, Unseen, gateVars,
     adminVars, linkVars
<1>18. ASSUME RunDisconnect PROVE LoopStays \/ Request \/ Register \/ Acquire
  BY <1>18, RunDisconnectMoves, Threads DEF Moves, RunDisconnect, At, LoopFree, LoopStays, Unseen,
     gateVars, adminVars, linkVars
<1>19. ASSUME NEW t \in Thread, CloseSession(t) PROVE LoopStays \/ Request \/ Register \/ Acquire
  <2>1. UNCHANGED <<attempts, asking>>
    BY <1>19 DEF CloseSession
  <2> QED
    BY <1>19, <2>1, CloseSessionMoves, Departures, Threads DEF Moves, Returns, LoopStays, Unseen
<1>20. ASSUME NEW t \in Thread, DropBegin(t) PROVE LoopStays \/ Request \/ Register \/ Acquire
  <2>1. UNCHANGED <<attempts, asking>>
    BY <1>20 DEF DropBegin, listenVars
  <2> QED
    BY <1>20, <2>1, DropBeginMoves, Departures, Threads DEF Moves, LoopStays, Unseen
<1>21. ASSUME NEW t \in Thread, DropWaited(t) PROVE LoopStays \/ Request \/ Register \/ Acquire
  <2>1. UNCHANGED <<attempts, asking>>
    BY <1>21 DEF DropWaited, listenVars
  <2> QED
    BY <1>21, <2>1, DropWaitedMoves, Departures, Threads DEF Moves, Returns, LoopStays, Unseen
<1>22. ASSUME NEW t \in Thread, ReleaseLink(t) PROVE LoopStays \/ Request \/ Register \/ Acquire
  <2>1. UNCHANGED <<attempts, asking>>
    BY <1>22 DEF ReleaseLink, listenVars
  <2> QED
    BY <1>22, <2>1, ReleaseLinkMoves, Departures, Threads DEF Moves, LoopStays, Unseen
<1>23. ASSUME NEW t \in Thread, Forget(t) PROVE LoopStays \/ Request \/ Register \/ Acquire
  <2>1. UNCHANGED <<attempts, asking>>
    BY <1>23 DEF Forget, listenVars
  <2> QED
    BY <1>23, <2>1, ForgetMoves, Departures, Threads DEF Moves, LoopStays, Unseen
<1>24. ASSUME NEW t \in Thread, Uncount(t) PROVE LoopStays \/ Request \/ Register \/ Acquire
  <2>1. UNCHANGED <<attempts, asking>>
    BY <1>24 DEF Uncount, listenVars
  <2> QED
    BY <1>24, <2>1, UncountMoves, Departures, Threads DEF Moves, Returns, LoopStays, Unseen
<1>25. ASSUME NEW t \in Thread, Refused(t) PROVE LoopStays \/ Request \/ Register \/ Acquire
  <2>1. UNCHANGED <<attempts, asking>>
    BY <1>25 DEF Refused
  <2> QED
    BY <1>25, <2>1, RefusedMoves, Departures, Threads DEF Moves, LoopStays, Unseen
<1>26. ASSUME NEW t \in Thread, Failed(t) PROVE LoopStays \/ Request \/ Register \/ Acquire
  <2>1. UNCHANGED <<attempts, asking>>
    BY <1>26 DEF Failed
  <2> QED
    BY <1>26, <2>1, FailedMoves, Departures, Threads DEF Moves, LoopStays, Unseen
<1>27. ASSUME NEW k \in Attempt, Activate(k) PROVE LoopStays \/ Request \/ Register \/ Acquire
  BY <1>27, ActivateMoves, Threads DEF Moves, Activate, LoopStays, Unseen, listenVars, gateVars,
     adminVars, linkVars
<1>28. ASSUME NEW k \in Attempt, Confirm(k) PROVE LoopStays \/ Request \/ Register \/ Acquire
  BY <1>28, ConfirmMoves, Threads DEF Moves, Confirm, LoopStays, Unseen, gateVars, adminVars,
     linkVars
<1>29. ASSUME NEW k \in Attempt, RunUpDisconnect(k) PROVE LoopStays \/ Request \/ Register \/ Acquire
  BY <1>29, RunUpDisconnectMoves, Threads DEF Moves, RunUpDisconnect, LoopStays, Unseen, listenVars,
     gateVars, adminVars
<1>30. ASSUME NEW k \in Attempt, NEW b \in Backend, BackendAccepts(k, b) PROVE LoopStays \/ Request \/ Register \/ Acquire
  BY <1>30, BackendAcceptsMoves, Threads DEF Moves, BackendAccepts, LoopStays, Unseen, listenVars,
     gateVars, adminVars
<1>31. ASSUME NEW k \in Attempt, NEW b \in Backend, NEW rejected \in BOOLEAN, DialFails(k, b, rejected) PROVE LoopStays \/ Request \/ Register \/ Acquire
  BY <1>31, DialFailsMoves, Threads DEF Moves, DialFails, LoopStays, Unseen, listenVars, gateVars,
     adminVars
<1>32. ASSUME NEW k \in Attempt, NEW b \in Backend, BackendGone(k, b) PROVE LoopStays \/ Request \/ Register \/ Acquire
  BY <1>32, BackendGoneMoves, Threads DEF Moves, BackendGone, LoopStays, Unseen, listenVars,
     gateVars, adminVars
<1>33. ASSUME NEW s \in Attempt, TimerFires(s) PROVE LoopStays \/ Request \/ Register \/ Acquire
  BY <1>33, TimerFiresMoves, Threads DEF Moves, TimerFires, LoopStays, Unseen, listenVars, gateVars,
     adminVars, linkVars
<1>34. ASSUME NEW s \in Attempt, RelayBreaks(s) PROVE LoopStays \/ Request \/ Register \/ Acquire
  BY <1>34, RelayBreaksMoves, Threads DEF Moves, RelayBreaks, LoopStays, Unseen, listenVars,
     gateVars, adminVars, linkVars
<1>35. ASSUME NEW s \in Attempt, Kick(s) PROVE LoopStays \/ Request \/ Register \/ Acquire
  BY <1>35, KickMoves, Threads DEF Moves, Kick, LoopStays, Unseen, listenVars, gateVars, adminVars,
     linkVars
<1>36. ASSUME NEW s \in Attempt, NEW b \in Backend, Move(s, b) PROVE LoopStays \/ Request \/ Register \/ Acquire
  BY <1>36, MoveMoves, Threads DEF Moves, Move, LoopStays, Unseen, listenVars, gateVars, linkVars
<1>37. ASSUME NEW ip \in IP, Ban(ip) PROVE LoopStays \/ Request \/ Register \/ Acquire
  BY <1>37, BanMoves, Threads DEF Moves, Ban, LoopStays, Unseen, listenVars, gateVars, linkVars
<1>38. ASSUME CloseProxy PROVE LoopStays \/ Request \/ Register \/ Acquire
  BY <1>38, CloseProxyMoves, Threads DEF Moves, CloseProxy, LoopStays, Unseen, listenVars, gateVars,
     linkVars
<1>39. ASSUME StopListening PROVE LoopStays \/ Request \/ Register \/ Acquire
  BY <1>39, StopListeningMoves, Threads DEF Moves, StopListening, LoopStays, Unseen, gateVars,
     adminVars, linkVars
<1>40. ASSUME StopAllLinks PROVE LoopStays \/ Request \/ Register \/ Acquire
  BY <1>40, StopAllLinksMoves, Threads DEF Moves, StopAllLinks, LoopStays, Unseen, listenVars,
     gateVars, adminVars
<1>41. ASSUME LinksStopped PROVE LoopStays \/ Request \/ Register \/ Acquire
  BY <1>41, LinksStoppedMoves, Threads DEF Moves, LinksStopped, LoopStays, Unseen, listenVars,
     gateVars, adminVars, linkVars
<1> QED
  BY <1>1, <1>2, <1>3, <1>4, <1>5, <1>6, <1>7, <1>8, <1>9, <1>10, <1>11, <1>12, <1>13, <1>14,
     <1>15, <1>16, <1>17, <1>18, <1>19, <1>20, <1>21, <1>22, <1>23, <1>24, <1>25, <1>26, <1>27,
     <1>28, <1>29, <1>30, <1>31, <1>32, <1>33, <1>34, <1>35, <1>36, <1>37, <1>38, <1>39, <1>40,
     <1>41, Writers DEF Written, Writes_attempts, Writes_asking, Writes_task

\* What is held are finite sets.
LEMMA FiniteHeld ==
  ASSUME NEW S \in SUBSET Attempt
  PROVE  IsFiniteSet(S) /\ Cardinality(S) \in Nat
<1>1. IsFiniteSet(Attempt)
  BY FS_Interval, AttemptsBound DEF Attempt
<1>2. IsFiniteSet(S)
  BY <1>1, FS_Subset
<1> QED
  BY <1>2, FS_CardinalityType

\* The held sets, as long as nobody is registered or taken out.
LEMMA HeldSetsStay ==
  ASSUME TypeInv, RefInv, NamesLast, HeldStay
  PROVE  /\ AllHeld' = AllHeld /\ (\A ip \in IP : HeldOf(ip)' = HeldOf(ip))
         /\ \A b \in Backend : HeldAt(b)' = HeldAt(b)
  BY DEF NamesLast, HeldStay, AllHeld, HeldOf, HeldAt, Held, Registered

\* A session registered comes in.
LEMMA HeldSetsGrow ==
  ASSUME TypeInv, RefInv, DropInv, NamesLast, Register
  PROVE  /\ attempts \in Attempt /\ attempts \notin AllHeld /\ AllHeld' = AllHeld \cup {attempts}
         /\ \A ip \in IP : HeldOf(ip)' = IF IpOf[asking] = ip THEN HeldOf(ip) \cup {attempts} ELSE HeldOf(ip)
         /\ \A b \in Backend : HeldAt(b)' = IF sess'[attempts].target = b THEN HeldAt(b) \cup {attempts} ELSE HeldAt(b)
<1>1. /\ attempts \in Attempt /\ ~Registered(attempts) /\ sess[attempts].client = asking
      /\ task[Loop].s = attempts
  BY RegisterRegisters DEF Register, At, TypeInv, LoopInv, Deciding, Unseen, Seen
<1>2. sess[attempts].once = "no"
  BY <1>1 DEF DropInv, Registered
<1>3. /\ sess'[attempts].st = "pending" /\ sess'[attempts].client = asking /\ sess'[attempts].once = "no"
      /\ \A r \in Attempt : r # attempts => sess'[r] = sess[r]
  BY <1>1, <1>2, SessionsTyped DEF Register, Session
<1> QED
  BY <1>1, <1>2, <1>3 DEF AllHeld, HeldOf, HeldAt, Held, Registered

\* A session taken out of the counters leaves.
LEMMA HeldSetsShrink ==
  ASSUME TypeInv, RefInv, DropInv, NEW t \in Thread, Uncount(t)
  PROVE  LET s == task[t].s IN
         /\ s \in AllHeld /\ AllHeld' = AllHeld \ {s} /\ s \in Attempt
         /\ sess[s].client \in Client /\ sess[s].target \in Backend
         /\ \A ip \in IP : HeldOf(ip)' = IF IpOf[sess[s].client] = ip THEN HeldOf(ip) \ {s} ELSE HeldOf(ip)
         /\ \A b \in Backend : HeldAt(b)' = IF sess[s].target = b THEN HeldAt(b) \ {s} ELSE HeldAt(b)
<1> DEFINE s == task[t].s
<1>1. s \in Attempt /\ Registered(s) /\ sess[s].once = "running"
  BY InHandRegistered DEF Uncount, At, Resting, Unseen, DropInv, Dropping, Drops
<1>2. sess[s].client \in Client /\ sess[s].target \in Backend
  BY <1>1, RegisteredAttempted DEF TypeInv, AttemptInv
<1>3. /\ sess'[s].once = "done"
      /\ \A r \in Attempt : r # s => sess'[r] = sess[r]
  BY <1>1, SessionsTyped DEF Uncount, Session
<1> HIDE DEF s
<1>4. /\ s \in AllHeld /\ AllHeld' = AllHeld \ {s}
      /\ \A ip \in IP : HeldOf(ip)' = IF IpOf[sess[s].client] = ip THEN HeldOf(ip) \ {s} ELSE HeldOf(ip)
      /\ \A b \in Backend : HeldAt(b)' = IF sess[s].target = b THEN HeldAt(b) \ {s} ELSE HeldAt(b)
  BY <1>1, <1>3 DEF AllHeld, HeldOf, HeldAt, Held, Registered
<1> QED
  BY <1>1, <1>2, <1>4 DEF s

\* Sums grow with what is added.
LEMMA SumsAreMonotonic ==
  ASSUME NEW a \in Nat, NEW b \in Nat, NEW c \in {0, 1}, NEW d \in {0, 1}, NEW m \in Nat,
         b <= a, d <= c, a + c <= m
  PROVE  b + d <= m
  OBVIOUS

\* Nothing changes for the gate while Loop admits nobody.
LEMMA CapStays ==
  ASSUME TypeInv, RefInv, CapInv, NamesLast, HeldStay, LoopStays, UNCHANGED <<count, total>>
  PROVE  CapInv'
<1>1. AllHeld' = AllHeld /\ \A ip \in IP : HeldOf(ip)' = HeldOf(ip)
  BY HeldSetsStay
<1>2. ASSUME NEW ip \in IP
      PROVE  ToCount(ip)' = ToCount(ip) /\ Admitted(ip)' <= Admitted(ip) /\ Admitted(ip) \in {0, 1} /\ Admitted(ip)' \in {0, 1}
  BY DEF ToCount, Admitted, LoopAt, LoopStays, Unseen
<1>3. /\ AllToCount' = AllToCount /\ AllAdmitted' <= AllAdmitted
      /\ AllAdmitted \in {0, 1} /\ AllAdmitted' \in {0, 1}
  BY DEF AllToCount, AllAdmitted, LoopStays, Unseen
<1>4. count \in [IP -> Nat] /\ total \in Nat
  BY RestTyped
<1>5. /\ \A ip \in IP : Cardinality(HeldOf(ip)') <= count'[ip] + ToCount(ip)'
      /\ Cardinality(AllHeld') <= total' + AllToCount'
  BY <1>1, <1>2, <1>3 DEF CapInv
<1>6. MaxSessionsPerIP > 0 => \A ip \in IP : count'[ip] + Admitted(ip)' <= MaxSessionsPerIP
  BY <1>2, <1>4, CapsAreNaturals DEF CapInv
<1>7. MaxSessions > 0 => total' + AllAdmitted' <= MaxSessions
  <2>1. (MaxSessions > 0 => total + AllAdmitted <= MaxSessions) /\ total' = total
    BY DEF CapInv
  <2>2. MaxSessions > 0 => total' + AllAdmitted <= MaxSessions
    BY <2>1
  <2> DEFINE a == AllAdmitted'
  <2>3. a \in {0, 1} /\ a <= AllAdmitted /\ total' \in Nat /\ total' <= total' /\ MaxSessions \in Nat
    BY <1>3, <1>4, <2>1, CapsAreNaturals
  <2> HIDE DEF a
  <2>4. MaxSessions > 0 => total' + a <= MaxSessions
    BY <1>3, <2>2, <2>3, SumsAreMonotonic
  <2> QED
    BY <2>4 DEF a
<1> QED
  BY <1>5, <1>6, <1>7 DEF CapInv

\* Allow admits a request only below the caps.
LEMMA RequestKeepsCap ==
  ASSUME TypeInv, RefInv, CapInv, NamesLast, HeldStay, Request
  PROVE  CapInv'
<1>1. UNCHANGED <<count, total>> /\ task[Loop].pc = "request" /\ asking \in Client
  BY ClientsTyped DEF Request, gateVars, At, TypeInv, LoopInv, Deciding
<1>2. AllHeld' = AllHeld /\ \A ip \in IP : HeldOf(ip)' = HeldOf(ip)
  BY HeldSetsStay
<1>3. count \in [IP -> Nat] /\ total \in Nat /\ IpOf[asking] \in IP
  BY <1>1, RestTyped, ClientsHaveIPs
<1>4. task'[Loop].pc # "acquire" /\ AllToCount' = 0 /\ \A ip \in IP : ToCount(ip)' = 0
  BY RequestMoves DEF Moves, AllToCount, ToCount, LoopAt
<1>5. AllToCount = 0 /\ AllAdmitted = 0 /\ \A ip \in IP : ToCount(ip) = 0 /\ Admitted(ip) = 0
  BY <1>1 DEF AllToCount, AllAdmitted, ToCount, Admitted, LoopAt, Unseen
<1>6. /\ \A ip \in IP : Cardinality(HeldOf(ip)') <= count'[ip] + ToCount(ip)'
      /\ Cardinality(AllHeld') <= total' + AllToCount'
  BY <1>1, <1>2, <1>4, <1>5 DEF CapInv
<1>7. CASE task'[Loop].pc = "idle"
  <2>1. AllAdmitted' = 0 /\ \A ip \in IP : Admitted(ip)' = 0
    BY <1>7 DEF AllAdmitted, Admitted, LoopAt, Unseen
  <2> QED
    BY <1>1, <1>5, <1>6, <2>1 DEF CapInv
<1>8. CASE task'[Loop].pc # "idle"
  <2>1. ~PerIPFull(count, IpOf[asking]) /\ ~ServerFull(total) /\ asking' = asking
    BY <1>8, Threads DEF Request, Refuse, Idle, TypeInv, TaskInv
  <2>2. /\ MaxSessionsPerIP > 0 => count[IpOf[asking]] + 1 <= MaxSessionsPerIP
        /\ MaxSessions > 0 => total + 1 <= MaxSessions
    BY <1>3, <2>1, CapsAreNaturals DEF PerIPFull, ServerFull
  <2>3. AllAdmitted' \in {0, 1} /\ \A ip \in IP : Admitted(ip)' \in {0, 1} /\ (IpOf[asking] # ip => Admitted(ip)' = 0)
    BY <2>1 DEF AllAdmitted, Admitted, LoopAt
  <2>4. MaxSessionsPerIP > 0 => \A ip \in IP : count'[ip] + Admitted(ip)' <= MaxSessionsPerIP
    BY <1>1, <1>3, <1>5, <2>2, <2>3, CapsAreNaturals DEF CapInv
  <2>5. MaxSessions > 0 => total' + AllAdmitted' <= MaxSessions
    BY <1>1, <1>3, <2>2, <2>3, CapsAreNaturals
  <2> QED
    BY <1>6, <2>4, <2>5 DEF CapInv
<1> QED
  BY <1>7, <1>8

\* A session registered was admitted, and is counted next.
LEMMA RegisterKeepsCap ==
  ASSUME TypeInv, RefInv, DropInv, CapInv, NamesLast, Register
  PROVE  CapInv'
<1>1. UNCHANGED <<count, total>> /\ task[Loop].pc = "register" /\ asking \in Client
  BY ClientsTyped DEF Register, gateVars, At, TypeInv, LoopInv, Deciding, Unseen
<1>2. task'[Loop].pc = "acquire" /\ asking' = asking
  BY RegisterMoves DEF Moves, Register
<1>3. count \in [IP -> Nat] /\ total \in Nat /\ IpOf[asking] \in IP
  BY <1>1, RestTyped, ClientsHaveIPs
<1>4. AllToCount = 0 /\ AllAdmitted = 1 /\ AllToCount' = 1 /\ AllAdmitted' = 1
  BY <1>1, <1>2 DEF AllToCount, AllAdmitted, Unseen
<1>5. ASSUME NEW ip \in IP
      PROVE  /\ ToCount(ip) = 0 /\ Admitted(ip)' = Admitted(ip)
             /\ ToCount(ip)' = IF IpOf[asking] = ip THEN 1 ELSE 0
  BY <1>1, <1>2 DEF ToCount, Admitted, LoopAt, Unseen
<1>6. Cardinality(AllHeld') <= total' + AllToCount'
  <2>1. IsFiniteSet(AllHeld) /\ Cardinality(AllHeld) \in Nat
    BY FiniteHeld DEF AllHeld
  <2>2. Cardinality(AllHeld') = Cardinality(AllHeld) + 1
    BY <2>1, HeldSetsGrow, FS_AddElement
  <2> QED
    BY <1>1, <1>3, <1>4, <2>1, <2>2 DEF CapInv
<1>7. ASSUME NEW ip \in IP
      PROVE  Cardinality(HeldOf(ip)') <= count'[ip] + ToCount(ip)'
  <2>1. IsFiniteSet(HeldOf(ip)) /\ Cardinality(HeldOf(ip)) \in Nat
    BY FiniteHeld DEF HeldOf
  <2>2. Cardinality(HeldOf(ip)) <= count[ip]
    BY <1>3, <1>5 DEF CapInv
  <2>3. CASE IpOf[asking] = ip
    <3>1. HeldOf(ip)' = HeldOf(ip) \cup {attempts}
      BY <2>3, HeldSetsGrow
    <3> DEFINE H == HeldOf(ip)
    <3> HIDE DEF H
    <3>0. IsFiniteSet(H) => Cardinality(H \cup {attempts}) = IF attempts \in H THEN Cardinality(H) ELSE Cardinality(H) + 1
      BY FS_AddElement
    <3>2. Cardinality(HeldOf(ip)') <= Cardinality(HeldOf(ip)) + 1
      BY <2>1, <3>0, <3>1 DEF H
    <3>3. Cardinality(HeldOf(ip)') \in Nat
      BY <2>1, <3>0, <3>1 DEF H
    <3> QED
      BY <1>1, <1>3, <1>5, <2>1, <2>2, <2>3, <3>2, <3>3
  <2>4. CASE IpOf[asking] # ip
    <3>1. HeldOf(ip)' = HeldOf(ip)
      BY <2>4, HeldSetsGrow
    <3> QED
      BY <1>1, <1>3, <1>5, <2>2, <2>4, <3>1
  <2> QED
    BY <2>3, <2>4
<1> QED
  BY <1>1, <1>4, <1>5, <1>6, <1>7 DEF CapInv

\* What was to be counted is.
LEMMA AcquireKeepsCap ==
  ASSUME TypeInv, RefInv, CapInv, NamesLast, HeldStay, Acquire
  PROVE  CapInv'
<1> DEFINE own == IpOf[asking]
<1>1. task[Loop].pc = "acquire" /\ asking \in Client /\ asking' = asking
  BY ClientsTyped DEF Acquire, At, TypeInv, LoopInv, Deciding, Seen
<1>2. task'[Loop].pc = "link"
  BY AcquireMoves DEF Moves
<1>3. count \in [IP -> Nat] /\ total \in Nat /\ own \in IP
  BY <1>1, RestTyped, ClientsHaveIPs
<1>4. AllHeld' = AllHeld /\ \A ip \in IP : HeldOf(ip)' = HeldOf(ip)
  BY HeldSetsStay
<1>5. AllToCount = 1 /\ AllAdmitted = 1 /\ AllToCount' = 0 /\ AllAdmitted' = 0
  BY <1>1, <1>2 DEF AllToCount, AllAdmitted, Unseen
<1>6. ASSUME NEW ip \in IP
      PROVE  /\ ToCount(ip) = IF own = ip THEN 1 ELSE 0
             /\ Admitted(ip) = IF own = ip THEN 1 ELSE 0
             /\ ToCount(ip)' = 0 /\ Admitted(ip)' = 0
  BY <1>1, <1>2 DEF ToCount, Admitted, LoopAt, Unseen
<1>7. total' = total + 1 /\ count' = [count EXCEPT ![own] = count[own] + 1]
  BY DEF Acquire, Acquired
<1> HIDE DEF own
<1>8. ASSUME NEW ip \in IP
      PROVE  count'[ip] + ToCount(ip)' = count[ip] + ToCount(ip) /\ count'[ip] + Admitted(ip)' = count[ip] + Admitted(ip)
  BY <1>3, <1>6, <1>7
<1> QED
  BY <1>3, <1>4, <1>5, <1>7, <1>8 DEF CapInv

\* What is taken out of the counters was held.
LEMMA UncountKeepsCap ==
  ASSUME TypeInv, RefInv, DropInv, CapInv, NEW t \in Thread, Uncount(t)
  PROVE  CapInv'
<1> DEFINE s == task[t].s
           own == IpOf[sess[s].client]
<1>1. /\ s \in AllHeld /\ AllHeld' = AllHeld \ {s} /\ s \in Attempt
      /\ sess[s].client \in Client
      /\ \A ip \in IP : HeldOf(ip)' = IF own = ip THEN HeldOf(ip) \ {s} ELSE HeldOf(ip)
  BY HeldSetsShrink
<1>2. count \in [IP -> Nat] /\ total \in Nat /\ own \in IP
  BY <1>1, RestTyped, ClientsHaveIPs
<1>3. /\ count' = [count EXCEPT ![own] = IF count[own] <= 1 THEN 0 ELSE count[own] - 1]
      /\ total' = IF total > 0 THEN total - 1 ELSE 0
      /\ asking' = asking
  BY DEF Uncount, Released, ReleasedTotal
<1>4. LoopStays
  <2>1. UNCHANGED <<attempts, asking>>
    BY DEF Uncount, listenVars
  <2> QED
    BY <2>1, UncountMoves, Departures, Threads DEF Moves, Returns, LoopStays, Unseen
<1>5. /\ AllToCount' = AllToCount /\ AllToCount \in {0, 1}
      /\ AllAdmitted' <= AllAdmitted /\ AllAdmitted \in {0, 1} /\ AllAdmitted' \in {0, 1}
  BY <1>4 DEF AllToCount, AllAdmitted, LoopStays, Unseen
<1>6. ASSUME NEW ip \in IP
      PROVE  /\ ToCount(ip)' = ToCount(ip) /\ ToCount(ip) \in {0, 1}
             /\ Admitted(ip)' <= Admitted(ip) /\ Admitted(ip) \in {0, 1} /\ Admitted(ip)' \in {0, 1}
  BY <1>4 DEF ToCount, Admitted, LoopAt, LoopStays, Unseen
<1>7. HeldOf(own) \in SUBSET Attempt /\ s \in HeldOf(own)
  BY <1>1 DEF AllHeld, HeldOf
<1> HIDE DEF s, own
<1>8. /\ \A ip \in IP : count'[ip] <= count[ip] /\ count'[ip] \in Nat
      /\ total' <= total /\ total' \in Nat
  BY <1>2, <1>3
<1>9. Cardinality(AllHeld') <= total' + AllToCount'
  <2>1. IsFiniteSet(AllHeld) /\ Cardinality(AllHeld) \in Nat
    BY FiniteHeld DEF AllHeld
  <2>2. Cardinality(AllHeld') = Cardinality(AllHeld) - 1
    BY <1>1, <2>1, FS_RemoveElement
  <2>3. Cardinality(AllHeld) <= total + AllToCount
    BY DEF CapInv
  <2> QED
    BY <1>2, <1>3, <1>5, <2>1, <2>2, <2>3
<1>10. ASSUME NEW ip \in IP
       PROVE  Cardinality(HeldOf(ip)') <= count'[ip] + ToCount(ip)'
  <2>1. IsFiniteSet(HeldOf(ip)) /\ Cardinality(HeldOf(ip)) \in Nat
    BY FiniteHeld DEF HeldOf
  <2>2. Cardinality(HeldOf(ip)) <= count[ip] + ToCount(ip)
    BY DEF CapInv
  <2>3. CASE own = ip
    <3>1. HeldOf(ip)' = HeldOf(ip) \ {s} /\ s \in HeldOf(ip)
      BY <1>1, <1>7, <2>3
    <3>2. Cardinality(HeldOf(ip)') = Cardinality(HeldOf(ip)) - 1
      BY <2>1, <3>1, FS_RemoveElement
    <3>3. count'[ip] = IF count[ip] <= 1 THEN 0 ELSE count[ip] - 1
      BY <1>2, <1>3, <2>3
    <3> QED
      BY <1>2, <1>6, <2>1, <2>2, <3>2, <3>3
  <2>4. CASE own # ip
    BY <1>1, <1>2, <1>3, <1>6, <2>2, <2>4
  <2> QED
    BY <2>3, <2>4
<1>11. MaxSessionsPerIP > 0 => \A ip \in IP : count'[ip] + Admitted(ip)' <= MaxSessionsPerIP
  BY <1>2, <1>6, <1>8, CapsAreNaturals DEF CapInv
<1>12. MaxSessions > 0 => total' + AllAdmitted' <= MaxSessions
  <2>1. MaxSessions > 0 => total + AllAdmitted <= MaxSessions
    BY DEF CapInv
  <2> DEFINE a == AllAdmitted'
             v == total'
  <2>3. /\ a \in {0, 1} /\ AllAdmitted \in {0, 1} /\ v \in Nat /\ total \in Nat
        /\ MaxSessions \in Nat /\ a <= AllAdmitted /\ v <= total
    BY <1>2, <1>5, <1>8, CapsAreNaturals
  <2> HIDE DEF a, v
  <2>4. MaxSessions > 0 => v + a <= MaxSessions
    BY <2>1, <2>3, SumsAreMonotonic
  <2> QED
    BY <2>4 DEF a, v
<1> QED
  BY <1>9, <1>10, <1>11, <1>12 DEF CapInv

\* No step breaks the caps.
LEMMA CapKept ==
  ASSUME TypeInv, RefInv, DropInv, CapInv, [Next]_vars
  PROVE  CapInv'
<1>1. CASE UNCHANGED vars
  <2>1. NamesLast /\ HeldStay /\ LoopStays /\ UNCHANGED <<count, total>>
    BY <1>1 DEF vars, NamesLast, HeldStay, LoopStays, Unseen
  <2> QED
    BY <2>1, CapStays
<1>2. CASE Next
  <2>1. NamesLast
    BY <1>2, NamesOfRegisteredLast
  <2>2. CASE \E t \in Thread : Uncount(t)
    BY <2>2, UncountKeepsCap
  <2>3. CASE Register
    BY <2>1, <2>3, RegisterKeepsCap
  <2>4. CASE Acquire
    <3>1. HeldStay
      BY <2>4 DEF Acquire, HeldStay
    <3> QED
      BY <2>1, <2>4, <3>1, AcquireKeepsCap
  <2>5. CASE ~(\E t \in Thread : Uncount(t)) /\ ~Register /\ ~Acquire
    <3>1. HeldStay /\ UNCHANGED <<count, total>>
      BY <1>2, <2>5, HeldChanges, CountersChange
    <3>2. LoopStays \/ Request
      BY <1>2, <2>5, LoopAdmits
    <3> QED
      BY <2>1, <3>1, <3>2, CapStays, RequestKeepsCap
  <2> QED
    BY <2>2, <2>3, <2>4, <2>5
<1> QED
  BY <1>1, <1>2

\* The caps hold for the sessions that exist: counted or about to be, those
\* that were let in never exceed what the gate allows.
LEMMA CapsFollow ==
  ASSUME TypeInv, ListedInv, CapInv
  PROVE  CapsHold
<1>1. byID \subseteq AllHeld /\ AllHeld \in SUBSET Attempt
  BY NamedAttempts DEF ListedInv, AllHeld
<1>2. \A ip \in IP : SessionsOf(ip) \subseteq HeldOf(ip) /\ HeldOf(ip) \in SUBSET Attempt
  BY NamedAttempts DEF ListedInv, SessionsOf, HeldOf
<1>3. count \in [IP -> Nat] /\ total \in Nat
  BY RestTyped
<1>4. Cardinality(byID) <= Cardinality(AllHeld) /\ Cardinality(byID) \in Nat /\ Cardinality(AllHeld) \in Nat
  BY <1>1, FiniteHeld, FS_Subset
<1>5. AllToCount <= AllAdmitted /\ AllToCount \in {0, 1} /\ AllAdmitted \in {0, 1}
  BY DEF AllToCount, AllAdmitted
<1>6. MaxSessions > 0 => Cardinality(byID) <= MaxSessions
  BY <1>3, <1>4, <1>5, CapsAreNaturals DEF CapInv
<1>7. ASSUME MaxSessionsPerIP > 0, NEW ip \in IP
      PROVE  Cardinality(SessionsOf(ip)) <= MaxSessionsPerIP
  <2>1. IsFiniteSet(HeldOf(ip)) /\ Cardinality(HeldOf(ip)) \in Nat
    BY <1>2, FiniteHeld
  <2>2. SessionsOf(ip) \in SUBSET Attempt
    BY <1>2
  <2>3. Cardinality(SessionsOf(ip)) <= Cardinality(HeldOf(ip)) /\ Cardinality(SessionsOf(ip)) \in Nat
    BY <1>2, <2>1, <2>2, FiniteHeld, FS_Subset
  <2>4. ToCount(ip) <= Admitted(ip) /\ ToCount(ip) \in {0, 1} /\ Admitted(ip) \in {0, 1}
    BY DEF ToCount, Admitted, LoopAt
  <2>5. Cardinality(HeldOf(ip)) <= count[ip] + ToCount(ip) /\ count[ip] + Admitted(ip) <= MaxSessionsPerIP
    BY <1>7 DEF CapInv
  <2> QED
    BY <1>3, <2>1, <2>3, <2>4, <2>5, CapsAreNaturals
<1> QED
  BY <1>6, <1>7 DEF CapsHold

\* The caps hold for the sessions that exist, whatever the gate has counted
\* by then: registration comes before Acquire, and a session may be dropped
\* in between by the timer, an administrator, the backend or Close.
THEOREM CapsAlwaysHold == Spec => []CapsHold
<1>1. Init => CapInv
  <2> SUFFICES ASSUME Init PROVE CapInv
    OBVIOUS
  <2>1. AllHeld = {} /\ \A ip \in IP : HeldOf(ip) = {}
    BY DEF Init, NewSession, AllHeld, HeldOf, Held, Registered
  <2>2. task[Loop].pc = "idle"
    BY Threads DEF Init, Idle
  <2>3. AllToCount = 0 /\ AllAdmitted = 0 /\ \A ip \in IP : ToCount(ip) = 0 /\ Admitted(ip) = 0
    BY <2>2 DEF AllToCount, AllAdmitted, ToCount, Admitted, LoopAt, Unseen
  <2>4. total = 0 /\ \A ip \in IP : count[ip] = 0
    BY DEF Init
  <2> QED
    BY <2>1, <2>3, <2>4, FS_EmptySet, CapsAreNaturals DEF CapInv
<1>2. TypeInv /\ RefInv /\ DropInv /\ CapInv /\ [Next]_vars => CapInv'
  BY CapKept
<1>3. TypeInv /\ ListedInv /\ CapInv => CapsHold
  BY CapsFollow
<1> QED
  BY Foundation, DropsFoundation, <1>1, <1>2, <1>3, PTL DEF Spec

-----------------------------------------------------------------------------
(* Who comes where, and who changes what.                                  *)

\* Places that any goroutine comes to, whatever it did before.
Common == {"idle", "request", "stop", "wait", "close", "drop", "uncount", "refused", "failed"}

\* How t has come to where it is.
Entered(t) ==
  \/ task'[t] = task[t] \/ task'[t].pc \in Common
  \/ DropBegin(t) \/ ReleaseLink(t)
  \/ t = Loop /\ (\/ Request \/ Check \/ TakeRedirect \/ PickBackend \/ Register \/ Acquire
                  \/ ReuseLink \/ OpenLink \/ Bind \/ Attach \/ RunAccept)
  \/ t = Closer /\ (StopAllLinks \/ LinksStopped)
  \/ \E k \in Attempt : t = Up(k) /\ (Activate(k) \/ \E b \in Backend : BackendAccepts(k, b))

\* Nobody comes anywhere else.
LEMMA EveryoneEntered ==
  ASSUME TypeInv, RefInv, Next
  PROVE  \A u \in Thread : Entered(u)
<1>1. CASE UNCHANGED <<task>>
  BY <1>1 DEF Entered
<1>2. ASSUME NEW c \in Client, ConnectRequest(c) PROVE \A u \in Thread : Entered(u)
  BY <1>2, ConnectRequestMoves DEF Moves, Entered, Common
<1>3. ASSUME NEW c \in Client, ClientGone(c) PROVE \A u \in Thread : Entered(u)
  BY <1>3, ClientGoneMoves DEF Moves, Entered, Common
<1>4. ASSUME Request PROVE \A u \in Thread : Entered(u)
  <2>1. \A u \in Thread : u # Loop => task'[u] = task[u]
    BY <1>4, RequestMoves DEF Moves
  <2> QED
    BY <1>4, <2>1 DEF Entered
<1>5. ASSUME Check PROVE \A u \in Thread : Entered(u)
  <2>1. \A u \in Thread : u # Loop => task'[u] = task[u]
    BY <1>5, CheckMoves DEF Moves
  <2> QED
    BY <1>5, <2>1 DEF Entered
<1>6. ASSUME TakeRedirect PROVE \A u \in Thread : Entered(u)
  <2>1. \A u \in Thread : u # Loop => task'[u] = task[u]
    BY <1>6, TakeRedirectMoves DEF Moves
  <2> QED
    BY <1>6, <2>1 DEF Entered
<1>7. ASSUME PickBackend PROVE \A u \in Thread : Entered(u)
  <2>1. \A u \in Thread : u # Loop => task'[u] = task[u]
    BY <1>7, PickBackendMoves DEF Moves
  <2> QED
    BY <1>7, <2>1 DEF Entered
<1>8. ASSUME Register PROVE \A u \in Thread : Entered(u)
  <2>1. \A u \in Thread : u # Loop => task'[u] = task[u]
    BY <1>8, RegisterMoves DEF Moves
  <2> QED
    BY <1>8, <2>1 DEF Entered
<1>9. ASSUME Acquire PROVE \A u \in Thread : Entered(u)
  <2>1. \A u \in Thread : u # Loop => task'[u] = task[u]
    BY <1>9, AcquireMoves DEF Moves
  <2> QED
    BY <1>9, <2>1 DEF Entered
<1>10. ASSUME ReuseLink PROVE \A u \in Thread : Entered(u)
  <2>1. \A u \in Thread : u # Loop => task'[u] = task[u]
    BY <1>10, ReuseLinkMoves DEF Moves
  <2> QED
    BY <1>10, <2>1 DEF Entered
<1>11. ASSUME OpenLink PROVE \A u \in Thread : Entered(u)
  <2>1. \A u \in Thread : u # Loop => task'[u] = task[u]
    BY <1>11, OpenLinkMoves DEF Moves
  <2> QED
    BY <1>11, <2>1 DEF Entered
<1>12. ASSUME OpenLinkFails PROVE \A u \in Thread : Entered(u)
  BY <1>12, OpenLinkFailsMoves DEF Moves, Entered, Common
<1>13. ASSUME Bind PROVE \A u \in Thread : Entered(u)
  <2>1. \A u \in Thread : u # Loop => task'[u] = task[u]
    BY <1>13, BindMoves DEF Moves
  <2> QED
    BY <1>13, <2>1 DEF Entered
<1>14. ASSUME Attach PROVE \A u \in Thread : Entered(u)
  <2>1. \A u \in Thread : u # Loop => task'[u] = task[u]
    BY <1>14, AttachMoves DEF Moves
  <2> QED
    BY <1>14, <2>1 DEF Entered
<1>15. ASSUME Dial PROVE \A u \in Thread : Entered(u)
  BY <1>15, DialMoves DEF Moves, Entered, Common
<1>16. ASSUME ClientReady PROVE \A u \in Thread : Entered(u)
  BY <1>16, ClientReadyMoves DEF Moves, Entered, Common
<1>17. ASSUME RunAccept PROVE \A u \in Thread : Entered(u)
  <2>1. \A u \in Thread : u # Loop => task'[u] = task[u]
    BY <1>17, RunAcceptMoves DEF Moves
  <2> QED
    BY <1>17, <2>1 DEF Entered
<1>18. ASSUME RunDisconnect PROVE \A u \in Thread : Entered(u)
  BY <1>18, RunDisconnectMoves DEF Moves, Entered, Common
<1>19. ASSUME NEW t \in Thread, CloseSession(t) PROVE \A u \in Thread : Entered(u)
  BY <1>19, CloseSessionMoves DEF Moves, Returns, Entered, Common
<1>20. ASSUME NEW t \in Thread, DropBegin(t) PROVE \A u \in Thread : Entered(u)
  <2>1. \A u \in Thread : u # t => task'[u] = task[u]
    BY <1>20, DropBeginMoves DEF Moves
  <2> QED
    BY <1>20, <2>1 DEF Entered
<1>21. ASSUME NEW t \in Thread, DropWaited(t) PROVE \A u \in Thread : Entered(u)
  BY <1>21, DropWaitedMoves DEF Moves, Returns, Entered, Common
<1>22. ASSUME NEW t \in Thread, ReleaseLink(t) PROVE \A u \in Thread : Entered(u)
  <2>1. \A u \in Thread : u # t => task'[u] = task[u]
    BY <1>22, ReleaseLinkMoves DEF Moves
  <2> QED
    BY <1>22, <2>1 DEF Entered
<1>23. ASSUME NEW t \in Thread, Forget(t) PROVE \A u \in Thread : Entered(u)
  BY <1>23, ForgetMoves DEF Moves, Entered, Common
<1>24. ASSUME NEW t \in Thread, Uncount(t) PROVE \A u \in Thread : Entered(u)
  BY <1>24, UncountMoves DEF Moves, Returns, Entered, Common
<1>25. ASSUME NEW t \in Thread, Refused(t) PROVE \A u \in Thread : Entered(u)
  BY <1>25, RefusedMoves DEF Moves, Entered, Common
<1>26. ASSUME NEW t \in Thread, Failed(t) PROVE \A u \in Thread : Entered(u)
  BY <1>26, FailedMoves DEF Moves, Entered, Common
<1>27. ASSUME NEW k \in Attempt, Activate(k) PROVE \A u \in Thread : Entered(u)
  <2>1. \A u \in Thread : u # Up(k) => task'[u] = task[u]
    BY <1>27, ActivateMoves DEF Moves
  <2> QED
    BY <1>27, <2>1 DEF Entered
<1>28. ASSUME NEW k \in Attempt, Confirm(k) PROVE \A u \in Thread : Entered(u)
  BY <1>28, ConfirmMoves DEF Moves, Entered, Common
<1>29. ASSUME NEW k \in Attempt, RunUpDisconnect(k) PROVE \A u \in Thread : Entered(u)
  BY <1>29, RunUpDisconnectMoves DEF Moves, Entered, Common
<1>30. ASSUME NEW k \in Attempt, NEW b \in Backend, BackendAccepts(k, b) PROVE \A u \in Thread : Entered(u)
  <2>1. \A u \in Thread : u # Up(k) => task'[u] = task[u]
    BY <1>30, BackendAcceptsMoves DEF Moves
  <2> QED
    BY <1>30, <2>1 DEF Entered
<1>31. ASSUME NEW k \in Attempt, NEW b \in Backend, NEW rejected \in BOOLEAN, DialFails(k, b, rejected) PROVE \A u \in Thread : Entered(u)
  BY <1>31, DialFailsMoves DEF Moves, Entered, Common
<1>32. ASSUME NEW k \in Attempt, NEW b \in Backend, BackendGone(k, b) PROVE \A u \in Thread : Entered(u)
  BY <1>32, BackendGoneMoves DEF Moves, Entered, Common
<1>33. ASSUME NEW s \in Attempt, TimerFires(s) PROVE \A u \in Thread : Entered(u)
  BY <1>33, TimerFiresMoves DEF Moves, Entered, Common
<1>34. ASSUME NEW s \in Attempt, RelayBreaks(s) PROVE \A u \in Thread : Entered(u)
  BY <1>34, RelayBreaksMoves DEF Moves, Entered, Common
<1>35. ASSUME NEW s \in Attempt, Kick(s) PROVE \A u \in Thread : Entered(u)
  BY <1>35, KickMoves DEF Moves, Entered, Common
<1>36. ASSUME NEW s \in Attempt, NEW b \in Backend, Move(s, b) PROVE \A u \in Thread : Entered(u)
  BY <1>36, MoveMoves DEF Moves, Entered, Common
<1>37. ASSUME NEW ip \in IP, Ban(ip) PROVE \A u \in Thread : Entered(u)
  BY <1>37, BanMoves DEF Moves, Entered, Common
<1>38. ASSUME CloseProxy PROVE \A u \in Thread : Entered(u)
  BY <1>38, CloseProxyMoves DEF Moves, Entered, Common
<1>39. ASSUME StopListening PROVE \A u \in Thread : Entered(u)
  BY <1>39, StopListeningMoves DEF Moves, Entered, Common
<1>40. ASSUME StopAllLinks PROVE \A u \in Thread : Entered(u)
  <2>1. \A u \in Thread : u # Closer => task'[u] = task[u]
    BY <1>40, StopAllLinksMoves DEF Moves
  <2> QED
    BY <1>40, <2>1 DEF Entered
<1>41. ASSUME LinksStopped PROVE \A u \in Thread : Entered(u)
  <2>1. \A u \in Thread : u # Closer => task'[u] = task[u]
    BY <1>41, LinksStoppedMoves DEF Moves
  <2> QED
    BY <1>41, <2>1 DEF Entered
<1> QED
  BY <1>1, <1>2, <1>3, <1>4, <1>5, <1>6, <1>7, <1>8, <1>9, <1>10, <1>11, <1>12, <1>13, <1>14,
     <1>15, <1>16, <1>17, <1>18, <1>19, <1>20, <1>21, <1>22, <1>23, <1>24, <1>25, <1>26, <1>27,
     <1>28, <1>29, <1>30, <1>31, <1>32, <1>33, <1>34, <1>35, <1>36, <1>37, <1>38, <1>39, <1>40,
     <1>41, Writers DEF Written, Writes_task

\* Once the socket has ended Loop does nothing any more.
LEMMA LoopAtRest ==
  ASSUME TypeInv, RefInv, listening = "ended", task[Loop].pc = "idle", Next
  PROVE  task'[Loop] = task[Loop]
<1>1. CASE UNCHANGED <<task>>
  BY <1>1
<1>2. ASSUME NEW c \in Client, ConnectRequest(c) PROVE task'[Loop] = task[Loop]
  BY <1>2, ConnectRequestMoves, Threads DEF ConnectRequest, At, LoopFree
<1>3. ASSUME NEW c \in Client, ClientGone(c) PROVE task'[Loop] = task[Loop]
  BY <1>3, ClientGoneMoves, Threads DEF ClientGone, At, LoopFree
<1>4. ASSUME Request PROVE task'[Loop] = task[Loop]
  BY <1>4, RequestMoves, Threads DEF Request, At
<1>5. ASSUME Check PROVE task'[Loop] = task[Loop]
  BY <1>5, CheckMoves, Threads DEF Check, At
<1>6. ASSUME TakeRedirect PROVE task'[Loop] = task[Loop]
  BY <1>6, TakeRedirectMoves, Threads DEF TakeRedirect, At
<1>7. ASSUME PickBackend PROVE task'[Loop] = task[Loop]
  BY <1>7, PickBackendMoves, Threads DEF PickBackend, At
<1>8. ASSUME Register PROVE task'[Loop] = task[Loop]
  BY <1>8, RegisterMoves, Threads DEF Register, At
<1>9. ASSUME Acquire PROVE task'[Loop] = task[Loop]
  BY <1>9, AcquireMoves, Threads DEF Acquire, At
<1>10. ASSUME ReuseLink PROVE task'[Loop] = task[Loop]
  BY <1>10, ReuseLinkMoves, Threads DEF ReuseLink, At
<1>11. ASSUME OpenLink PROVE task'[Loop] = task[Loop]
  BY <1>11, OpenLinkMoves, Threads DEF OpenLink, At
<1>12. ASSUME OpenLinkFails PROVE task'[Loop] = task[Loop]
  BY <1>12, OpenLinkFailsMoves, Threads DEF OpenLinkFails, At
<1>13. ASSUME Bind PROVE task'[Loop] = task[Loop]
  BY <1>13, BindMoves, Threads DEF Bind, At
<1>14. ASSUME Attach PROVE task'[Loop] = task[Loop]
  BY <1>14, AttachMoves, Threads DEF Attach, At
<1>15. ASSUME Dial PROVE task'[Loop] = task[Loop]
  BY <1>15, DialMoves, Threads DEF Dial, At
<1>16. ASSUME ClientReady PROVE task'[Loop] = task[Loop]
  BY <1>16, ClientReadyMoves, Threads DEF ClientReady, At
<1>17. ASSUME RunAccept PROVE task'[Loop] = task[Loop]
  BY <1>17, RunAcceptMoves, Threads DEF RunAccept, At, LoopFree
<1>18. ASSUME RunDisconnect PROVE task'[Loop] = task[Loop]
  BY <1>18, RunDisconnectMoves, Threads DEF RunDisconnect, At, LoopFree
<1>19. ASSUME NEW t \in Thread, CloseSession(t) PROVE task'[Loop] = task[Loop]
  BY <1>19, CloseSessionMoves, Departures, Threads DEF Moves, Returns
<1>20. ASSUME NEW t \in Thread, DropBegin(t) PROVE task'[Loop] = task[Loop]
  BY <1>20, DropBeginMoves, Departures, Threads DEF Moves
<1>21. ASSUME NEW t \in Thread, DropWaited(t) PROVE task'[Loop] = task[Loop]
  BY <1>21, DropWaitedMoves, Departures, Threads DEF Moves, Returns
<1>22. ASSUME NEW t \in Thread, ReleaseLink(t) PROVE task'[Loop] = task[Loop]
  BY <1>22, ReleaseLinkMoves, Departures, Threads DEF Moves
<1>23. ASSUME NEW t \in Thread, Forget(t) PROVE task'[Loop] = task[Loop]
  BY <1>23, ForgetMoves, Departures, Threads DEF Moves
<1>24. ASSUME NEW t \in Thread, Uncount(t) PROVE task'[Loop] = task[Loop]
  BY <1>24, UncountMoves, Departures, Threads DEF Moves, Returns
<1>25. ASSUME NEW t \in Thread, Refused(t) PROVE task'[Loop] = task[Loop]
  BY <1>25, RefusedMoves, Departures, Threads DEF Moves
<1>26. ASSUME NEW t \in Thread, Failed(t) PROVE task'[Loop] = task[Loop]
  BY <1>26, FailedMoves, Departures, Threads DEF Moves
<1>27. ASSUME NEW k \in Attempt, Activate(k) PROVE task'[Loop] = task[Loop]
  BY <1>27, ActivateMoves, Threads DEF Moves
<1>28. ASSUME NEW k \in Attempt, Confirm(k) PROVE task'[Loop] = task[Loop]
  BY <1>28, ConfirmMoves, Threads DEF Moves
<1>29. ASSUME NEW k \in Attempt, RunUpDisconnect(k) PROVE task'[Loop] = task[Loop]
  BY <1>29, RunUpDisconnectMoves, Threads DEF Moves
<1>30. ASSUME NEW k \in Attempt, NEW b \in Backend, BackendAccepts(k, b) PROVE task'[Loop] = task[Loop]
  BY <1>30, BackendAcceptsMoves, Threads DEF Moves
<1>31. ASSUME NEW k \in Attempt, NEW b \in Backend, NEW rejected \in BOOLEAN, DialFails(k, b, rejected) PROVE task'[Loop] = task[Loop]
  BY <1>31, DialFailsMoves, Threads DEF Moves
<1>32. ASSUME NEW k \in Attempt, NEW b \in Backend, BackendGone(k, b) PROVE task'[Loop] = task[Loop]
  BY <1>32, BackendGoneMoves, Threads DEF Moves
<1>33. ASSUME NEW s \in Attempt, TimerFires(s) PROVE task'[Loop] = task[Loop]
  BY <1>33, TimerFiresMoves, Threads DEF Moves
<1>34. ASSUME NEW s \in Attempt, RelayBreaks(s) PROVE task'[Loop] = task[Loop]
  BY <1>34, RelayBreaksMoves, Threads DEF Moves
<1>35. ASSUME NEW s \in Attempt, Kick(s) PROVE task'[Loop] = task[Loop]
  BY <1>35, KickMoves, Threads DEF Moves
<1>36. ASSUME NEW s \in Attempt, NEW b \in Backend, Move(s, b) PROVE task'[Loop] = task[Loop]
  BY <1>36, MoveMoves, Threads DEF Moves
<1>37. ASSUME NEW ip \in IP, Ban(ip) PROVE task'[Loop] = task[Loop]
  BY <1>37, BanMoves, Threads DEF Moves
<1>38. ASSUME CloseProxy PROVE task'[Loop] = task[Loop]
  BY <1>38, CloseProxyMoves, Threads DEF Moves
<1>39. ASSUME StopListening PROVE task'[Loop] = task[Loop]
  BY <1>39, StopListeningMoves, Threads DEF Moves
<1>40. ASSUME StopAllLinks PROVE task'[Loop] = task[Loop]
  BY <1>40, StopAllLinksMoves, Threads DEF Moves
<1>41. ASSUME LinksStopped PROVE task'[Loop] = task[Loop]
  BY <1>41, LinksStoppedMoves, Threads DEF Moves
<1> QED
  BY <1>1, <1>2, <1>3, <1>4, <1>5, <1>6, <1>7, <1>8, <1>9, <1>10, <1>11, <1>12, <1>13, <1>14,
     <1>15, <1>16, <1>17, <1>18, <1>19, <1>20, <1>21, <1>22, <1>23, <1>24, <1>25, <1>26, <1>27,
     <1>28, <1>29, <1>30, <1>31, <1>32, <1>33, <1>34, <1>35, <1>36, <1>37, <1>38, <1>39, <1>40,
     <1>41, Writers DEF Written, Writes_task

\* Loop alone closes the socket, in two steps.
LEMMA ListeningChanges ==
  ASSUME Next
  PROVE  listening' = listening \/ RunStop \/ LoopEnds
<1>1. CASE UNCHANGED <<listening>>
  BY <1>1
<1>2. ASSUME RunStop PROVE listening' = listening \/ RunStop \/ LoopEnds
  BY <1>2
<1>3. ASSUME LoopEnds PROVE listening' = listening \/ RunStop \/ LoopEnds
  BY <1>3
<1> QED
  BY <1>1, <1>2, <1>3, Writers DEF Written, Writes_listening

-----------------------------------------------------------------------------
(* Links.                                                                  *)

\* No link changes hands, and none is used or opened that was not.
BindingsStay ==
  \A k \in Attempt :
    /\ link'[k].s = link[k].s
    /\ link[k].lease # "zero" => link'[k].lease # "zero"
    /\ link[k] = NewLink => link'[k] = NewLink
    /\ link'[k].mgr = "open" => link[k].mgr = "open"

\* Only three actions change what links are bound to.
LEMMA BindingsChange ==
  ASSUME TypeInv, RefInv, Next
  PROVE  BindingsStay \/ OpenLink \/ Bind \/ \E u \in Thread : ReleaseLink(u)
<1>1. CASE UNCHANGED <<link>>
  BY <1>1 DEF BindingsStay
<1>2. ASSUME OpenLink PROVE BindingsStay \/ OpenLink \/ Bind \/ \E u \in Thread : ReleaseLink(u)
  BY <1>2
<1>3. ASSUME OpenLinkFails PROVE BindingsStay \/ OpenLink \/ Bind \/ \E u \in Thread : ReleaseLink(u)
  BY <1>3, LinksTyped DEF BindingsStay, OpenLinkFails, GivenUp, NewLink, LinkState
<1>4. ASSUME Bind PROVE BindingsStay \/ OpenLink \/ Bind \/ \E u \in Thread : ReleaseLink(u)
  BY <1>4
<1>5. ASSUME NEW t \in Thread, ReleaseLink(t) PROVE BindingsStay \/ OpenLink \/ Bind \/ \E u \in Thread : ReleaseLink(u)
  BY <1>5
<1>6. ASSUME NEW k \in Attempt, PostStop(k) PROVE BindingsStay \/ OpenLink \/ Bind \/ \E u \in Thread : ReleaseLink(u)
  BY <1>6, LinksTyped DEF BindingsStay, PostStop, UpFree, Ended, NewLink, LinkState
<1>7. ASSUME NEW k \in Attempt, RunUpStop(k) PROVE BindingsStay \/ OpenLink \/ Bind \/ \E u \in Thread : ReleaseLink(u)
  BY <1>7, LinksTyped DEF BindingsStay, RunUpStop, UpFree, Ended, NewLink, LinkState
<1>8. ASSUME NEW k \in Attempt, UpEnds(k) PROVE BindingsStay \/ OpenLink \/ Bind \/ \E u \in Thread : ReleaseLink(u)
  BY <1>8, LinksTyped DEF BindingsStay, UpEnds, UpFree, Ended, NewLink, LinkState
<1>9. ASSUME NEW k \in Attempt, LeaseExpires(k) PROVE BindingsStay \/ OpenLink \/ Bind \/ \E u \in Thread : ReleaseLink(u)
  BY <1>9, LinksTyped DEF BindingsStay, LeaseExpires, UpFree, Ended, NewLink, LinkState
<1>10. ASSUME NEW c \in Client, SweepLink(c) PROVE BindingsStay \/ OpenLink \/ Bind \/ \E u \in Thread : ReleaseLink(u)
  BY <1>10, LinksTyped DEF BindingsStay, SweepLink, GivenUp, NewLink, LinkState
<1>11. ASSUME StopAllLinks PROVE BindingsStay \/ OpenLink \/ Bind \/ \E u \in Thread : ReleaseLink(u)
  BY <1>11, LinksTyped DEF BindingsStay, StopAllLinks, GivenUp, NewLink, LinkState
<1> QED
  BY <1>1, <1>2, <1>3, <1>4, <1>5, <1>6, <1>7, <1>8, <1>9, <1>10, <1>11, Writers DEF Written,
     Writes_link

\* Sessions keep their links, and none comes to life.
SocketsStay ==
  \A s \in Attempt :
    /\ sess'[s].link = sess[s].link
    /\ sess'[s].st = "none" <=> sess[s].st = "none"
    /\ sess'[s].st \in {"pending", "active"} => Live(s)

\* Only two actions bring sessions to life or give them links.
LEMMA SocketsChange ==
  ASSUME TypeInv, RefInv, Next
  PROVE  SocketsStay \/ Register \/ Attach
<1>1. CASE UNCHANGED <<sess>>
  BY <1>1 DEF SocketsStay, Live
<1>2. ASSUME Request PROVE SocketsStay \/ Register \/ Attach
  BY <1>2, SessionsTyped DEF SocketsStay, Live, Request, Session
<1>3. ASSUME TakeRedirect \/ PickBackend PROVE SocketsStay \/ Register \/ Attach
  BY <1>3, ChoosesTarget DEF TargetChosen, SocketsStay, Live
<1>4. ASSUME Register PROVE SocketsStay \/ Register \/ Attach
  BY <1>4
<1>5. ASSUME Attach PROVE SocketsStay \/ Register \/ Attach
  BY <1>5
<1>6. ASSUME ClientReady PROVE SocketsStay \/ Register \/ Attach
  <2>1. Registered(task[Loop].s)
    BY <1>6, InHandRegistered, Threads DEF ClientReady, At, Resting, Unseen
  <2> QED
    BY <1>6, <2>1, SessionsTyped DEF SocketsStay, Live, ClientReady, Session, Registered
<1>7. ASSUME NEW t \in Thread, DropBegin(t) PROVE SocketsStay \/ Register \/ Attach
  <2>1. Registered(task[t].s)
    BY <1>7, InHandRegistered, Threads DEF DropBegin, At, Resting, Unseen
  <2> QED
    BY <1>7, <2>1, SessionsTyped DEF SocketsStay, Live, DropBegin, Session, Registered
<1>8. ASSUME NEW t \in Thread, Uncount(t) PROVE SocketsStay \/ Register \/ Attach
  <2>1. Registered(task[t].s)
    BY <1>8, InHandRegistered, Threads DEF Uncount, At, Resting, Unseen
  <2> QED
    BY <1>8, <2>1, SessionsTyped DEF SocketsStay, Live, Uncount, Session, Registered
<1>9. ASSUME NEW k \in Attempt, Activate(k) PROVE SocketsStay \/ Register \/ Attach
  <2>1. Registered(task[Up(k)].s)
    BY <1>9, InHandRegistered, Threads DEF Activate, At, Resting, Unseen
  <2> QED
    BY <1>9, <2>1, SessionsTyped DEF SocketsStay, Live, Activate, Session, Registered
<1>10. ASSUME NEW k \in Attempt, NEW b \in Backend, BackendAccepts(k, b) PROVE SocketsStay \/ Register \/ Attach
  BY <1>10, SessionsTyped DEF SocketsStay, Live, BackendAccepts, Session
<1> QED
  BY <1>1, <1>2, <1>3, <1>4, <1>5, <1>6, <1>7, <1>8, <1>9, <1>10, Writers DEF Written, Writes_sess

\* Where a goroutine has come to tells what it did.
LEMMA Arrivals ==
  ASSUME TypeInv, RefInv, Next, NEW t \in Thread, task'[t] # task[t]
  PROVE  /\ task'[t].pc = "check"    => t = Loop /\ Request
         /\ task'[t].pc = "redirect" => t = Loop /\ Check
         /\ task'[t].pc = "pick"     => t = Loop /\ TakeRedirect
         /\ task'[t].pc = "register" => t = Loop /\ PickBackend
         /\ task'[t].pc = "acquire"  => t = Loop /\ Register
         /\ task'[t].pc = "link"     => t = Loop /\ Acquire
         /\ task'[t].pc = "bind"     => t = Loop /\ (ReuseLink \/ OpenLink)
         /\ task'[t].pc = "attach"   => t = Loop /\ Bind
         /\ task'[t].pc = "dial"     => t = Loop /\ Attach
         /\ task'[t].pc = "ready"    => t = Loop /\ RunAccept
         /\ task'[t].pc = "release"  => DropBegin(t)
         /\ task'[t].pc = "forget"   => ReleaseLink(t)
         /\ task'[t].pc = "drain"    => t = Closer /\ StopAllLinks
         /\ task'[t].pc = "closed"   => t = Closer /\ LinksStopped
         /\ task'[t].pc = "activate" => \E k \in Attempt, b \in Backend : t = Up(k) /\ BackendAccepts(k, b)
         /\ task'[t].pc = "confirm"  => \E k \in Attempt : t = Up(k) /\ Activate(k)
<1>1. Entered(t)
  BY EveryoneEntered
<1>2. CASE DropBegin(t)
  BY <1>2, DropBeginMoves, Threads DEF Moves
<1>3. CASE ReleaseLink(t)
  BY <1>3, ReleaseLinkMoves, Threads DEF Moves
<1>4. CASE t = Loop /\ Request
  BY <1>4, RequestMoves, Threads DEF Moves
<1>5. CASE t = Loop /\ Check
  BY <1>5, CheckMoves, Threads DEF Moves
<1>6. CASE t = Loop /\ TakeRedirect
  BY <1>6, TakeRedirectMoves, Threads DEF Moves
<1>7. CASE t = Loop /\ PickBackend
  BY <1>7, PickBackendMoves, Threads DEF Moves
<1>8. CASE t = Loop /\ Register
  BY <1>8, RegisterMoves, Threads DEF Moves
<1>9. CASE t = Loop /\ Acquire
  BY <1>9, AcquireMoves, Threads DEF Moves
<1>10. CASE t = Loop /\ ReuseLink
  BY <1>10, ReuseLinkMoves, Threads DEF Moves
<1>11. CASE t = Loop /\ OpenLink
  BY <1>11, OpenLinkMoves, Threads DEF Moves
<1>12. CASE t = Loop /\ Bind
  BY <1>12, BindMoves, Threads DEF Moves
<1>13. CASE t = Loop /\ Attach
  BY <1>13, AttachMoves, Threads DEF Moves
<1>14. CASE t = Loop /\ RunAccept
  BY <1>14, RunAcceptMoves, Threads DEF Moves
<1>15. CASE t = Closer /\ StopAllLinks
  BY <1>15, StopAllLinksMoves, Threads DEF Moves
<1>16. CASE t = Closer /\ LinksStopped
  BY <1>16, LinksStoppedMoves, Threads DEF Moves
<1>17. CASE task'[t].pc \in Common
  BY <1>17 DEF Common
<1>18. ASSUME NEW k \in Attempt, t = Up(k), Activate(k) PROVE task'[t].pc = "confirm"
  BY <1>18, ActivateMoves DEF Moves
<1>19. ASSUME NEW k \in Attempt, NEW b \in Backend, t = Up(k), BackendAccepts(k, b) PROVE task'[t].pc = "activate"
  BY <1>19, BackendAcceptsMoves DEF Moves
<1> QED
  BY <1>1, <1>2, <1>3, <1>4, <1>5, <1>6, <1>7, <1>8, <1>9, <1>10, <1>11, <1>12, <1>13, <1>14,
     <1>15, <1>16, <1>17, <1>18, <1>19 DEF Entered

\* Loop counts the attempts.
LEMMA AttemptsCounted ==
  ASSUME TypeInv, RefInv, Next
  PROVE  attempts' = attempts \/ Request
<1>1. CASE UNCHANGED <<attempts>>
  BY <1>1
<1>2. ASSUME Request PROVE attempts' = attempts \/ Request
  BY <1>2
<1> QED
  BY <1>1, <1>2, Writers DEF Written, Writes_attempts

\* Where Loop decides, nothing else moves it on.
LEMMA LoopDecides ==
  ASSUME TypeInv, RefInv, Next, task'[Loop].pc \in Deciding
  PROVE  \/ task'[Loop] = task[Loop] /\ attempts' = attempts /\ ~Bind /\ ~Attach /\ ~OpenLink /\ ~Register
         \/ Request /\ attempts' = attempts + 1 /\ task'[Loop].pc = "check"
         \/ /\ attempts' = attempts
            /\ \/ Check /\ task'[Loop].pc = "redirect"
               \/ TakeRedirect /\ task'[Loop].pc = "pick"
               \/ PickBackend /\ task'[Loop].pc = "register"
               \/ Register /\ task'[Loop].pc = "acquire"
               \/ Acquire /\ task'[Loop].pc = "link"
               \/ (ReuseLink \/ OpenLink) /\ task'[Loop].pc = "bind"
               \/ Bind /\ task'[Loop].pc = "attach"
               \/ Attach /\ task'[Loop].pc = "dial"
<1>1. CASE task'[Loop] = task[Loop]
  <2>1. ~Request
    BY <1>1, RequestMoves, Threads DEF Moves, Request, At
  <2>2. ~Bind
    BY <1>1, BindMoves, Threads DEF Moves, Bind, At
  <2>3. ~Attach
    BY <1>1, AttachMoves, Threads DEF Moves, Attach, At
  <2>4. ~OpenLink
    BY <1>1, OpenLinkMoves, Threads DEF Moves, OpenLink, At
  <2>5. ~Register
    BY <1>1, RegisterMoves, Threads DEF Moves, Register, At
  <2> QED
    BY <1>1, <2>1, <2>2, <2>3, <2>4, <2>5, AttemptsCounted
<1>2. CASE task'[Loop] # task[Loop]
  <2>1. CASE task'[Loop].pc = "check"
    BY <1>2, <2>1, Arrivals, Threads DEF Request
  <2>2. CASE task'[Loop].pc # "check"
    <3>1. ~Request
      BY <2>2, RequestMoves, Threads DEF Moves, Deciding, Unseen, Seen
    <3> QED
      BY <1>2, <2>2, <3>1, Arrivals, AttemptsCounted, Threads DEF Deciding, Unseen, Seen
  <2> QED
    BY <2>1, <2>2
<1> QED
  BY <1>1, <1>2

\* Opening a link gives up at most one that is in use, and no link is bound.
LEMMA OpenLinkLeaves ==
  ASSUME TypeInv, OpenLink
  PROVE  /\ attempts \in Attempt
         /\ \A k \in Attempt : link'[k].s = link[k].s
         /\ \A k \in Attempt : k # attempts /\ link[k].mgr # "open" => link'[k] = link[k]
<1> DEFINE G == GivenUp({links[asking]})
<1>1. task[Loop].s = attempts /\ attempts \in Attempt
  BY AttemptsTyped DEF OpenLink, At, TypeInv, LoopInv, Deciding, Unseen, Seen
<1>2. /\ G \in [Attempt -> LinkState]
      /\ \A k \in Attempt : G[k].s = link[k].s
      /\ \A k \in Attempt : link[k].mgr # "open" => G[k] = link[k]
  BY LinksTyped DEF GivenUp, LinkState
<1>3. link' = [G EXCEPT ![attempts].mgr = "open"]
  BY <1>1 DEF OpenLink
<1> HIDE DEF G
<1> QED
  BY <1>1, <1>2, <1>3 DEF LinkState

\* Releasing hands a link back for one closed session, binding takes one that
\* nobody has.
LEMMA LinkHands ==
  ASSUME TypeInv, RefInv, DropInv, LinkInv, Next
  PROVE  \/ \A k \in Attempt : link'[k].s = link[k].s
         \/ /\ Bind /\ UNCHANGED sess /\ task[Loop].k \in Attempt /\ task[Loop].k <= attempts
            /\ link[task[Loop].k].s = Nobody /\ link'[task[Loop].k].s = attempts
            /\ \A k \in Attempt : k # task[Loop].k => link'[k] = link[k]
         \/ \E u \in Thread :
              /\ task[u].pc = "release" /\ task'[u] # task[u] /\ UNCHANGED sess
              /\ task[u].k \in Attempt /\ task[u].s \in Attempt
              /\ link[task[u].k].s = task[u].s /\ link'[task[u].k].s = Nobody
              /\ ~Live(task[u].s) /\ sess[task[u].s].link = task[u].k
              /\ \A k \in Attempt : k # task[u].k => link'[k] = link[k]
<1>1. CASE BindingsStay
  BY <1>1 DEF BindingsStay
<1>2. CASE OpenLink
  BY <1>2, OpenLinkLeaves
<1>3. CASE Bind
  <2>1. task[Loop].pc = "bind" /\ task[Loop].s = attempts /\ UNCHANGED sess
    BY <1>3 DEF Bind, At, TypeInv, LoopInv, Deciding, Unseen, Seen
  <2>2. task[Loop].k \in Maybe
    BY TasksTyped, Threads
  <2>3. task[Loop].k \in Attempt /\ task[Loop].k <= attempts /\ link[task[Loop].k].s = Nobody
    BY <2>1, <2>2 DEF LinkInv, At, Maybe
  <2> QED
    BY <1>3, <2>1, <2>3, LinksTyped DEF Bind, LinkState
<1>4. ASSUME NEW u \in Thread, ReleaseLink(u)
      PROVE  \/ link' = link
             \/ /\ task[u].pc = "release" /\ task'[u] # task[u] /\ UNCHANGED sess
                /\ task[u].k \in Attempt /\ task[u].s \in Attempt
                /\ link[task[u].k].s = task[u].s /\ link'[task[u].k].s = Nobody
                /\ ~Live(task[u].s) /\ sess[task[u].s].link = task[u].k
                /\ \A k \in Attempt : k # task[u].k => link'[k] = link[k]
  <2>1. CASE task[u].k = Nobody
    BY <1>4, <2>1 DEF ReleaseLink
  <2>2. CASE task[u].k # Nobody
    <3>1. task[u].pc = "release" /\ task'[u].pc = "forget" /\ UNCHANGED sess
      BY <1>4, ReleaseLinkMoves DEF ReleaseLink, At, Moves
    <3>2. task[u].k \in Attempt /\ task[u].s \in Attempt
      BY <2>2, <3>1, AtWork, TasksTyped DEF TypeInv, Resting, Maybe
    <3>3. link[task[u].k].s = task[u].s /\ sess[task[u].s].link = task[u].k
      BY <2>2, <3>1 DEF LinkInv, At
    <3>4. sess[task[u].s].once = "running" /\ sess[task[u].s].st = "closed"
      BY <3>1, <3>2 DEF DropInv, Dropping, Drops
    <3>5. /\ link'[task[u].k].s = Nobody
          /\ \A k \in Attempt : k # task[u].k => link'[k] = link[k]
      BY <1>4, <2>2, <3>2, LinksTyped DEF ReleaseLink, LinkState
    <3> QED
      BY <3>1, <3>2, <3>3, <3>4, <3>5 DEF Live
  <2> QED
    BY <2>1, <2>2
<1> QED
  BY <1>1, <1>2, <1>3, <1>4, BindingsChange

\* A live session is the one its link is bound to.
LEMMA LinksStayExclusive ==
  ASSUME TypeInv, RefInv, DropInv, LinkInv, Next
  PROVE  LinkExclusive'
<1> SUFFICES ASSUME NEW s \in Attempt, sess'[s].st \in {"pending", "active"}, sess'[s].link # Nobody
             PROVE  link'[sess'[s].link].s = s
  BY DEF LinkExclusive, Live
<1>1. CASE Attach
  <2>1. /\ task[Loop].s = attempts /\ attempts \in Attempt /\ link[task[Loop].k].s = attempts
        /\ link' = link
    BY <1>1, AttemptsTyped DEF Attach, At, TypeInv, LoopInv, Deciding, Unseen, Seen, LinkInv,
       linkVars
  <2>2. /\ sess'[attempts].link = task[Loop].k
        /\ \A r \in Attempt : r # attempts => sess'[r] = sess[r]
    BY <1>1, <2>1, SessionsTyped DEF Attach, Session
  <2> QED
    BY <2>1, <2>2 DEF LinkInv, LinkExclusive, Live
<1>2. CASE Register
  <2>1. attempts \in Attempt /\ task[Loop].s = attempts /\ ~Registered(attempts) /\ link' = link
    BY <1>2, RegisterRegisters DEF Register, At, TypeInv, LoopInv, Deciding, Unseen, Seen, linkVars
  <2>2. /\ sess'[attempts].link = sess[attempts].link
        /\ \A r \in Attempt : r # attempts => sess'[r] = sess[r]
    BY <1>2, <2>1, SessionsTyped DEF Register, Session
  <2> QED
    BY <2>1, <2>2 DEF LinkInv, LinkExclusive, Live
<1>3. CASE SocketsStay
  <2>1. Live(s) /\ sess[s].link # Nobody /\ sess'[s].link = sess[s].link
    BY <1>3 DEF SocketsStay
  <2>2. link[sess[s].link].s = s /\ sess[s].link \in Attempt /\ s # Nobody
    BY <2>1, SessionsTyped DEF LinkInv, LinkExclusive, Session, Maybe, Attempt, Nobody
  <2> QED
    BY <2>1, <2>2, LinkHands
<1> QED
  BY <1>1, <1>2, <1>3, SocketsChange

\* Whoever releases a link has the session it is bound to.
LEMMA ReleasersStay ==
  ASSUME TypeInv, RefInv, DropInv, LinkInv, Next,
         NEW t \in Thread, task'[t].pc = "release", task'[t].k # Nobody
  PROVE  link'[task'[t].k].s = task'[t].s /\ sess'[task'[t].s].link = task'[t].k
<1>1. CASE task'[t] = task[t]
  <2> DEFINE s == task[t].s
             k == task[t].k
  <2>1. s \in Attempt /\ k \in Attempt /\ link[k].s = s /\ sess[s].link = k /\ s # Nobody
    BY <1>1, AtWork, TasksTyped DEF TypeInv, Resting, Maybe, LinkInv, At
  <2>2. task'[t].s = s /\ task'[t].k = k
    BY <1>1
  <2>3. \A u \in Thread : task'[u] # task[u] /\ task[u].pc = "release" => task[u].s # s
    BY <1>1 DEF DropInv, Dropping, Drops
  <2>4. sess'[s].link = k
    <3>1. CASE Attach
      <4>1. task[Loop].s = attempts /\ sess[attempts].link = Nobody
        BY <3>1 DEF Attach, At, TypeInv, LoopInv, Deciding, Unseen, Seen, LinkInv
      <4>2. \A r \in Attempt : r # attempts => sess'[r] = sess[r]
        BY <3>1, <4>1, SessionsTyped DEF Attach, Session
      <4>3. s # attempts /\ s \in Attempt /\ sess[s].link = k
        BY <2>1, <4>1 DEF Attempt, Nobody
      <4> HIDE DEF s, k
      <4> QED
        BY <4>2, <4>3
    <3>2. CASE Register
      BY <2>1, <3>2, SessionsTyped DEF Register, Session
    <3>3. CASE SocketsStay
      BY <2>1, <3>3 DEF SocketsStay
    <3> QED
      BY <3>1, <3>2, <3>3, SocketsChange
  <2> HIDE DEF s, k
  <2> QED
    BY <2>1, <2>2, <2>3, <2>4, LinkHands
<1>2. CASE task'[t] # task[t]
  <2> DEFINE s == task[t].s
  <2>1. DropBegin(t)
    BY <1>2, Arrivals
  <2>2. /\ s \in Attempt /\ Registered(s) /\ sess[s].once = "no" /\ link' = link
        /\ task'[t].s = s /\ task'[t].k = sess[s].link
    BY <2>1, InHandRegistered, DropBeginMoves DEF DropBegin, At, Resting, Unseen, Moves, linkVars
  <2>3. sess[s].st # "closed" /\ sess'[s].link = sess[s].link
    BY <2>1, <2>2, SessionsTyped DEF DropInv, DropBegin, Session
  <2>4. Live(s)
    BY <2>2, <2>3, SessionsTyped DEF Live, Registered, Session
  <2> QED
    BY <2>2, <2>3, <2>4 DEF LinkInv, LinkExclusive
<1> QED
  BY <1>1, <1>2

\* The link that Loop has found is free until Loop binds it.
LEMMA BoundNext ==
  ASSUME TypeInv, RefInv, DropInv, LinkInv, Next, task'[Loop].pc = "bind"
  PROVE  task'[Loop].k # Nobody /\ task'[Loop].k <= attempts' /\ link'[task'[Loop].k].s = Nobody
<1>1. CASE task'[Loop] = task[Loop] /\ attempts' = attempts /\ ~Bind
  <2>1. /\ task[Loop].k # Nobody /\ task[Loop].k <= attempts /\ link[task[Loop].k].s = Nobody
        /\ task[Loop].k \in Attempt
    BY <1>1, TasksTyped, Threads DEF LinkInv, At, Maybe
  <2> QED
    BY <1>1, <2>1, LinkHands
<1>2. CASE ReuseLink /\ attempts' = attempts
  <2>1. /\ task'[Loop].k = links[asking] /\ Reusable(links[asking]) /\ link' = link
        /\ task[Loop].pc = "link" /\ asking \in Client
    BY <1>2, ReuseLinkMoves, ClientsTyped DEF Moves, ReuseLink, At, linkVars, TypeInv, LoopInv,
       Deciding, Seen
  <2>2. links[asking] \in Attempt
    BY <2>1, LinksTyped DEF Reusable, Maybe
  <2>3. link[links[asking]] # NewLink
    BY <2>1 DEF Reusable, NewLink
  <2>4. links[asking] <= attempts
    BY <2>2, <2>3, AttemptsTyped DEF LinkInv
  <2> QED
    BY <1>2, <2>1, <2>4 DEF Reusable
<1>3. CASE OpenLink /\ attempts' = attempts
  <2>1. /\ task'[Loop].k = attempts /\ attempts \in Attempt /\ task[Loop].pc = "link" /\ attempts # Nobody
    BY <1>3, OpenLinkMoves, AttemptsTyped DEF Moves, OpenLink, At, TypeInv, LoopInv, Deciding, Seen,
       Unseen
  <2>2. link[attempts] = NewLink
    BY <2>1 DEF LinkInv
  <2>3. link'[attempts].s = link[attempts].s
    BY <1>3, <2>1, OpenLinkLeaves
  <2> QED
    BY <1>3, <2>1, <2>2, <2>3, AttemptsTyped DEF NewLink
<1> QED
  BY <1>1, <1>2, <1>3, LoopDecides DEF Deciding, Unseen, Seen

\* It stays bound until it is attached.
LEMMA AttachedNext ==
  ASSUME TypeInv, RefInv, DropInv, LinkInv, Next, task'[Loop].pc = "attach"
  PROVE  task'[Loop].k # Nobody /\ link'[task'[Loop].k].s = attempts'
<1>1. CASE task'[Loop] = task[Loop] /\ attempts' = attempts /\ ~Bind
  <2>1. /\ task[Loop].k # Nobody /\ link[task[Loop].k].s = attempts
        /\ task[Loop].k \in Attempt /\ sess[attempts].link = Nobody
    BY <1>1, TasksTyped, Threads DEF LinkInv, At, Maybe
  <2> QED
    BY <1>1, <2>1, LinkHands DEF Attempt, Nobody
<1>2. CASE Bind /\ attempts' = attempts
  <2>1. task'[Loop].k = task[Loop].k
    BY <1>2, BindMoves DEF Moves
  <2>2. task[Loop].pc = "bind" /\ task[Loop].s = attempts
    BY <1>2 DEF Bind, At, TypeInv, LoopInv, Deciding, Unseen, Seen
  <2>3. task[Loop].k \in Attempt
    BY <2>2, TasksTyped, Threads DEF LinkInv, At, Maybe
  <2>4. link'[task[Loop].k].s = attempts
    BY <1>2, <2>2, <2>3, LinksTyped DEF Bind, LinkState
  <2> QED
    BY <1>2, <2>1, <2>3, <2>4 DEF Attempt, Nobody
<1> QED
  BY <1>1, <1>2, LoopDecides DEF Deciding, Unseen, Seen

\* A session gets its link last.
LEMMA UnlinkedNext ==
  ASSUME TypeInv, RefInv, DropInv, LinkInv, Next
  PROVE  /\ \A s \in Attempt : sess'[s].st = "none" => sess'[s].link = Nobody
         /\ task'[Loop].pc \in {"acquire", "link", "bind", "attach"} => sess'[attempts'].link = Nobody
<1>1. \A s \in Attempt : sess'[s].link = sess[s].link \/ (Attach /\ s = attempts)
  <2>1. CASE Attach
    <3>1. task[Loop].s = attempts
      BY <2>1 DEF Attach, At, TypeInv, LoopInv, Deciding, Unseen, Seen
    <3> QED
      BY <2>1, <3>1, SessionsTyped DEF Attach, Session
  <2>2. CASE Register
    BY <2>2, SessionsTyped DEF Register, Session
  <2>3. CASE SocketsStay
    BY <2>3 DEF SocketsStay
  <2> QED
    BY <2>1, <2>2, <2>3, SocketsChange
<1>2. Attach => Registered(attempts)
  BY DEF Attach, At, TypeInv, LoopInv, Deciding, Unseen, Seen
<1>3. \A s \in Attempt : Registered(s) => sess'[s].st # "none"
  BY NothingForgotten DEF Later
<1>4. \A s \in Attempt : sess'[s].st = "none" => sess'[s].link = Nobody
  BY <1>1, <1>2, <1>3 DEF LinkInv, Registered
<1>5. ASSUME task'[Loop].pc \in {"acquire", "link", "bind", "attach"}
      PROVE  sess'[attempts'].link = Nobody
  <2>1. attempts' = attempts /\ ~Attach
    <3>1. CASE Attach
      BY <1>5, <3>1, AttachMoves DEF Moves
    <3>2. CASE Request
      BY <1>5, <3>2, RequestMoves DEF Moves
    <3> QED
      BY <3>1, <3>2, AttemptsCounted
  <2>2. task[Loop].pc \in {"register", "acquire", "link", "bind", "attach"}
    BY <1>5, LoopDecides DEF Deciding, Unseen, Seen, Register, Acquire, ReuseLink, OpenLink, Bind,
       At
  <2>3. attempts \in Attempt /\ sess[attempts].link = Nobody
    BY <2>2, AttemptsTyped DEF LinkInv, TypeInv, LoopInv, Deciding, Unseen, Seen
  <2> QED
    BY <1>1, <2>1, <2>3
<1> QED
  BY <1>4, <1>5

\* Attempts to come have used no link.
LEMMA FreshNext ==
  ASSUME TypeInv, RefInv, DropInv, LinkInv, Next, NEW k \in Attempt,
         k > attempts' \/ (k = attempts' /\ task'[Loop].pc \in Unseen \cup {"acquire", "link"})
  PROVE  link'[k] = NewLink
<1>1. /\ link[k] = NewLink
      /\ k > attempts \/ (k = attempts /\ ~OpenLink /\ ~Bind)
  <2>1. CASE k > attempts'
    BY <2>1, NothingForgotten, AttemptsTyped DEF Later, LinkInv
  <2>2. CASE k = attempts' /\ task'[Loop].pc \in Unseen \cup {"acquire", "link"}
    <3>1. CASE Request
      BY <2>2, <3>1, AttemptsTyped DEF Request, LinkInv
    <3>2. CASE ~Request
      <4>1. attempts' = attempts
        BY <3>2, AttemptsCounted
      <4>2. task[Loop].pc \in Unseen \cup {"acquire", "link"}
        BY <2>2, <3>2, LoopDecides DEF Deciding, Unseen, Seen, Check, TakeRedirect, PickBackend, Register,
           Acquire, At
      <4>3. ~OpenLink /\ ~Bind
        BY <2>2, OpenLinkMoves, BindMoves DEF Moves, Unseen
      <4> QED
        BY <2>2, <4>1, <4>2, <4>3 DEF LinkInv
    <3> QED
      BY <3>1, <3>2
  <2> QED
    BY <2>1, <2>2
<1>2. CASE BindingsStay
  BY <1>1, <1>2 DEF BindingsStay
<1>3. CASE OpenLink
  <2>1. k # attempts
    BY <1>1, <1>3, AttemptsTyped
  <2> QED
    BY <1>1, <1>3, <2>1, OpenLinkLeaves DEF NewLink
<1>4. CASE ~BindingsStay /\ ~OpenLink
  <2>1. link[k].s = Nobody
    BY <1>1 DEF NewLink
  <2>2. CASE Bind
    <3>1. task[Loop].pc = "bind"
      BY <2>2 DEF Bind, At
    <3>2. task[Loop].k <= attempts /\ task[Loop].k \in Maybe
      BY <3>1, TasksTyped, Threads DEF LinkInv, At
    <3>3. task[Loop].k # k
      BY <1>1, <2>2, <3>2, AttemptsTyped
    <3>4. \A j \in Attempt : j # task[Loop].k => link'[j] = link[j]
      BY <2>2, LinksTyped DEF Bind, LinkState
    <3> QED
      BY <1>1, <3>3, <3>4 DEF NewLink
  <2>3. ASSUME NEW u \in Thread, ReleaseLink(u)
        PROVE  link'[k] = link[k]
    <3>1. task[u].pc = "release" /\ task[u].s # Nobody
      BY <2>3, TasksTyped DEF ReleaseLink, At, Resting
    <3>2. task[u].k # k
      BY <2>1, <3>1 DEF LinkInv, At, Nobody, Attempt
    <3> QED
      BY <2>3, <3>2, LinksTyped DEF ReleaseLink
  <2> QED
    BY <1>1, <1>4, <2>2, <2>3, BindingsChange
<1> QED
  BY <1>2, <1>3, <1>4

\* The layer of links is kept.
LEMMA LinkKept ==
  ASSUME TypeInv, RefInv, DropInv, LinkInv, [Next]_vars
  PROVE  LinkInv'
<1>1. CASE UNCHANGED vars
  BY <1>1 DEF vars, LinkInv, LinkExclusive, Live, At, Registered
<1>2. CASE Next
  <2>1. LinkExclusive'
    BY <1>2, LinksStayExclusive
  <2>2. \A t \in Thread : task'[t].pc = "release" /\ task'[t].k # Nobody =>
          link'[task'[t].k].s = task'[t].s /\ sess'[task'[t].s].link = task'[t].k
    BY <1>2, ReleasersStay
  <2>3. /\ task'[Loop].pc = "bind" =>
             task'[Loop].k # Nobody /\ task'[Loop].k <= attempts' /\ link'[task'[Loop].k].s = Nobody
        /\ task'[Loop].pc = "attach" => task'[Loop].k # Nobody /\ link'[task'[Loop].k].s = attempts'
    BY <1>2, BoundNext, AttachedNext
  <2>4. \A k \in Attempt :
          k > attempts' \/ (k = attempts' /\ task'[Loop].pc \in Unseen \cup {"acquire", "link"})
            => link'[k] = NewLink
    BY <1>2, FreshNext
  <2> QED
    BY <1>2, <2>1, <2>2, <2>3, <2>4, UnlinkedNext DEF LinkInv, At, Registered
<1> QED
  BY <1>1, <1>2

\* What is said of links holds.
LEMMA LinksHold == Spec => []LinkInv
<1>1. Init => LinkInv
  <2> SUFFICES ASSUME Init PROVE LinkInv
    OBVIOUS
  <2>1. /\ \A t \in Thread : task[t].pc = "idle"
        /\ \A s \in Attempt : sess[s].link = Nobody
        /\ \A k \in Attempt : link[k] = NewLink
    BY DEF Init, Idle, NewSession, NewLink
  <2> QED
    BY <2>1, Threads DEF LinkInv, LinkExclusive, At
<1>2. TypeInv /\ RefInv /\ DropInv /\ LinkInv /\ [Next]_vars => LinkInv'
  BY LinkKept
<1> QED
  BY Foundation, DropsFoundation, <1>1, <1>2, PTL DEF Spec

\* Two live sessions never share an upstream socket, and the one a live session
\* has is bound to it, although links are reused, given up and swept while
\* sessions are dropped by whoever comes first.
THEOREM SocketsAreNotShared == Spec => []LinkExclusive
<1>1. LinkInv => LinkExclusive
  BY DEF LinkInv
<1> QED
  BY LinksHold, <1>1, PTL

\* A socket that nobody is bound to has a lease, or Loop is about to bind it.
LeaseInv ==
  \A k \in Attempt : link[k].mgr = "open" /\ link[k].s = Nobody =>
    link[k].lease # "zero" \/ (At(Loop, "bind") /\ task[Loop].k = k)

\* Whoever is unbound is leased, in every step.
LEMMA LeasesKept ==
  ASSUME TypeInv, RefInv, LinkInv, LeaseInv, Next
  PROVE  LeaseInv'
<1> SUFFICES ASSUME NEW k \in Attempt, link'[k].mgr = "open", link'[k].s = Nobody
             PROVE  link'[k].lease # "zero" \/ (task'[Loop].pc = "bind" /\ task'[Loop].k = k)
  BY DEF LeaseInv, At
<1>1. CASE OpenLink
  <2>1. /\ attempts \in Attempt /\ task[Loop].s = attempts /\ task[Loop].pc = "link"
        /\ link' = [GivenUp({links[asking]}) EXCEPT ![attempts].mgr = "open"]
    <3>1. task[Loop].pc = "link"
      BY <1>1 DEF OpenLink, At
    <3>2. attempts \in Attempt /\ task[Loop].s = attempts
      BY <3>1, AttemptsTyped DEF TypeInv, LoopInv, Deciding, Seen, Unseen
    <3> QED
      BY <1>1, <3>1, <3>2 DEF OpenLink
  <2>2. CASE k = attempts
    BY <1>1, <2>2, OpenLinkMoves DEF Moves, TypeInv, LoopInv, OpenLink, At, Deciding, Seen
  <2>3. CASE k # attempts
    <3>1. link[k].mgr = "open" /\ link[k].s = Nobody /\ link'[k].lease = link[k].lease
      BY <2>1, <2>3, LinksTyped DEF GivenUp, LinkState
    <3> QED
      BY <2>1, <3>1 DEF LeaseInv, At
  <2> QED
    BY <2>2, <2>3
<1>2. CASE Bind
  <2>1. task[Loop].k # k /\ task[Loop].k \in Maybe
    <3>1. task[Loop].k \in Maybe
      BY TasksTyped, Threads
    <3>2. task[Loop].s # Nobody
      BY <1>2, AtWork, Threads DEF Bind, At, TypeInv, Resting, Attempt, Nobody
    <3> QED
      BY <1>2, <3>1, <3>2, LinksTyped DEF Bind, LinkState
  <2>2. link'[k] = link[k]
    BY <1>2, <2>1, LinksTyped DEF Bind
  <2> QED
    BY <2>1, <2>2 DEF LeaseInv
<1>3. ASSUME NEW u \in Thread, ReleaseLink(u) PROVE link'[k].lease # "zero" \/ (task'[Loop].pc = "bind" /\ task'[Loop].k = k)
  <2>1. CASE link'[k] = link[k]
    <3>1. task[Loop].pc = "bind" => task'[Loop] = task[Loop]
      BY <1>3, ReleaseLinkMoves, Threads DEF Moves, ReleaseLink, At
    <3> QED
      BY <2>1, <3>1 DEF LeaseInv, At
  <2>2. CASE link'[k] # link[k]
    BY <1>3, <2>2, LinksTyped DEF ReleaseLink, LinkState
  <2> QED
    BY <2>1, <2>2
<1>4. CASE BindingsStay /\ ~Bind
  <2>1. link[k].mgr = "open" /\ link[k].s = Nobody
    BY <1>4 DEF BindingsStay
  <2>2. CASE link[k].lease # "zero"
    BY <1>4, <2>2 DEF BindingsStay
  <2>3. CASE task[Loop].pc = "bind" /\ task[Loop].k = k
    <3>1. ~Request /\ ~Register /\ ~Acquire
      BY <2>3 DEF Request, Register, Acquire, At
    <3>2. task'[Loop] = task[Loop]
      BY <1>4, <2>3, <3>1, LoopAdmits DEF LoopStays
    <3> QED
      BY <2>3, <3>2
  <2> QED
    BY <2>1, <2>2, <2>3 DEF LeaseInv, At
<1> QED
  BY <1>1, <1>2, <1>3, <1>4, BindingsChange

\* An upstream socket that is open is the one its address has in the table, so
\* an address never has two; and one that nobody is bound to has a lease, on
\* which it is reused or swept (link.go:37-67, 69-114, 116-169).  Nothing is
\* said of a socket that is bound to a session that has ended: it may stay so.
THEOREM SocketsAreAccounted == Spec => []LinksAccounted
<1>1. Init => LeaseInv
  BY DEF Init, LeaseInv
<1>2. TypeInv /\ RefInv /\ LinkInv /\ LeaseInv /\ [Next]_vars => LeaseInv'
  <2>1. ASSUME LeaseInv, UNCHANGED vars PROVE LeaseInv'
    BY <2>1 DEF LeaseInv, vars, At
  <2> QED
    BY <2>1, LeasesKept
<1>3. InTable /\ LeaseInv => LinksAccounted
  BY DEF InTable, LeaseInv, LinksAccounted
<1> QED
  BY Foundation, LinksHold, LinksStayInTable, <1>1, <1>2, <1>3, PTL DEF Spec

-----------------------------------------------------------------------------
(* Requests, and the peers that sessions get.                              *)

\* What is written to a session, and by whom.
FieldsKept ==
  /\ ClientReady \/ \A s \in Attempt : sess'[s].cpeer = sess[s].cpeer
  /\ (\E k \in Attempt : Activate(k)) \/ \A s \in Attempt : sess'[s].upeer = sess[s].upeer
  /\ Register \/ \A s \in Attempt : sess'[s].st = "none" <=> sess[s].st = "none"
  /\ \A s \in Attempt : s <= attempts => sess'[s].client = sess[s].client

\* Each field has its writer.
LEMMA SessionFields ==
  ASSUME TypeInv, RefInv, Next
  PROVE  FieldsKept
<1>1. CASE UNCHANGED <<sess>>
  BY <1>1 DEF FieldsKept
<1>2. ASSUME Request PROVE FieldsKept
  BY <1>2, SessionsTyped, AttemptsTyped DEF FieldsKept, Request, Session
<1>3. ASSUME TakeRedirect \/ PickBackend PROVE FieldsKept
  BY <1>3, ChoosesTarget DEF TargetChosen, FieldsKept
<1>4. ASSUME Register PROVE FieldsKept
  BY <1>4, SessionsTyped DEF FieldsKept, Register, Session
<1>5. ASSUME Attach PROVE FieldsKept
  <2>1. NamesKept
    BY <1>5, NamesAreKept
  <2> QED
    BY <1>5, <2>1, SessionsTyped DEF FieldsKept, NamesKept, Registered, Attach, Session
<1>6. ASSUME ClientReady PROVE FieldsKept
  <2>1. NamesKept
    BY <1>6, NamesAreKept
  <2> QED
    BY <1>6, <2>1, SessionsTyped DEF FieldsKept, NamesKept, Registered, ClientReady, Session
<1>7. ASSUME NEW t \in Thread, DropBegin(t) PROVE FieldsKept
  <2>1. NamesKept
    BY <1>7, NamesAreKept
  <2> QED
    <3>1. task[t].s \in Attempt
      BY <1>7, Departures, AtWork DEF Resting, TypeInv
    <3>2. \A x \in Attempt : sess'[x].cpeer = sess[x].cpeer /\ sess'[x].upeer = sess[x].upeer
      BY <1>7, <3>1, SessionsTyped DEF DropBegin, Session
    <3> QED
      BY <2>1, <3>2 DEF FieldsKept, NamesKept, Registered
<1>8. ASSUME NEW t \in Thread, Uncount(t) PROVE FieldsKept
  <2>1. NamesKept
    BY <1>8, NamesAreKept
  <2> QED
    <3>1. task[t].s \in Attempt
      BY <1>8, Departures, AtWork DEF Resting, TypeInv
    <3>2. \A x \in Attempt : sess'[x].cpeer = sess[x].cpeer /\ sess'[x].upeer = sess[x].upeer
      BY <1>8, <3>1, SessionsTyped DEF Uncount, Session
    <3> QED
      BY <2>1, <3>2 DEF FieldsKept, NamesKept, Registered
<1>9. ASSUME NEW k \in Attempt, Activate(k) PROVE FieldsKept
  <2>1. NamesKept
    BY <1>9, NamesAreKept
  <2> QED
    <3>1. Up(k) \in Thread /\ task[Up(k)].s \in Attempt
      BY <1>9, AtWork, Threads DEF Activate, At, Resting, TypeInv
    <3>2. \A x \in Attempt : sess'[x].cpeer = sess[x].cpeer
      BY <1>9, <3>1, SessionsTyped DEF Activate, Session
    <3> QED
      BY <1>9, <2>1, <3>2 DEF FieldsKept, NamesKept, Registered
<1>10. ASSUME NEW k \in Attempt, NEW b \in Backend, BackendAccepts(k, b) PROVE FieldsKept
  <2>1. NamesKept
    BY <1>10, NamesAreKept
  <2> QED
    <3>1. \A x \in Attempt : sess'[x].cpeer = sess[x].cpeer /\ sess'[x].upeer = sess[x].upeer
      <4>1. CASE sess' = sess
        BY <4>1
      <4>2. CASE link[k].s # Nobody /\ sess' = [sess EXCEPT ![link[k].s].st = "active"]
        BY <4>2, NamedAttempts, SessionsTyped DEF Session
      <4> QED
        BY <1>10, <4>1, <4>2 DEF BackendAccepts
    <3> QED
      BY <2>1, <3>1 DEF FieldsKept, NamesKept, Registered
<1> QED
  BY <1>1, <1>2, <1>3, <1>4, <1>5, <1>6, <1>7, <1>8, <1>9, <1>10, Writers DEF Written, Writes_sess

\* Loop resolves request n.
Resolves(n) ==
  /\ RunReject \/ RunAccept
  /\ n = Head(lq).s /\ n \in Attempt /\ n <= attempts /\ answer[n] = "none" /\ answer'[n] # "none"
  /\ answer'[n] = "accepted" => RunAccept
  /\ \A m \in Attempt : m # n => answer'[m] = answer[m]
  /\ req' = [req EXCEPT ![sess[n].client] = Nobody]

\* A request is made once, and resolved once.
LEMMA AnswersChange ==
  ASSUME TypeInv, RefInv, Next
  PROVE  UNCHANGED <<answer, req>> \/ Request \/ \E n \in Attempt : Resolves(n)
<1>1. CASE UNCHANGED <<req, answer>>
  BY <1>1
<1>2. ASSUME Request PROVE UNCHANGED <<answer, req>> \/ Request \/ \E n \in Attempt : Resolves(n)
  BY <1>2
<1>3. ASSUME RunReject PROVE UNCHANGED <<answer, req>> \/ Request \/ \E n \in Attempt : Resolves(n)
  <2>1. Head(lq).s \in Attempt /\ Head(lq).s <= attempts
    BY <1>3, HeadOfQueue DEF RunReject, HeadIs
  <2>2. CASE Unanswered(Head(lq).s)
    BY <1>3, <2>1, <2>2, AttemptsTyped DEF RunReject, Resolve, Unanswered, Resolves
  <2>3. CASE ~Unanswered(Head(lq).s)
    BY <1>3, <2>3 DEF RunReject
  <2> QED
    BY <2>2, <2>3
<1>4. ASSUME RunAccept PROVE UNCHANGED <<answer, req>> \/ Request \/ \E n \in Attempt : Resolves(n)
  <2> DEFINE n == Head(lq).s
  <2>1. /\ n \in Attempt /\ n <= attempts
        /\ IF answer[n] = "none"
             THEN /\ answer' = [answer EXCEPT ![n] = "accepted"]
                  /\ req' = [req EXCEPT ![sess[n].client] = Nobody]
             ELSE UNCHANGED <<answer, req>>
    <3>1. lq # <<>> /\ Head(lq).what = "accept"
      BY <1>4 DEF RunAccept, HeadIs
    <3>2. n \in Attempt /\ n <= attempts
      BY <3>1, HeadOfQueue
    <3> QED
      BY <1>4, <3>2 DEF RunAccept, Resolve, Unanswered
  <2>2. CASE answer[n] = "none"
    <3>1. n = Head(lq).s
      OBVIOUS
    <3> HIDE DEF n
    <3> QED
      BY <1>4, <2>1, <2>2, <3>1, AttemptsTyped DEF Resolves
  <2>3. CASE answer[n] # "none"
    BY <2>1, <2>3
  <2> QED
    BY <2>2, <2>3
<1> QED
  BY <1>1, <1>2, <1>3, <1>4, Writers DEF Written, Writes_req, Writes_answer

\* An address gets a session from Register alone.
LEMMA AddressesChange ==
  ASSUME TypeInv, RefInv, Next
  PROVE  \/ Register /\ byAddr' = [byAddr EXCEPT ![asking] = attempts]
         \/ \A d \in Client : byAddr'[d] \in {Nobody, byAddr[d]}
<1>1. CASE UNCHANGED <<byAddr>>
  BY <1>1
<1>2. ASSUME Register PROVE (Register /\ byAddr' = [byAddr EXCEPT ![asking] = attempts]) \/ \A d \in Client : byAddr'[d] \in {Nobody, byAddr[d]}
  BY <1>2, RegisterRegisters
<1>3. ASSUME NEW t \in Thread, Forget(t) PROVE (Register /\ byAddr' = [byAddr EXCEPT ![asking] = attempts]) \/ \A d \in Client : byAddr'[d] \in {Nobody, byAddr[d]}
  BY <1>3, ClientsTyped DEF Forget
<1> QED
  BY <1>1, <1>2, <1>3, Writers DEF Written, Writes_byAddr

\* A client has one request at most that is not resolved, and knows it.
LEMMA RequestKept ==
  ASSUME TypeInv, RefInv, RequestInv, [Next]_vars
  PROVE  RequestInv'
<1>1. CASE UNCHANGED vars
  BY <1>1 DEF vars, RequestInv
<1>2. CASE Request
  <2> DEFINE n == attempts + 1
  <2>1. asking \in Client /\ req[asking] = Nobody /\ n \in Attempt /\ answer[n] = "none"
    BY <1>2, ClientsTyped, AttemptsTyped DEF Request, At, TypeInv, LoopInv, AttemptInv, Deciding,
       Unseen, Seen
  <2>2. /\ attempts' = n /\ req' = [req EXCEPT ![asking] = n] /\ answer' = answer
        /\ sess' = [sess EXCEPT ![n].client = asking]
    BY <1>2 DEF Request
  <2>3. sess'[n].client = asking /\ \A m \in Attempt : m # n => sess'[m] = sess[m]
    BY <2>1, <2>2, SessionsTyped DEF Session
  <2>4. \A m \in Attempt : m <= n => m = n \/ m <= attempts
    BY AttemptsTyped
  <2>5. \A m \in Attempt : m <= attempts => m # n /\ m <= n
    BY AttemptsTyped
  <2> HIDE DEF n
  <2>6. ASSUME NEW m \in Attempt, m <= n, answer[m] = "none"
        PROVE  req'[sess'[m].client] = m
    <3>1. CASE m = n
      BY <2>1, <2>2, <2>3, <3>1, ClientsTyped
    <3>2. CASE m # n
      <4>1. req[sess[m].client] = m /\ m # Nobody /\ sess[m].client \in Client
        BY <2>4, <2>6, <3>2, ClientOfAttempt DEF RequestInv, Attempt, Nobody
      <4> QED
        BY <2>1, <2>2, <2>3, <3>2, <4>1, ClientsTyped
    <3> QED
      BY <3>1, <3>2
  <2>7. ASSUME NEW c \in Client, req'[c] # Nobody
        PROVE  req'[c] <= n /\ sess'[req'[c]].client = c /\ answer[req'[c]] = "none"
    <3>1. CASE c = asking
      BY <2>1, <2>2, <2>3, <3>1, ClientsTyped, AttemptsTyped DEF n
    <3>2. CASE c # asking
      <4>1. req'[c] = req[c] /\ req[c] \in Attempt
        BY <2>2, <2>7, <3>2, ClientsTyped DEF Maybe
      <4> QED
        BY <2>3, <2>5, <2>7, <4>1 DEF RequestInv
    <3> QED
      BY <3>1, <3>2
  <2> QED
    BY <2>2, <2>6, <2>7 DEF RequestInv
<1>3. CASE Next /\ ~Request
  <2>1. attempts' = attempts
    BY <1>3, AttemptsCounted
  <2>2. \A m \in Attempt : m <= attempts => sess'[m].client = sess[m].client /\ sess[m].client \in Client
    BY <1>3, SessionFields, ClientOfAttempt DEF FieldsKept
  <2>3. \A c \in Client : req[c] # Nobody => req[c] \in Attempt
    BY ClientsTyped DEF Maybe
  <2>4. CASE UNCHANGED <<answer, req>>
    BY <2>1, <2>2, <2>3, <2>4 DEF RequestInv
  <2>5. ASSUME NEW n \in Attempt, Resolves(n) PROVE RequestInv'
    <3>1. /\ n <= attempts /\ answer[n] = "none" /\ answer'[n] # "none"
          /\ \A m \in Attempt : m # n => answer'[m] = answer[m]
          /\ req' = [req EXCEPT ![sess[n].client] = Nobody]
      BY <2>5 DEF Resolves
    <3>2. sess[n].client \in Client /\ req[sess[n].client] = n
      BY <2>2, <3>1 DEF RequestInv
    <3>3. ASSUME NEW m \in Attempt, m <= attempts, answer'[m] = "none"
          PROVE  req'[sess'[m].client] = m
      <4>1. m # n /\ answer[m] = "none" /\ req[sess[m].client] = m
        BY <3>1, <3>3 DEF RequestInv
      <4>2. sess[m].client # sess[n].client
        BY <3>2, <4>1
      <4> QED
        BY <2>2, <3>1, <3>3, <4>1, <4>2, ClientsTyped
    <3>4. ASSUME NEW c \in Client, req'[c] # Nobody
          PROVE  req'[c] <= attempts /\ sess'[req'[c]].client = c /\ answer'[req'[c]] = "none"
      <4>1. c # sess[n].client /\ req'[c] = req[c] /\ req[c] # Nobody
        BY <3>1, <3>2, <3>4, ClientsTyped
      <4>2. req[c] \in Attempt /\ req[c] <= attempts /\ sess[req[c]].client = c /\ answer[req[c]] = "none"
        BY <2>3, <4>1 DEF RequestInv
      <4>3. req[c] # n
        BY <4>1, <4>2
      <4> QED
        BY <2>2, <3>1, <4>1, <4>2, <4>3
    <3> QED
      BY <2>1, <3>3, <3>4 DEF RequestInv
  <2> QED
    BY <1>3, <2>4, <2>5, AnswersChange
<1> QED
  BY <1>1, <1>2, <1>3

\* The client peer of a session is the one accepted for it.
LEMMA OwnPeerKept ==
  ASSUME TypeInv, RefInv, RequestInv, OwnPeerInv, [Next]_vars
  PROVE  OwnPeerInv'
<1>1. CASE UNCHANGED vars
  BY <1>1 DEF vars, OwnPeerInv, OwnClientPeer, At, Registered
<1>2. CASE Next
  <2>1. ASSUME NEW s \in Attempt
        PROVE  sess'[s].cpeer \in {Nobody, s}
    <3>1. CASE ClientReady
      <4>1. task[Loop].k = task[Loop].s
        BY <3>1 DEF ClientReady, OwnPeerInv
      <4> QED
        BY <3>1, <4>1, SessionsTyped DEF ClientReady, OwnPeerInv, OwnClientPeer, Session
    <3>2. CASE ~ClientReady
      BY <1>2, <3>2, SessionFields DEF FieldsKept, OwnPeerInv, OwnClientPeer
    <3> QED
      BY <3>1, <3>2
  <2>2. ASSUME task'[Loop].pc = "ready"
        PROVE  task'[Loop].s = task'[Loop].k
    <3>1. CASE task'[Loop] = task[Loop]
      BY <2>2, <3>1 DEF OwnPeerInv, At
    <3>2. CASE task'[Loop] # task[Loop]
      <4> DEFINE n == Head(lq).s
      <4>1. RunAccept
        BY <1>2, <2>2, <3>2, Arrivals, Threads
      <4>2. Registered(n) /\ answer[n] = "none" /\ n \in Attempt
        BY <3>2, <4>1, HeadOfQueue DEF RunAccept, HeadIs, Unanswered
      <4>3. byAddr[sess[n].client] # Nobody /\ task'[Loop].s = byAddr[sess[n].client] /\ task'[Loop].k = n
        BY <3>2, <4>1, RunAcceptMoves DEF Moves
      <4> QED
        BY <4>2, <4>3 DEF OwnPeerInv
    <3> QED
      BY <3>1, <3>2
  <2>3. ASSUME NEW n \in Attempt, sess'[n].st # "none", answer'[n] = "none"
        PROVE  byAddr'[sess'[n].client] \in {Nobody, n}
    <3>1. answer[n] = "none"
      BY <1>2, <2>3, AnswersChange DEF Resolves, Request
    <3>2. CASE Register
      <4>1. /\ task[Loop].s = attempts /\ attempts \in Attempt /\ sess[attempts].client = asking
            /\ answer[attempts] = "none" /\ asking \in Client
        BY <3>2, RegisterRegisters, ClientsTyped DEF Register, At, TypeInv, LoopInv, Deciding,
           Unseen, Seen
      <4>2. n <= attempts
        <5>1. CASE n = attempts
          BY <5>1, AttemptsTyped
        <5>2. CASE n # attempts
          <6>1. sess'[n] = sess[n]
            BY <3>2, <4>1, <5>2, SessionsTyped DEF Register
          <6> QED
            BY <2>3, <6>1, RegisteredAttempted DEF Registered
        <5> QED
          BY <5>1, <5>2
      <4>3. sess'[n].client = sess[n].client /\ sess[n].client \in Client
        BY <1>2, <4>2, SessionFields, ClientOfAttempt DEF FieldsKept
      <4>4. sess[n].client = asking => n = attempts
        BY <3>1, <4>1, <4>2, AttemptsTyped DEF RequestInv
      <4>5. CASE n = attempts
        <5>1. byAddr' = [byAddr EXCEPT ![asking] = attempts]
          BY <2>3, <3>2, <4>5, RegisterRegisters DEF TypeInv, LoopInv, Register, At, Deciding,
             Unseen, Registered
        <5> QED
          BY <4>1, <4>3, <4>5, <5>1, ClientsTyped
      <4>6. CASE n # attempts
        <5>1. sess'[n] = sess[n]
          BY <3>2, <4>1, <4>6, SessionsTyped DEF Register
        <5>2. byAddr[sess[n].client] \in {Nobody, n}
          BY <2>3, <3>1, <5>1 DEF OwnPeerInv, Registered
        <5> QED
          BY <1>2, <4>3, <4>4, <4>6, <5>2, AddressesChange, ClientsTyped
      <4> QED
        BY <4>5, <4>6
    <3>3. CASE ~Register
      <4>1. Registered(n)
        BY <1>2, <2>3, <3>3, SessionFields DEF FieldsKept, Registered
      <4>2. sess'[n].client = sess[n].client /\ sess[n].client \in Client
        BY <1>2, <4>1, RegisteredAttempted, SessionFields, ClientOfAttempt DEF FieldsKept
      <4>3. byAddr[sess[n].client] \in {Nobody, n}
        BY <3>1, <4>1 DEF OwnPeerInv
      <4> QED
        BY <1>2, <3>3, <4>2, <4>3, AddressesChange
    <3> QED
      BY <3>2, <3>3
  <2> QED
    BY <2>1, <2>2, <2>3 DEF OwnPeerInv, OwnClientPeer, At, Registered
<1> QED
  BY <1>1, <1>2

\* The client peer of a session is the one accepted for it: whatever address
\* and session have become of since the backend answered, the connection never
\* ends up with an earlier or a later session of the same client.
THEOREM PeersMeetTheirSessions == Spec => []OwnClientPeer
<1>1. Init => RequestInv /\ OwnPeerInv
  <2> SUFFICES ASSUME Init PROVE RequestInv /\ OwnPeerInv
    OBVIOUS
  <2>1. /\ \A s \in Attempt : sess[s].cpeer = Nobody /\ sess[s].st = "none"
        /\ \A c \in Client : req[c] = Nobody
        /\ \A t \in Thread : task[t].pc = "idle"
        /\ attempts = 0
    BY DEF Init, Idle, NewSession
  <2>2. \A n \in Attempt : ~(n <= attempts)
    BY <2>1 DEF Attempt
  <2> QED
    BY <2>1, <2>2, Threads DEF RequestInv, OwnPeerInv, OwnClientPeer, At, Registered
<1>2. TypeInv /\ RefInv /\ RequestInv /\ [Next]_vars => RequestInv'
  BY RequestKept
<1>3. TypeInv /\ RefInv /\ RequestInv /\ OwnPeerInv /\ [Next]_vars => OwnPeerInv'
  BY OwnPeerKept
<1>4. OwnPeerInv => OwnClientPeer
  BY DEF OwnPeerInv
<1> QED
  BY Foundation, <1>1, <1>2, <1>3, <1>4, PTL DEF Spec

-----------------------------------------------------------------------------
(* Upstream peers, and the answers they lead to.                           *)

\* Only Confirm queues that a request is accepted.
AcceptsPosted ==
  \A cmd \in Orders(lq') : cmd.what = "accept" =>
    cmd \in Orders(lq) \/ \E k \in Attempt : Confirm(k) /\ cmd.s = task[Up(k)].s

\* Nothing else that is posted accepts.
LEMMA PostedNoAccept ==
  ASSUME NEW what \in {"reject", "disconnect", "stop"}, NEW s \in Maybe, Posts({Cmd(what, s)}) \/ lq' = lq
  PROVE  AcceptsPosted
<1>1. Cmd(what, s).what # "accept"
  BY DEF Cmd
<1>2. Orders(lq') \subseteq Orders(lq) \cup {Cmd(what, s)}
  BY DEF Posts
<1> QED
  BY <1>1, <1>2 DEF AcceptsPosted

\* Every step keeps to that.
LEMMA WhoAccepts ==
  ASSUME TypeInv, RefInv, Next
  PROVE  AcceptsPosted
<1>1. CASE UNCHANGED <<lq>>
  BY <1>1 DEF AcceptsPosted
<1>2. ASSUME NEW c \in Client, ClientTalks(c) PROVE AcceptsPosted
  BY <1>2, ClientTalksPosts, PostedNoAccept DEF Maybe
<1>3. ASSUME Request PROVE AcceptsPosted
  <2>1. attempts + 1 \in Attempt
    BY <1>3, AttemptsTyped DEF Request, At, TypeInv, LoopInv, Deciding, Unseen, Seen
  <2> QED
    BY <1>3, <2>1, RequestPosts, PostedNoAccept DEF Maybe
<1>4. ASSUME Check PROVE AcceptsPosted
  <2>1. task[Loop].s \in Attempt
    BY <1>4, AtWork, Threads DEF Check, At, TypeInv, Resting
  <2> QED
    BY <1>4, <2>1, CheckPosts, PostedNoAccept DEF Maybe
<1>5. ASSUME PickBackend PROVE AcceptsPosted
  <2>1. task[Loop].s \in Attempt
    BY <1>5, AtWork, Threads DEF PickBackend, At, TypeInv, Resting
  <2> QED
    BY <1>5, <2>1, PickBackendPosts, PostedNoAccept DEF Maybe
<1>6. ASSUME OpenLinkFails PROVE AcceptsPosted
  <2>1. task[Loop].s \in Attempt
    BY <1>6, AtWork, Threads DEF OpenLinkFails, At, TypeInv, Resting
  <2> QED
    BY <1>6, <2>1, OpenLinkFailsPosts, PostedNoAccept DEF Maybe
<1>7. ASSUME RunReject PROVE AcceptsPosted
  <2>1. lq # <<>> /\ lq' = Tail(lq)
    BY <1>7 DEF RunReject, HeadIs
  <2> QED
    BY <2>1, HeadOfQueue DEF AcceptsPosted
<1>8. ASSUME RunAccept PROVE AcceptsPosted
  <2>1. Orders(Tail(lq)) \subseteq Orders(lq) /\ Cmd("disconnect", Head(lq).s).what # "accept"
    BY <1>8, HeadOfQueue DEF RunAccept, HeadIs, Cmd
  <2> QED
    BY <1>8, <2>1, RunAcceptPosts DEF AcceptsPosted
<1>9. ASSUME RunDisconnect PROVE AcceptsPosted
  <2>1. lq # <<>> /\ lq' = Tail(lq)
    BY <1>9 DEF RunDisconnect, HeadIs
  <2> QED
    BY <2>1, HeadOfQueue DEF AcceptsPosted
<1>10. ASSUME RunStop PROVE AcceptsPosted
  <2>1. lq # <<>> /\ lq' = Tail(lq)
    BY <1>10 DEF RunStop, HeadIs
  <2> QED
    BY <2>1, HeadOfQueue DEF AcceptsPosted
<1>11. ASSUME LoopEnds PROVE AcceptsPosted
  BY <1>11 DEF LoopEnds, Orders, AcceptsPosted
<1>12. ASSUME NEW t \in Thread, CloseSession(t) PROVE AcceptsPosted
  <2>1. CASE Orders(lq') = Orders(lq)
    BY <2>1 DEF AcceptsPosted
  <2> QED
    BY <1>12, <2>1, CloseSessionPosts, PostedNoAccept DEF Maybe
<1>13. ASSUME NEW t \in Thread, Refused(t) PROVE AcceptsPosted
  <2>1. task[t].s \in Attempt
    BY <1>13, AtWork, Threads DEF Refused, At, TypeInv, Resting
  <2> QED
    BY <1>13, <2>1, RefusedPosts, PostedNoAccept DEF Maybe
<1>14. ASSUME NEW t \in Thread, Failed(t) PROVE AcceptsPosted
  <2>1. task[t].s \in Attempt
    BY <1>14, AtWork, Threads DEF Failed, At, TypeInv, Resting
  <2> QED
    BY <1>14, <2>1, RefusedPosts, PostedNoAccept DEF Maybe
<1>15. ASSUME NEW k \in Attempt, Confirm(k) PROVE AcceptsPosted
  <2>1. Cmd("accept", task[Up(k)].s).s = task[Up(k)].s
    BY DEF Cmd
  <2> QED
    BY <1>15, <2>1, ConfirmPosts DEF Posts, AcceptsPosted
<1>16. ASSUME StopListening PROVE AcceptsPosted
  BY <1>16, StopListeningPosts, PostedNoAccept DEF Maybe
<1> QED
  BY <1>1, <1>2, <1>3, <1>4, <1>5, <1>6, <1>7, <1>8, <1>9, <1>10, <1>11, <1>12, <1>13, <1>14, <1>15,
     <1>16, Writers DEF Written, Writes_lq

\* A dial is made for an attempt.
LEMMA DialsStayNamed ==
  ASSUME TypeInv, DialInv, Next
  PROVE  DialInv'
<1>1. CASE UNCHANGED <<up>>
  BY <1>1 DEF DialInv
<1>2. ASSUME NEW k \in Attempt, RunConnect(k) PROVE DialInv'
  <2> DEFINE cmd == Head(uq[k])
  <2>1. cmd.s # Nobody
    BY <1>2, HeadUp DEF RunConnect, HeadIs, Order
  <2> HIDE DEF cmd
  <2>2. up' = up \/ up' = [up EXCEPT ![k][cmd.b] = Dialed(cmd.s)]
    BY <1>2 DEF RunConnect, cmd
  <2>3. /\ \A b \in Backend : up'[k][b] \in {up[k][b], Dialed(cmd.s)}
        /\ \A j \in Attempt : j # k => up'[j] = up[j]
    BY <2>2, LinksTyped
  <2> QED
    BY <2>1, <2>3 DEF DialInv, Dialed
<1>3. ASSUME NEW k \in Attempt, RunUpDisconnect(k) PROVE DialInv'
  <2> DEFINE n == Head(uq[k]).s
  <2>1. \A b \in Backend : up'[k][b] \in {up[k][b], [id |-> n, st |-> "closing"]}
    BY <1>3, LinksTyped DEF RunUpDisconnect
  <2>2. \A j \in Attempt : j # k => up'[j] = up[j]
    BY <1>3, LinksTyped DEF RunUpDisconnect
  <2> QED
    BY <2>1, <2>2 DEF DialInv
<1>4. ASSUME NEW k \in Attempt, RunUpStop(k) PROVE DialInv'
  BY <1>4, LinksTyped DEF DialInv, RunUpStop, Connected, Shutdown, NoPeer, PeerState
<1>5. ASSUME NEW k \in Attempt, UpEnds(k) PROVE DialInv'
  BY <1>5, LinksTyped DEF DialInv, UpEnds, Connected, Shutdown, NoPeer, PeerState
<1>6. ASSUME NEW k \in Attempt, NEW b \in Backend, BackendAccepts(k, b) PROVE DialInv'
  BY <1>6, LinksTyped DEF DialInv, BackendAccepts, Connected, Shutdown, NoPeer, PeerState
<1>7. ASSUME NEW k \in Attempt, NEW b \in Backend, BackendMismatch(k, b) PROVE DialInv'
  BY <1>7, LinksTyped DEF DialInv, BackendMismatch, Connected, Shutdown, NoPeer, PeerState
<1>8. ASSUME NEW k \in Attempt, NEW b \in Backend, NEW rejected \in BOOLEAN, DialFails(k, b, rejected) PROVE DialInv'
  BY <1>8, LinksTyped DEF DialInv, DialFails, Connected, Shutdown, NoPeer, PeerState
<1>9. ASSUME NEW k \in Attempt, NEW b \in Backend, BackendGone(k, b) PROVE DialInv'
  BY <1>9, LinksTyped DEF DialInv, BackendGone, Connected, Shutdown, NoPeer, PeerState
<1>10. ASSUME NEW k \in Attempt, NEW b \in Backend, UpPeerForgotten(k, b) PROVE DialInv'
  BY <1>10, LinksTyped DEF DialInv, UpPeerForgotten, Connected, Shutdown, NoPeer, PeerState
<1> QED
  BY <1>1, <1>2, <1>3, <1>4, <1>5, <1>6, <1>7, <1>8, <1>9, <1>10, Writers DEF Written, Writes_up

\* What has been found out about a backend is not forgotten.
LEMMA PeerFound ==
  ASSUME TypeInv, RefInv, AcceptInv, Next, NEW s \in Attempt, sess[s].upeer # Nobody
  PROVE  sess'[s].upeer # Nobody
<1>1. ASSUME NEW k \in Attempt, Activate(k) PROVE sess'[s].upeer # Nobody
  <2>1. task[Up(k)].k # Nobody
    BY <1>1, Threads DEF AcceptInv, Activate
  <2> QED
    BY <1>1, <2>1, SessionsTyped DEF Activate, Session
<1> QED
  BY <1>1, SessionFields DEF FieldsKept

\* A request is accepted once its session has an upstream peer.
LEMMA AcceptKept ==
  ASSUME TypeInv, RefInv, DialInv, AcceptInv, [Next]_vars
  PROVE  AcceptInv'
<1>1. CASE UNCHANGED vars
  BY <1>1 DEF vars, AcceptInv, AcceptedHasBackend, At
<1>2. CASE Next
  <2>1. \A cmd \in Orders(lq) : cmd.what = "accept" => cmd.s \in Attempt /\ sess[cmd.s].upeer # Nobody
    BY DEF AcceptInv, TypeInv, QueueInv, Orders, Order, Command, Maybe, Attempt, Nobody
  <2>2. ASSUME NEW t \in Thread, task[t].pc = "confirm"
        PROVE  task[t].s \in Attempt /\ sess[task[t].s].upeer # Nobody
    BY <2>2, AtWork DEF AcceptInv, At, TypeInv, Resting
  <2>3. ASSUME NEW s \in Attempt, answer'[s] = "accepted"
        PROVE  sess'[s].upeer # Nobody
    <3>1. CASE answer'[s] = answer[s]
      BY <1>2, <2>3, <3>1, PeerFound DEF AcceptInv, AcceptedHasBackend
    <3>2. CASE answer'[s] # answer[s]
      <4>1. PICK n \in Attempt : Resolves(n)
        BY <1>2, <3>2, AnswersChange DEF Request
      <4>2. n = s /\ RunAccept /\ s = Head(lq).s
        BY <2>3, <3>2, <4>1 DEF Resolves
      <4>3. Head(lq) \in Orders(lq) /\ Head(lq).what = "accept"
        BY <4>2, HeadOfQueue DEF RunAccept, HeadIs
      <4> QED
        BY <1>2, <2>1, <4>2, <4>3, PeerFound
    <3> QED
      BY <3>1, <3>2
  <2>4. ASSUME NEW cmd \in Orders(lq'), cmd.what = "accept"
        PROVE  sess'[cmd.s].upeer # Nobody
    <3>1. CASE cmd \in Orders(lq)
      BY <1>2, <2>1, <2>4, <3>1, PeerFound
    <3>2. ASSUME NEW k \in Attempt, Confirm(k), cmd.s = task[Up(k)].s PROVE sess'[cmd.s].upeer # Nobody
      BY <1>2, <2>2, <3>2, PeerFound, Threads DEF Confirm, At
    <3> QED
      BY <1>2, <2>4, <3>1, <3>2, WhoAccepts DEF AcceptsPosted
  <2>5. ASSUME NEW t \in Thread, task'[t].pc = "confirm"
        PROVE  sess'[task'[t].s].upeer # Nobody
    <3>1. CASE task'[t] = task[t]
      BY <1>2, <2>2, <2>5, <3>1, PeerFound
    <3>2. CASE task'[t] # task[t]
      <4>1. PICK k \in Attempt : t = Up(k) /\ Activate(k)
        BY <1>2, <2>5, <3>2, Arrivals
      <4>2. task'[t].s = task[t].s /\ task[t].s \in Attempt /\ task[t].k # Nobody
        BY <4>1, ActivateMoves, AtWork DEF Activate, At, TypeInv, Resting, Moves, AcceptInv
      <4> QED
        BY <4>1, <4>2, SessionsTyped DEF Activate, Session
    <3> QED
      BY <3>1, <3>2
  <2>6. ASSUME NEW t \in Thread, task'[t].pc = "activate"
        PROVE  task'[t].k # Nobody
    <3>1. CASE task'[t] = task[t]
      BY <2>6, <3>1 DEF AcceptInv, At
    <3>2. CASE task'[t] # task[t]
      <4>1. PICK k \in Attempt, b \in Backend : t = Up(k) /\ BackendAccepts(k, b)
        BY <1>2, <2>6, <3>2, Arrivals
      <4>2. up[k][b].id # Nobody
        BY <4>1 DEF BackendAccepts, DialInv
      <4> QED
        BY <3>2, <4>1, <4>2, BackendAcceptsMoves DEF Moves
    <3> QED
      BY <3>1, <3>2
  <2> QED
    BY <2>3, <2>4, <2>5, <2>6 DEF AcceptInv, AcceptedHasBackend, At
<1> QED
  BY <1>1, <1>2

\* The backend decides: a request is accepted only once its session has the
\* upstream peer that a backend answered, whatever becomes of the session while
\* the answer passes from the goroutine of the upstream socket to the loop
\* (proxy.go:251-267).
THEOREM BackendDecides == Spec => []AcceptedHasBackend
<1>1. Init => DialInv /\ AcceptInv
  <2> SUFFICES ASSUME Init PROVE DialInv /\ AcceptInv
    OBVIOUS
  <2>1. Orders(lq) = {}
    BY DEF Init, Orders
  <2>2. \A t \in Thread : task[t].pc = "idle"
    BY DEF Init, Idle
  <2> QED
    BY <2>1, <2>2 DEF Init, DialInv, AcceptInv, AcceptedHasBackend, At, NoPeer
<1>2. TypeInv /\ DialInv /\ [Next]_vars => DialInv'
  BY DialsStayNamed DEF vars, DialInv
<1>3. TypeInv /\ RefInv /\ DialInv /\ AcceptInv /\ [Next]_vars => AcceptInv'
  BY AcceptKept
<1>4. AcceptInv => AcceptedHasBackend
  BY DEF AcceptInv
<1> QED
  BY Foundation, <1>1, <1>2, <1>3, <1>4, PTL DEF Spec

-----------------------------------------------------------------------------
(* Close.                                                                  *)

\* Only OpenLink opens a link.
LEMMA LinksOpened ==
  ASSUME TypeInv, RefInv, Next, ~OpenLink, NEW k \in Attempt, link'[k].mgr = "open"
  PROVE  link[k].mgr = "open"
<1>1. CASE BindingsStay
  BY <1>1 DEF BindingsStay
<1>2. CASE Bind
  BY <1>2, LinksTyped DEF Bind, LinkState
<1>3. ASSUME NEW u \in Thread, ReleaseLink(u) PROVE link[k].mgr = "open"
  BY <1>3, LinksTyped DEF ReleaseLink, LinkState
<1> QED
  BY <1>1, <1>2, <1>3, BindingsChange

\* When Close collects the links, none of them stays open.
LEMMA LinksCollected ==
  ASSUME TypeInv, InTable, StopAllLinks, NEW k \in Attempt
  PROVE  link'[k].mgr # "open"
<1> DEFINE ks == {links[c] : c \in Client} \ {Nobody}
<1>1. link' = GivenUp(ks)
  BY DEF StopAllLinks
<1>2. link[k].mgr = "open" => k \in ks
  BY DEF InTable, Attempt, Nobody
<1> HIDE DEF ks
<1> QED
  BY <1>1, <1>2, LinksTyped DEF GivenUp, LinkState

\* What Close relies on lasts.
LEMMA ShutdownKept ==
  ASSUME TypeInv, RefInv, InTable, ShutdownInv, [Next]_vars
  PROVE  ShutdownInv'
<1>1. CASE UNCHANGED vars
  BY <1>1 DEF vars, ShutdownInv, At
<1>2. CASE Next
  <2>1. listening = "ended" => listening' = "ended" /\ task'[Loop] = task[Loop] /\ task[Loop].pc = "idle"
    <3>1. CASE listening = "ended"
      <4>1. task[Loop].pc = "idle"
        BY <3>1 DEF ShutdownInv, At
      <4>2. ~RunStop /\ ~LoopEnds
        BY <3>1 DEF RunStop, LoopEnds, LoopFree
      <4> QED
        BY <1>2, <3>1, <4>1, <4>2, ListeningChanges, LoopAtRest
    <3> QED
      BY <3>1
  <2>2. listening' = "ended" => task'[Loop].pc = "idle"
    <3>1. CASE LoopEnds
      BY <3>1 DEF LoopEnds, LoopFree, At
    <3>2. CASE RunStop
      BY <3>2 DEF RunStop
    <3> QED
      BY <1>2, <2>1, <3>1, <3>2, ListeningChanges
  <2>3. ASSUME task'[Closer].pc \in {"drain", "closed"}
        PROVE  listening' = "ended" /\ \A k \in Attempt : link'[k].mgr # "open"
    <3>1. CASE StopAllLinks
      <4>1. listening = "ended"
        BY <3>1 DEF StopAllLinks, Ended, TypeInv, TypeOK
      <4> QED
        BY <2>1, <3>1, <4>1, LinksCollected
    <3>2. CASE ~StopAllLinks
      <4>1. task[Closer].pc \in {"drain", "closed"}
        <5>1. CASE task'[Closer] = task[Closer]
          BY <2>3, <5>1
        <5>2. CASE task'[Closer] # task[Closer]
          BY <1>2, <2>3, <3>2, <5>2, Arrivals, Threads DEF LinksStopped, At
        <5> QED
          BY <5>1, <5>2
      <4>2. listening = "ended" /\ \A k \in Attempt : link[k].mgr # "open"
        BY <4>1 DEF ShutdownInv
      <4>3. ~OpenLink
        BY <2>1, <4>2 DEF OpenLink, At
      <4> QED
        BY <1>2, <2>1, <4>2, <4>3, LinksOpened
    <3> QED
      BY <3>1, <3>2
  <2> QED
    BY <2>2, <2>3 DEF ShutdownInv, At
<1> QED
  BY <1>1, <1>2

\* Once Close has returned the loop of the listener has ended and no upstream
\* socket is left open, however it interleaves with a request that is still
\* opening one (proxy.go:120-144): Close waits for the loop before it
\* collects the sockets, and nothing opens one without the loop.
THEOREM ClosingLeavesNothing == Spec => []ShutdownComplete
<1>1. Init => ShutdownInv
  BY Threads DEF Init, ShutdownInv, Idle
<1>2. ShutdownInv => ShutdownComplete
  BY DEF ShutdownInv, ShutdownComplete, At, Ended
<1>3. TypeInv /\ RefInv /\ InTable /\ ShutdownInv /\ [Next]_vars => ShutdownInv'
  BY ShutdownKept
<1> QED
  BY <1>1, <1>2, <1>3, Foundation, LinksStayInTable, PTL DEF Spec

-----------------------------------------------------------------------------
(* A proxy on which nobody closes sessions from outside.                   *)

\* Without commands that close sessions nobody collects any.
LEMMA NobodyStartsClosing ==
  ASSUME Undisturbed, TypeInv, RefInv, NobodyCloses, Next
  PROVE  NobodyCloses'
<1>1. CASE UNCHANGED <<task>>
  BY <1>1 DEF NobodyCloses
<1>2. ASSUME NEW c \in Client, ConnectRequest(c) PROVE NobodyCloses'
  BY <1>2, ConnectRequestMoves, Threads DEF Moves, NobodyCloses
<1>3. ASSUME NEW c \in Client, ClientGone(c) PROVE NobodyCloses'
  BY <1>3, ClientGoneMoves, Threads DEF Moves, NobodyCloses
<1>4. ASSUME Request PROVE NobodyCloses'
  BY <1>4, RequestMoves, Threads DEF Moves, NobodyCloses
<1>5. ASSUME Check PROVE NobodyCloses'
  BY <1>5, CheckMoves, Threads DEF Moves, NobodyCloses
<1>6. ASSUME TakeRedirect PROVE NobodyCloses'
  BY <1>6, TakeRedirectMoves, Threads DEF Moves, NobodyCloses
<1>7. ASSUME PickBackend PROVE NobodyCloses'
  BY <1>7, PickBackendMoves, Threads DEF Moves, NobodyCloses
<1>8. ASSUME Register PROVE NobodyCloses'
  BY <1>8, RegisterMoves, Threads DEF Moves, NobodyCloses
<1>9. ASSUME Acquire PROVE NobodyCloses'
  BY <1>9, AcquireMoves, Threads DEF Moves, NobodyCloses
<1>10. ASSUME ReuseLink PROVE NobodyCloses'
  BY <1>10, ReuseLinkMoves, Threads DEF Moves, NobodyCloses
<1>11. ASSUME OpenLink PROVE NobodyCloses'
  BY <1>11, OpenLinkMoves, Threads DEF Moves, NobodyCloses
<1>12. ASSUME OpenLinkFails PROVE NobodyCloses'
  BY <1>12, OpenLinkFailsMoves, Threads DEF Moves, NobodyCloses
<1>13. ASSUME Bind PROVE NobodyCloses'
  BY <1>13, BindMoves, Threads DEF Moves, NobodyCloses
<1>14. ASSUME Attach PROVE NobodyCloses'
  BY <1>14, AttachMoves, Threads DEF Moves, NobodyCloses
<1>15. ASSUME Dial PROVE NobodyCloses'
  BY <1>15, DialMoves, Threads DEF Moves, NobodyCloses
<1>16. ASSUME ClientReady PROVE NobodyCloses'
  BY <1>16, ClientReadyMoves, Threads DEF Moves, NobodyCloses
<1>17. ASSUME RunAccept PROVE NobodyCloses'
  BY <1>17, RunAcceptMoves, Threads DEF Moves, NobodyCloses
<1>18. ASSUME RunDisconnect PROVE NobodyCloses'
  BY <1>18, RunDisconnectMoves, Threads DEF Moves, NobodyCloses
<1>19. ASSUME NEW t \in Thread, CloseSession(t) PROVE NobodyCloses'
  BY <1>19, CloseSessionMoves, Departures, Threads DEF Moves, Returns, NobodyCloses
<1>20. ASSUME NEW t \in Thread, DropBegin(t) PROVE NobodyCloses'
  BY <1>20, DropBeginMoves, Departures, Threads DEF Moves, NobodyCloses
<1>21. ASSUME NEW t \in Thread, DropWaited(t) PROVE NobodyCloses'
  BY <1>21, DropWaitedMoves, Departures, Threads DEF Moves, Returns, NobodyCloses
<1>22. ASSUME NEW t \in Thread, ReleaseLink(t) PROVE NobodyCloses'
  BY <1>22, ReleaseLinkMoves, Departures, Threads DEF Moves, NobodyCloses
<1>23. ASSUME NEW t \in Thread, Forget(t) PROVE NobodyCloses'
  BY <1>23, ForgetMoves, Departures, Threads DEF Moves, NobodyCloses
<1>24. ASSUME NEW t \in Thread, Uncount(t) PROVE NobodyCloses'
  BY <1>24, UncountMoves, Departures, Threads DEF Moves, Returns, NobodyCloses
<1>25. ASSUME NEW t \in Thread, Refused(t) PROVE NobodyCloses'
  BY <1>25, RefusedMoves, Departures, Threads DEF Moves, NobodyCloses
<1>26. ASSUME NEW t \in Thread, Failed(t) PROVE NobodyCloses'
  BY <1>26, FailedMoves, Departures, Threads DEF Moves, NobodyCloses
<1>27. ASSUME NEW k \in Attempt, Activate(k) PROVE NobodyCloses'
  BY <1>27, ActivateMoves, Threads DEF Moves, NobodyCloses
<1>28. ASSUME NEW k \in Attempt, Confirm(k) PROVE NobodyCloses'
  BY <1>28, ConfirmMoves, Threads DEF Moves, NobodyCloses
<1>29. ASSUME NEW k \in Attempt, RunUpDisconnect(k) PROVE NobodyCloses'
  BY <1>29, RunUpDisconnectMoves, Threads DEF Moves, NobodyCloses
<1>30. ASSUME NEW k \in Attempt, NEW b \in Backend, BackendAccepts(k, b) PROVE NobodyCloses'
  BY <1>30, BackendAcceptsMoves, Threads DEF Moves, NobodyCloses
<1>31. ASSUME NEW k \in Attempt, NEW b \in Backend, NEW rejected \in BOOLEAN, DialFails(k, b, rejected) PROVE NobodyCloses'
  BY <1>31, DialFailsMoves, Threads DEF Moves, NobodyCloses
<1>32. ASSUME NEW k \in Attempt, NEW b \in Backend, BackendGone(k, b) PROVE NobodyCloses'
  BY <1>32, BackendGoneMoves, Threads DEF Moves, NobodyCloses
<1>33. ASSUME NEW s \in Attempt, TimerFires(s) PROVE NobodyCloses'
  BY <1>33, TimerFiresMoves, TimersDiffer, Threads DEF Moves, NobodyCloses
<1>34. ASSUME NEW s \in Attempt, RelayBreaks(s) PROVE NobodyCloses'
  BY <1>34, RelayBreaksMoves, Threads DEF Moves, NobodyCloses
<1>35. ASSUME NEW s \in Attempt, Kick(s) PROVE NobodyCloses'
  BY <1>35 DEF Kick, ConsoleMay, Undisturbed
<1>36. ASSUME NEW s \in Attempt, NEW b \in Backend, Move(s, b) PROVE NobodyCloses'
  BY <1>36 DEF Move, ConsoleMay, Undisturbed
<1>37. ASSUME NEW ip \in IP, Ban(ip) PROVE NobodyCloses'
  BY <1>37 DEF Ban, ConsoleMay, Undisturbed
<1>38. ASSUME CloseProxy PROVE NobodyCloses'
  BY <1>38 DEF CloseProxy, Undisturbed
<1>39. ASSUME StopListening PROVE NobodyCloses'
  BY <1>39 DEF StopListening, At, NobodyCloses
<1>40. ASSUME StopAllLinks PROVE NobodyCloses'
  BY <1>40 DEF StopAllLinks, At, NobodyCloses
<1>41. ASSUME LinksStopped PROVE NobodyCloses'
  BY <1>41 DEF LinksStopped, At, NobodyCloses
<1> QED
  BY <1>1, <1>2, <1>3, <1>4, <1>5, <1>6, <1>7, <1>8, <1>9, <1>10, <1>11, <1>12, <1>13, <1>14,
     <1>15, <1>16, <1>17, <1>18, <1>19, <1>20, <1>21, <1>22, <1>23, <1>24, <1>25, <1>26, <1>27,
     <1>28, <1>29, <1>30, <1>31, <1>32, <1>33, <1>34, <1>35, <1>36, <1>37, <1>38, <1>39, <1>40,
     <1>41, Writers DEF Written, Writes_task

\* A session can be come upon through its timer, its link, as an active one, or
\* by its client while Loop has nothing in hand.
Found(s) ==
  \/ s \in armed \/ sess[s].st = "active" \/ sess[s].link # Nobody
  \/ \E k \in Attempt : link[k].s = s
  \/ At(Loop, "idle")

\* Goroutines other than Loop take up sessions they come upon.
OthersFind == \A u \in Thread : u # Loop => task'[u].s \in {task[u].s, Nobody} \/ Found(task'[u].s)

\* They do so in every step.
LEMMA OthersOnlyFind ==
  ASSUME Undisturbed, TypeInv, RefInv, NobodyCloses, Next
  PROVE  OthersFind
<1>1. CASE UNCHANGED <<task>>
  BY <1>1 DEF OthersFind
<1>2. ASSUME NEW c \in Client, ConnectRequest(c) PROVE OthersFind
  BY <1>2, ConnectRequestMoves DEF Moves, OthersFind
<1>3. ASSUME NEW c \in Client, ClientGone(c) PROVE OthersFind
  BY <1>3, ClientGoneMoves DEF Moves, OthersFind
<1>4. ASSUME Request PROVE OthersFind
  BY <1>4, RequestMoves DEF Moves, OthersFind
<1>5. ASSUME Check PROVE OthersFind
  BY <1>5, CheckMoves DEF Moves, OthersFind
<1>6. ASSUME TakeRedirect PROVE OthersFind
  BY <1>6, TakeRedirectMoves DEF Moves, OthersFind
<1>7. ASSUME PickBackend PROVE OthersFind
  BY <1>7, PickBackendMoves DEF Moves, OthersFind
<1>8. ASSUME Register PROVE OthersFind
  BY <1>8, RegisterMoves DEF Moves, OthersFind
<1>9. ASSUME Acquire PROVE OthersFind
  BY <1>9, AcquireMoves DEF Moves, OthersFind
<1>10. ASSUME ReuseLink PROVE OthersFind
  BY <1>10, ReuseLinkMoves DEF Moves, OthersFind
<1>11. ASSUME OpenLink PROVE OthersFind
  BY <1>11, OpenLinkMoves DEF Moves, OthersFind
<1>12. ASSUME OpenLinkFails PROVE OthersFind
  BY <1>12, OpenLinkFailsMoves DEF Moves, OthersFind
<1>13. ASSUME Bind PROVE OthersFind
  BY <1>13, BindMoves DEF Moves, OthersFind
<1>14. ASSUME Attach PROVE OthersFind
  BY <1>14, AttachMoves DEF Moves, OthersFind
<1>15. ASSUME Dial PROVE OthersFind
  BY <1>15, DialMoves DEF Moves, OthersFind
<1>16. ASSUME ClientReady PROVE OthersFind
  BY <1>16, ClientReadyMoves DEF Moves, OthersFind
<1>17. ASSUME RunAccept PROVE OthersFind
  BY <1>17, RunAcceptMoves DEF Moves, OthersFind
<1>18. ASSUME RunDisconnect PROVE OthersFind
  BY <1>18, RunDisconnectMoves DEF Moves, OthersFind
<1>19. ASSUME NEW t \in Thread, CloseSession(t) PROVE OthersFind
  BY <1>19, CloseSessionMoves DEF Moves, Returns, NobodyCloses, OthersFind
<1>20. ASSUME NEW t \in Thread, DropBegin(t) PROVE OthersFind
  BY <1>20, DropBeginMoves DEF Moves, NobodyCloses, OthersFind
<1>21. ASSUME NEW t \in Thread, DropWaited(t) PROVE OthersFind
  BY <1>21, DropWaitedMoves DEF Moves, Returns, NobodyCloses, OthersFind
<1>22. ASSUME NEW t \in Thread, ReleaseLink(t) PROVE OthersFind
  BY <1>22, ReleaseLinkMoves DEF Moves, NobodyCloses, OthersFind
<1>23. ASSUME NEW t \in Thread, Forget(t) PROVE OthersFind
  BY <1>23, ForgetMoves DEF Moves, NobodyCloses, OthersFind
<1>24. ASSUME NEW t \in Thread, Uncount(t) PROVE OthersFind
  BY <1>24, UncountMoves DEF Moves, Returns, NobodyCloses, OthersFind
<1>25. ASSUME NEW t \in Thread, Refused(t) PROVE OthersFind
  BY <1>25, RefusedMoves DEF Moves, NobodyCloses, OthersFind
<1>26. ASSUME NEW t \in Thread, Failed(t) PROVE OthersFind
  BY <1>26, FailedMoves DEF Moves, NobodyCloses, OthersFind
<1>27. ASSUME NEW k \in Attempt, Activate(k) PROVE OthersFind
  BY <1>27, ActivateMoves DEF Moves, OthersFind
<1>28. ASSUME NEW k \in Attempt, Confirm(k) PROVE OthersFind
  BY <1>28, ConfirmMoves DEF Moves, OthersFind
<1>29. ASSUME NEW k \in Attempt, RunUpDisconnect(k) PROVE OthersFind
  BY <1>29, RunUpDisconnectMoves DEF Moves, OthersFind, Found
<1>30. ASSUME NEW k \in Attempt, NEW b \in Backend, BackendAccepts(k, b) PROVE OthersFind
  BY <1>30, BackendAcceptsMoves DEF Moves, OthersFind, Found
<1>31. ASSUME NEW k \in Attempt, NEW b \in Backend, NEW rejected \in BOOLEAN, DialFails(k, b, rejected) PROVE OthersFind
  BY <1>31, DialFailsMoves DEF Moves, OthersFind, Found
<1>32. ASSUME NEW k \in Attempt, NEW b \in Backend, BackendGone(k, b) PROVE OthersFind
  BY <1>32, BackendGoneMoves DEF Moves, OthersFind, Found
<1>33. ASSUME NEW s \in Attempt, TimerFires(s) PROVE OthersFind
  BY <1>33, TimerFiresMoves DEF Moves, OthersFind, Found, TimerFires
<1>34. ASSUME NEW s \in Attempt, RelayBreaks(s) PROVE OthersFind
  BY <1>34, RelayBreaksMoves DEF Moves, OthersFind, Found, RelayBreaks,
     ClientFloods, BackendFloods, PumpFails, LoopFree
<1>35. ASSUME NEW s \in Attempt, Kick(s) PROVE OthersFind
  BY <1>35 DEF Kick, ConsoleMay, Undisturbed
<1>36. ASSUME NEW s \in Attempt, NEW b \in Backend, Move(s, b) PROVE OthersFind
  BY <1>36 DEF Move, ConsoleMay, Undisturbed
<1>37. ASSUME NEW ip \in IP, Ban(ip) PROVE OthersFind
  BY <1>37 DEF Ban, ConsoleMay, Undisturbed
<1>38. ASSUME CloseProxy PROVE OthersFind
  BY <1>38 DEF CloseProxy, Undisturbed
<1>39. ASSUME StopListening PROVE OthersFind
  BY <1>39 DEF StopListening, At, NobodyCloses
<1>40. ASSUME StopAllLinks PROVE OthersFind
  BY <1>40 DEF StopAllLinks, At, NobodyCloses
<1>41. ASSUME LinksStopped PROVE OthersFind
  BY <1>41 DEF LinksStopped, At, NobodyCloses
<1> QED
  BY <1>1, <1>2, <1>3, <1>4, <1>5, <1>6, <1>7, <1>8, <1>9, <1>10, <1>11, <1>12, <1>13, <1>14,
     <1>15, <1>16, <1>17, <1>18, <1>19, <1>20, <1>21, <1>22, <1>23, <1>24, <1>25, <1>26, <1>27,
     <1>28, <1>29, <1>30, <1>31, <1>32, <1>33, <1>34, <1>35, <1>36, <1>37, <1>38, <1>39, <1>40,
     <1>41, Writers DEF Written, Writes_task

\* A session that nobody knows of stays so, while Loop waits to count it.
LEMMA StaysPrivate ==
  ASSUME Undisturbed, TypeInv, RefInv, NobodyCloses, LinkInv, PrivateInv, Next,
         task[Loop].pc = "acquire", task'[Loop] = task[Loop], attempts' = attempts
  PROVE  PrivateInv'
<1> DEFINE n == attempts
<1>1. /\ n \in Attempt /\ sess[n].st = "pending" /\ n \notin armed
      /\ \A t \in Thread : t # Loop => task[t].s # n
      /\ \A k \in Attempt : link[k].s # n
  BY AttemptsTyped DEF PrivateInv, At, TypeInv, LoopInv, Deciding, Seen
<1>2. n # Nobody /\ ~Found(n)
  BY <1>1 DEF Found, Attempt, Nobody, LinkInv, At
<1>3. ~Request /\ ~TakeRedirect /\ ~PickBackend /\ ~Register /\ ~Attach /\ ~ClientReady /\ ~Bind /\ ~OpenLink /\ ~Dial
  BY DEF Request, TakeRedirect, PickBackend, Register, Attach, ClientReady, Bind, OpenLink, Dial, At
<1>4. \A t \in Thread : t # Loop => task'[t].s # n
  BY <1>1, <1>2, OthersOnlyFind DEF OthersFind
<1>5. \A k \in Attempt : link'[k].s # n
  <2>1. CASE BindingsStay
    BY <1>1, <2>1 DEF BindingsStay
  <2>2. ASSUME NEW t \in Thread, ReleaseLink(t) PROVE \A k \in Attempt : link'[k].s # n
    BY <1>1, <1>2, <2>2, LinksTyped DEF ReleaseLink, LinkState
  <2> QED
    BY <1>3, <2>1, <2>2, BindingsChange
<1>6. n \notin armed'
  BY <1>1, <1>3, Writers DEF Written, Writes_armed, TimerFires
<1>7. sess'[n].st = "pending"
  <2>1. CASE UNCHANGED sess
    BY <1>1, <2>1
  <2>2. ASSUME NEW t \in Thread, DropBegin(t) \/ Uncount(t) PROVE sess'[n].st = "pending"
    <3>1. t # Loop
      BY <2>2 DEF DropBegin, Uncount, At
    <3> QED
      BY <1>1, <2>2, <3>1, SessionsTyped DEF DropBegin, Uncount, Session
  <2>3. ASSUME NEW k \in Attempt, Activate(k) PROVE sess'[n].st = "pending"
    BY <1>1, <2>3, SessionsTyped DEF Activate, Session
  <2>4. ASSUME NEW k \in Attempt, NEW b \in Backend, BackendAccepts(k, b) PROVE sess'[n].st = "pending"
    BY <1>1, <2>4, SessionsTyped DEF BackendAccepts, Session
  <2> QED
    BY <1>3, <2>1, <2>2, <2>3, <2>4, Writers DEF Written, Writes_sess
<1> QED
  BY <1>4, <1>5, <1>6, <1>7 DEF PrivateInv, At

\* A session just registered is known to Loop and the tables alone.
LEMMA RegisteredPrivately ==
  ASSUME TypeInv, RefInv, Register
  PROVE  PrivateInv'
<1>1. /\ attempts \in Attempt /\ ~Registered(attempts) /\ attempts' = attempts
      /\ task[Loop].s = attempts
  BY RegisterRegisters DEF Register, At, TypeInv, LoopInv, Deciding, Unseen, listenVars
<1>2. sess'[attempts].st = "pending"
  BY RegisterRegisters DEF Moves
<1>3. \A t \in Thread : t # Loop => task'[t].s # attempts
  <2>1. attempts # Nobody
    BY <1>1 DEF Attempt, Nobody
  <2> QED
    BY <1>1, <2>1, RegisterMoves DEF Moves, RefInv, TasksRefer
<1>4. \A k \in Attempt : link'[k].s # attempts
  BY <1>1 DEF Register, linkVars, RefInv, LinksRefer, Attempt, Nobody
<1>5. attempts \notin armed'
  BY <1>1 DEF Register, RefInv, TablesRefer
<1> QED
  BY <1>1, <1>2, <1>3, <1>4, <1>5 DEF PrivateInv, At

\* No step makes a session known before it is counted.
LEMMA PrivateKept ==
  ASSUME Undisturbed, TypeInv, RefInv, NobodyCloses, LinkInv, PrivateInv, Next
  PROVE  PrivateInv'
<1>1. SUFFICES ASSUME task'[Loop].pc = "acquire" PROVE PrivateInv'
  BY DEF PrivateInv, At
<1>2. \/ task'[Loop] = task[Loop] /\ attempts' = attempts
      \/ Register
  BY <1>1, LoopDecides DEF Deciding, Seen
<1> QED
  BY <1>1, <1>2, StaysPrivate, RegisteredPrivately

-----------------------------------------------------------------------------
(* The counters without such commands.                                     *)

\* The players that backends are counted to have.
PlayersStay == \A b \in Backend : pool'[b].players = pool[b].players

\* They are counted by two operations of the pool alone.
LEMMA PlayersOfOperators ==
  ASSUME NEW p \in [Backend -> BackendState], NEW b, NEW c \in Backend
  PROVE  /\ MarkSuccess(p, b)[c].players = p[c].players
         /\ MarkFailure(p, b)[c].players = p[c].players
         /\ ProbeDue(p, b)[c].players = p[c].players
<1>1. DOMAIN p[c] = {"enabled", "healthy", "rested", "failures", "players"}
  BY DEF BackendState
<1>2. MarkSuccess(p, b)[c].players = p[c].players
  BY <1>1 DEF MarkSuccess, BackendState
<1>3. MarkFailure(p, b)[c].players = p[c].players
  BY <1>1 DEF MarkFailure, BackendState
<1>4. ProbeDue(p, b)[c].players = p[c].players
  BY <1>1 DEF ProbeDue, BackendState
<1> QED
  BY <1>2, <1>3, <1>4

\* No other step changes them.
LEMMA PlayersChange ==
  ASSUME TypeInv, RefInv, Next
  PROVE  PlayersStay \/ Acquire \/ \E u \in Thread : Uncount(u)
<1>1. CASE UNCHANGED <<pool>>
  BY <1>1 DEF PlayersStay
<1>2. ASSUME Acquire PROVE PlayersStay \/ Acquire \/ \E u \in Thread : Uncount(u)
  BY <1>2
<1>3. ASSUME NEW t \in Thread, Uncount(t) PROVE PlayersStay \/ Acquire \/ \E u \in Thread : Uncount(u)
  BY <1>3
<1>4. ASSUME NEW t \in Thread, Failed(t) PROVE PlayersStay \/ Acquire \/ \E u \in Thread : Uncount(u)
  BY <1>4, PoolTyped, PlayersOfOperators DEF Failed, PlayersStay
<1>5. ASSUME NEW k \in Attempt, Confirm(k) PROVE PlayersStay \/ Acquire \/ \E u \in Thread : Uncount(u)
  BY <1>5, PoolTyped, PlayersOfOperators DEF Confirm, PlayersStay
<1>6. ASSUME NEW b \in Backend, BackendRests(b) PROVE PlayersStay \/ Acquire \/ \E u \in Thread : Uncount(u)
  BY <1>6, PoolTyped, PlayersOfOperators DEF BackendRests, PlayersStay
<1>7. ASSUME NEW b \in Backend, NEW on \in BOOLEAN, SetBackendEnabled(b, on) PROVE PlayersStay \/ Acquire \/ \E u \in Thread : Uncount(u)
  <2>1. pool' = SetEnabled(pool, b, on)
    BY <1>7 DEF SetBackendEnabled
  <2>2. \A x \in Backend : pool'[x].players = pool[x].players
    BY <2>1, PoolTyped DEF SetEnabled, BackendState
  <2> QED
    BY <2>2 DEF PlayersStay
<1> QED
  BY <1>1, <1>2, <1>3, <1>4, <1>5, <1>6, <1>7, Writers DEF Written, Writes_pool

\* Loop waits to count a session as it did before.
WaitingStays ==
  /\ task'[Loop].pc = "acquire" <=> task[Loop].pc = "acquire"
  /\ task'[Loop].pc = "acquire" => asking' = asking /\ attempts' = attempts

\* A count grows with its set.
LEMMA TallyGrows ==
  ASSUME NEW S \in SUBSET Attempt, NEW s \in Attempt, s \notin S, NEW c \in Nat, c = Cardinality(S)
  PROVE  c + 1 = Cardinality(S \cup {s})
  BY FiniteHeld, FS_AddElement

\* It shrinks with its set, and is not zero by then, although one member may
\* not have been counted yet.
LEMMA TallyShrinks ==
  ASSUME NEW S \in SUBSET Attempt, NEW s \in S, NEW c \in Nat, NEW q \in {0, 1},
         c + q = Cardinality(S), q = 1 => \E r \in S : r # s
  PROVE  c >= 1 /\ (c - 1) + q = Cardinality(S \ {s})
<1>1. IsFiniteSet(S) /\ Cardinality(S) \in Nat /\ IsFiniteSet(S \ {s}) /\ Cardinality(S \ {s}) \in Nat
  BY FiniteHeld
<1>2. Cardinality(S \ {s}) = Cardinality(S) - 1
  BY <1>1, FS_RemoveElement
<1>3. q = 1 => Cardinality(S \ {s}) # 0
  BY <1>1, FS_EmptySet
<1> QED
  BY <1>1, <1>2, <1>3

\* What is still to be counted.
LEMMA WaitingCounts ==
  ASSUME TypeInv
  PROVE  /\ AllToCount \in {0, 1}
         /\ \A ip \in IP : ToCount(ip) \in {0, 1}
         /\ \A b \in Backend : ToPlay(b) \in {0, 1}
         /\ count \in [IP -> Nat] /\ total \in Nat
         /\ \A b \in Backend : pool[b].players \in Nat
         /\ AllHeld \in SUBSET Attempt
         /\ \A ip \in IP : HeldOf(ip) \in SUBSET Attempt
         /\ \A b \in Backend : HeldAt(b) \in SUBSET Attempt
<1>1. \A b \in Backend : pool[b].players \in Nat
  BY PoolTyped DEF BackendState
<1> QED
  BY <1>1, RestTyped DEF AllToCount, ToCount, ToPlay, AllHeld, HeldOf, HeldAt

\* It stays so while Loop waits.
LEMMA WaitingLasts ==
  ASSUME TypeInv, NamesLast, WaitingStays
  PROVE  /\ AllToCount' = AllToCount
         /\ \A ip \in IP : ToCount(ip)' = ToCount(ip)
         /\ \A b \in Backend : ToPlay(b)' = ToPlay(b)
<1>1. task[Loop].pc = "acquire" => attempts \in Attempt /\ Registered(attempts)
  BY AttemptsTyped DEF TypeInv, LoopInv, Deciding, Seen
<1> QED
  BY <1>1 DEF AllToCount, ToCount, LoopAt, ToPlay, NamesLast, WaitingStays

\* Nothing to count, nothing counted.
LEMMA CountStays ==
  ASSUME TypeInv, RefInv, CountInv, NamesLast, HeldStay, WaitingStays,
         UNCHANGED <<count, total>>, PlayersStay
  PROVE  CountInv'
  BY HeldSetsStay, WaitingLasts DEF CountInv, PlayersStay

\* A session registered is to be counted.
LEMMA RegisterCounts ==
  ASSUME TypeInv, RefInv, DropInv, CountInv, NamesLast, Register
  PROVE  CountInv'
<1>1. UNCHANGED <<count, total, pool>> /\ task[Loop].pc = "register"
  BY DEF Register, gateVars, At
<1>2. task'[Loop].pc = "acquire" /\ asking' = asking /\ attempts' = attempts
  BY RegisterMoves DEF Moves, Register, listenVars
<1>3. AllToCount = 0 /\ (\A ip \in IP : ToCount(ip) = 0) /\ \A b \in Backend : ToPlay(b) = 0
  BY <1>1 DEF AllToCount, ToCount, LoopAt, ToPlay
<1>4. /\ AllToCount' = 1
      /\ \A ip \in IP : ToCount(ip)' = IF IpOf[asking] = ip THEN 1 ELSE 0
      /\ \A b \in Backend : ToPlay(b)' = IF sess'[attempts].target = b THEN 1 ELSE 0
  BY <1>2 DEF AllToCount, ToCount, LoopAt, ToPlay
<1>5. attempts \in Attempt /\ attempts \notin AllHeld /\ AllHeld' = AllHeld \cup {attempts}
  BY HeldSetsGrow
<1>6. total' + AllToCount' = Cardinality(AllHeld')
  BY <1>1, <1>3, <1>4, <1>5, WaitingCounts, TallyGrows DEF CountInv
<1>7. ASSUME NEW ip \in IP
      PROVE  count'[ip] + ToCount(ip)' = Cardinality(HeldOf(ip)')
  <2>1. /\ count[ip] \in Nat /\ count[ip] = Cardinality(HeldOf(ip)) /\ count'[ip] = count[ip]
        /\ HeldOf(ip) \in SUBSET Attempt /\ attempts \notin HeldOf(ip)
    BY <1>1, <1>3, <1>5, WaitingCounts DEF CountInv, HeldOf, AllHeld
  <2>2. count[ip] + 1 = Cardinality(HeldOf(ip) \cup {attempts})
    BY <1>5, <2>1, TallyGrows
  <2>3. HeldOf(ip)' = IF IpOf[asking] = ip THEN HeldOf(ip) \cup {attempts} ELSE HeldOf(ip)
    BY HeldSetsGrow
  <2> QED
    BY <1>4, <2>1, <2>2, <2>3
<1>8. ASSUME NEW b \in Backend
      PROVE  pool'[b].players + ToPlay(b)' = Cardinality(HeldAt(b)')
  <2>1. /\ pool[b].players \in Nat /\ pool[b].players = Cardinality(HeldAt(b)) /\ pool'[b] = pool[b]
        /\ HeldAt(b) \in SUBSET Attempt /\ attempts \notin HeldAt(b)
    BY <1>1, <1>3, <1>5, WaitingCounts DEF CountInv, HeldAt, AllHeld
  <2>2. pool[b].players + 1 = Cardinality(HeldAt(b) \cup {attempts})
    BY <1>5, <2>1, TallyGrows
  <2>3. HeldAt(b)' = IF sess'[attempts].target = b THEN HeldAt(b) \cup {attempts} ELSE HeldAt(b)
    BY HeldSetsGrow
  <2> QED
    BY <1>4, <2>1, <2>2, <2>3
<1> QED
  BY <1>6, <1>7, <1>8 DEF CountInv

\* What was to be counted is.
LEMMA AcquireCounts ==
  ASSUME TypeInv, RefInv, CountInv, NamesLast, HeldStay, Acquire
  PROVE  CountInv'
<1> DEFINE own == IpOf[asking]
           at  == sess[attempts].target
<1>1. /\ task[Loop].pc = "acquire" /\ task[Loop].s = attempts
      /\ attempts \in Attempt /\ asking \in Client
  BY ClientsTyped, AttemptsTyped DEF Acquire, At, TypeInv, LoopInv, Deciding, Seen
<1>2. task'[Loop].pc = "link"
  BY AcquireMoves DEF Moves
<1>3. AllToCount' = 0 /\ (\A ip \in IP : ToCount(ip)' = 0) /\ \A b \in Backend : ToPlay(b)' = 0
  BY <1>2 DEF AllToCount, ToCount, LoopAt, ToPlay
<1>4. /\ AllToCount = 1
      /\ \A ip \in IP : ToCount(ip) = IF own = ip THEN 1 ELSE 0
      /\ \A b \in Backend : ToPlay(b) = IF at = b THEN 1 ELSE 0
  BY <1>1 DEF AllToCount, ToCount, LoopAt, ToPlay
<1>5. /\ total' = total + 1 /\ count' = [count EXCEPT ![own] = count[own] + 1]
      /\ pool' = [pool EXCEPT ![at].players = @ + 1]
  BY <1>1 DEF Acquire, Acquired, AddPlayer
<1>6. /\ AllHeld' = AllHeld /\ (\A ip \in IP : HeldOf(ip)' = HeldOf(ip))
      /\ \A b \in Backend : HeldAt(b)' = HeldAt(b)
  BY HeldSetsStay
<1> HIDE DEF own, at
<1>7. \A ip \in IP : count'[ip] = IF own = ip THEN count[ip] + 1 ELSE count[ip]
  BY <1>5, WaitingCounts
<1>8. \A b \in Backend : pool'[b].players = IF at = b THEN pool[b].players + 1 ELSE pool[b].players
  BY <1>5, PoolTyped DEF BackendState
<1> QED
  BY <1>3, <1>4, <1>5, <1>6, <1>7, <1>8, WaitingCounts DEF CountInv

\* What is taken out of the counters is in them.
LEMMA UncountCounts ==
  ASSUME TypeInv, RefInv, DropInv, CountInv, PrivateInv, NamesLast, NEW t \in Thread, Uncount(t)
  PROVE  CountInv'
<1> DEFINE s   == task[t].s
           own == IpOf[sess[s].client]
           at  == sess[s].target
           n   == attempts
<1>1. /\ s \in AllHeld /\ AllHeld' = AllHeld \ {s} /\ s \in Attempt
      /\ \A ip \in IP : HeldOf(ip)' = IF own = ip THEN HeldOf(ip) \ {s} ELSE HeldOf(ip)
      /\ \A b \in Backend : HeldAt(b)' = IF at = b THEN HeldAt(b) \ {s} ELSE HeldAt(b)
  BY HeldSetsShrink
<1>2. WaitingStays
  <2>1. UNCHANGED <<attempts, asking>>
    BY DEF Uncount, listenVars
  <2> QED
    BY <2>1, UncountMoves, Departures, Threads DEF Moves, Returns, WaitingStays
<1>3. task[Loop].pc = "acquire" =>
        n \in AllHeld /\ n # s /\ sess[n].client = asking
  <2>1. CASE task[Loop].pc = "acquire"
    <3>1. n \in Attempt /\ Registered(n) /\ sess[n].client = asking
      BY <2>1, AttemptsTyped DEF TypeInv, LoopInv, Deciding, Seen
    <3>2. t # Loop
      BY <2>1, Departures
    <3>3. sess[n].st = "pending" /\ n # s
      BY <2>1, <3>2 DEF PrivateInv, At
    <3>4. sess[n].once = "no"
      <4>1. \A x \in Attempt : sess[x].once = "no" <=> sess[x].st # "closed"
        BY DEF DropInv
      <4> QED
        BY <3>1, <3>3, <4>1
    <3> QED
      BY <3>1, <3>3, <3>4 DEF AllHeld, Held
  <2> QED
    BY <2>1
<1>4. /\ count' = [count EXCEPT ![own] = IF count[own] <= 1 THEN 0 ELSE count[own] - 1]
      /\ total' = IF total > 0 THEN total - 1 ELSE 0
      /\ pool' = [pool EXCEPT ![at].players = IF @ > 0 THEN @ - 1 ELSE 0]
  BY DEF Uncount, Released, ReleasedTotal, RemovePlayer
<1>5. s \in AllHeld /\ s \in HeldOf(own) /\ s \in HeldAt(at)
  BY <1>1 DEF AllHeld, HeldOf, HeldAt
<1>6. /\ AllToCount = 1 => n \in AllHeld /\ n # s
      /\ \A ip \in IP : ToCount(ip) = 1 => n \in HeldOf(ip) /\ n # s
      /\ \A b \in Backend : ToPlay(b) = 1 => n \in HeldAt(b) /\ n # s
  BY <1>3 DEF AllToCount, ToCount, LoopAt, ToPlay, AllHeld, HeldOf, HeldAt
<1> HIDE DEF s, own, at, n
<1>7. total' + AllToCount' = Cardinality(AllHeld')
  <2>1. total >= 1 /\ (total - 1) + AllToCount = Cardinality(AllHeld \ {s})
    <3>1. /\ total \in Nat /\ AllToCount \in {0, 1} /\ AllHeld \in SUBSET Attempt
          /\ total + AllToCount = Cardinality(AllHeld)
      BY WaitingCounts DEF CountInv
    <3> QED
      BY <1>5, <1>6, <3>1, TallyShrinks
  <2>2. total' = total - 1
    BY <1>4, <2>1, WaitingCounts
  <2> QED
    BY <1>1, <1>2, <2>1, <2>2, WaitingLasts
<1>8. ASSUME NEW ip \in IP
      PROVE  count'[ip] + ToCount(ip)' = Cardinality(HeldOf(ip)')
  <2>1. CASE own = ip
    <3>1. count[ip] >= 1 /\ (count[ip] - 1) + ToCount(ip) = Cardinality(HeldOf(ip) \ {s})
      <4>1. count[ip] \in Nat /\ count[ip] + ToCount(ip) = Cardinality(HeldOf(ip))
        BY WaitingCounts DEF CountInv
      <4> QED
        BY <1>5, <1>6, <2>1, <4>1, WaitingCounts, TallyShrinks
    <3>2. count'[ip] = count[ip] - 1
      BY <1>4, <2>1, <3>1, WaitingCounts
    <3> QED
      BY <1>1, <1>2, <2>1, <3>1, <3>2, WaitingLasts
  <2>2. CASE own # ip
    BY <1>1, <1>2, <1>4, <2>2, WaitingLasts, WaitingCounts DEF CountInv
  <2> QED
    BY <2>1, <2>2
<1>9. ASSUME NEW b \in Backend
      PROVE  pool'[b].players + ToPlay(b)' = Cardinality(HeldAt(b)')
  <2>0. pool'[b].players = IF at = b THEN (IF pool[b].players > 0 THEN pool[b].players - 1 ELSE 0) ELSE pool[b].players
    BY <1>4, PoolTyped DEF BackendState
  <2>1. CASE at = b
    <3>1. pool[b].players >= 1 /\ (pool[b].players - 1) + ToPlay(b) = Cardinality(HeldAt(b) \ {s})
      <4>1. pool[b].players \in Nat /\ pool[b].players + ToPlay(b) = Cardinality(HeldAt(b))
        BY WaitingCounts DEF CountInv
      <4> QED
        BY <1>5, <1>6, <2>1, <4>1, WaitingCounts, TallyShrinks
    <3>2. pool'[b].players = pool[b].players - 1
      BY <2>0, <2>1, <3>1, WaitingCounts
    <3> QED
      BY <1>1, <1>2, <2>1, <3>1, <3>2, WaitingLasts
  <2>2. CASE at # b
    BY <1>1, <1>2, <2>0, <2>2, WaitingLasts DEF CountInv
  <2> QED
    BY <2>1, <2>2
<1> QED
  BY <1>7, <1>8, <1>9 DEF CountInv

\* No step spoils a counter.
LEMMA CountKept ==
  ASSUME TypeInv, RefInv, DropInv, CountInv, PrivateInv, Next
  PROVE  CountInv'
<1>1. NamesLast
  BY NamesOfRegisteredLast
<1>2. CASE \E t \in Thread : Uncount(t)
  BY <1>1, <1>2, UncountCounts
<1>3. CASE Acquire
  <2>1. HeldStay
    BY <1>3 DEF Acquire, HeldStay
  <2> QED
    BY <1>1, <1>3, <2>1, AcquireCounts
<1>4. CASE Register
  BY <1>1, <1>4, RegisterCounts
<1>5. CASE ~(\E t \in Thread : Uncount(t)) /\ ~Acquire /\ ~Register
  <2>1. UNCHANGED <<count, total>> /\ PlayersStay
    BY <1>5, CountersChange, PlayersChange
  <2>2. HeldStay
    BY <1>5, HeldChanges
  <2>3. WaitingStays
    <3>1. CASE LoopStays
      BY <3>1 DEF LoopStays, WaitingStays
    <3>2. CASE Request
      BY <3>2, RequestMoves DEF Request, At, Moves, WaitingStays
    <3> QED
      BY <1>5, <3>1, <3>2, LoopAdmits
  <2> QED
    BY <1>1, <2>1, <2>2, <2>3, CountStays
<1> QED
  BY <1>2, <1>3, <1>4, <1>5

\* Where nothing is under way the sessions held are those in the table.
LEMMA CountsFollow ==
  ASSUME TypeInv, ListedInv, CountInv
  PROVE  CountsSettle
<1> SUFFICES ASSUME Settled
             PROVE  /\ total = Cardinality(byID)
                    /\ \A ip \in IP : count[ip] = Cardinality(SessionsOf(ip))
                    /\ \A b \in Backend : pool[b].players = Cardinality({s \in byID : sess[s].target = b})
  BY DEF CountsSettle
<1>1. \A t \in Thread : task[t].pc \notin {"uncount", "acquire"}
  BY DEF Settled
<1>2. byID \subseteq Attempt /\ \A s \in Attempt : s \in byID <=> Held(s)
  BY <1>1, NamedAttempts DEF ListedInv, At
<1>3. /\ AllHeld = byID /\ (\A ip \in IP : HeldOf(ip) = SessionsOf(ip))
      /\ \A b \in Backend : HeldAt(b) = {s \in byID : sess[s].target = b}
  BY <1>2 DEF AllHeld, HeldOf, HeldAt, SessionsOf
<1>4. AllToCount = 0 /\ (\A ip \in IP : ToCount(ip) = 0) /\ \A b \in Backend : ToPlay(b) = 0
  BY <1>1, Threads DEF AllToCount, ToCount, LoopAt, ToPlay
<1>5. total = Cardinality(byID)
  BY <1>3, <1>4, WaitingCounts DEF CountInv
<1>6. ASSUME NEW ip \in IP PROVE count[ip] = Cardinality(SessionsOf(ip))
  <2>1. count[ip] \in Nat /\ count[ip] + 0 = Cardinality(SessionsOf(ip))
    BY <1>3, <1>4, WaitingCounts DEF CountInv
  <2> QED
    BY <2>1
<1>7. ASSUME NEW b \in Backend PROVE pool[b].players = Cardinality({s \in byID : sess[s].target = b})
  <2>1. pool[b].players \in Nat /\ pool[b].players + 0 = Cardinality({s \in byID : sess[s].target = b})
    BY <1>3, <1>4, WaitingCounts DEF CountInv
  <2> QED
    BY <2>1
<1> QED
  BY <1>5, <1>6, <1>7

\* Without commands that close sessions nobody drops one before it is counted.
LEMMA PrivacyLasts ==
  ASSUME Undisturbed
  PROVE  Spec => [](NobodyCloses /\ PrivateInv)
<1>1. Init => NobodyCloses /\ PrivateInv
  BY Threads DEF Init, Idle, NobodyCloses, PrivateInv, At
<1>2. TypeInv /\ RefInv /\ LinkInv /\ NobodyCloses /\ PrivateInv /\ [Next]_vars => NobodyCloses' /\ PrivateInv'
  <2>1. ASSUME NobodyCloses, PrivateInv, UNCHANGED vars PROVE NobodyCloses' /\ PrivateInv'
    BY <2>1 DEF vars, NobodyCloses, PrivateInv, At
  <2> QED
    BY <2>1, NobodyStartsClosing, PrivateKept
<1> QED
  BY Foundation, LinksHold, <1>1, <1>2, PTL DEF Spec

\* Once nothing is under way the counters of the gate and of the backends are
\* those of the sessions that exist, whatever timers, links, backends and
\* clients did to end them, as long as nobody closes sessions from outside.
THEOREM CountsComeRight ==
  ASSUME Undisturbed
  PROVE  Spec => []CountsSettle
<1>1. Init => CountInv
  <2> SUFFICES ASSUME Init PROVE CountInv
    OBVIOUS
  <2>1. AllHeld = {} /\ (\A ip \in IP : HeldOf(ip) = {}) /\ \A b \in Backend : HeldAt(b) = {}
    BY DEF Init, NewSession, AllHeld, HeldOf, HeldAt, Held, Registered
  <2>2. task[Loop].pc = "idle"
    BY Threads DEF Init, Idle
  <2>3. AllToCount = 0 /\ (\A ip \in IP : ToCount(ip) = 0) /\ \A b \in Backend : ToPlay(b) = 0
    BY <2>2 DEF AllToCount, ToCount, LoopAt, ToPlay
  <2>4. total = 0 /\ (\A ip \in IP : count[ip] = 0) /\ \A b \in Backend : pool[b].players = 0
    BY DEF Init, NewPool
  <2> QED
    BY <2>1, <2>3, <2>4, FS_EmptySet DEF CountInv
<1>2. TypeInv /\ RefInv /\ DropInv /\ PrivateInv /\ CountInv /\ [Next]_vars => CountInv'
  <2>1. ASSUME CountInv, UNCHANGED vars PROVE CountInv'
    BY <2>1 DEF vars, CountInv, ToCount, AllToCount, ToPlay, LoopAt, HeldOf, AllHeld, HeldAt, Held,
       Registered
  <2> QED
    BY <2>1, CountKept
<1>3. TypeInv /\ ListedInv /\ CountInv => CountsSettle
  BY CountsFollow
<1> QED
  BY Foundation, DropsFoundation, PrivacyLasts, <1>1, <1>2, <1>3, PTL DEF Spec

-----------------------------------------------------------------------------
(* The answers without such commands.                                      *)

\* What is posted to Loop is refusal enough, even if nobody listens any more.
LEMMA PostedDecides ==
  ASSUME TypeInv, NEW n \in Attempt, NEW what \in {"accept", "reject"},
         Posts({Cmd(what, n)}), listening' = listening
  PROVE  QueuedIn(lq', n) \/ listening' = "ended"
<1>1. Ended(listening) => listening = "ended"
  BY DEF Ended, TypeInv, TypeOK
<1>2. Cmd(what, n).what = what /\ Cmd(what, n).s = n
  BY DEF Cmd
<1> QED
  BY <1>1, <1>2 DEF Posts, QueuedIn

\* An answer stays queued until it is given.
AnswersQueue ==
  \A cmd \in Orders(lq) : cmd.what \in {"accept", "reject"} =>
    cmd \in Orders(lq') \/ answer'[cmd.s] # "none" \/ listening' = "ended"

\* Every step keeps to that.
LEMMA AnswersStayQueued ==
  ASSUME TypeInv, RefInv, Next
  PROVE  AnswersQueue
<1>1. CASE UNCHANGED <<lq>>
  BY <1>1 DEF AnswersQueue
<1>2. ASSUME NEW c \in Client, ClientTalks(c) PROVE AnswersQueue
  BY <1>2, ClientTalksPosts DEF Posts, AnswersQueue
<1>3. ASSUME Request PROVE AnswersQueue
  BY <1>3, RequestPosts DEF Posts, AnswersQueue
<1>4. ASSUME Check PROVE AnswersQueue
  BY <1>4, CheckPosts DEF Posts, AnswersQueue
<1>5. ASSUME PickBackend PROVE AnswersQueue
  BY <1>5, PickBackendPosts DEF Posts, AnswersQueue
<1>6. ASSUME OpenLinkFails PROVE AnswersQueue
  BY <1>6, OpenLinkFailsPosts DEF Posts, AnswersQueue
<1>7. ASSUME RunReject PROVE AnswersQueue
  <2>1. answer'[Head(lq).s] # "none"
    BY <1>7, HeadOfQueue, AttemptsTyped DEF RunReject, HeadIs, Unanswered, Resolve
  <2> QED
    BY <1>7, <2>1, HeadOfQueue DEF RunReject, HeadIs, AnswersQueue
<1>8. ASSUME RunAccept PROVE AnswersQueue
  <2>1. answer'[Head(lq).s] # "none"
    BY <1>8, HeadOfQueue, AttemptsTyped DEF RunAccept, HeadIs, Unanswered, Resolve
  <2> QED
    BY <1>8, <2>1, HeadOfQueue, RunAcceptPosts DEF RunAccept, HeadIs, AnswersQueue
<1>9. ASSUME RunDisconnect PROVE AnswersQueue
  BY <1>9, HeadOfQueue DEF RunDisconnect, HeadIs, AnswersQueue
<1>10. ASSUME RunStop PROVE AnswersQueue
  BY <1>10, HeadOfQueue DEF RunStop, HeadIs, AnswersQueue
<1>11. ASSUME LoopEnds PROVE AnswersQueue
  BY <1>11 DEF LoopEnds, AnswersQueue
<1>12. ASSUME NEW t \in Thread, CloseSession(t) PROVE AnswersQueue
  BY <1>12, CloseSessionPosts DEF Posts, AnswersQueue
<1>13. ASSUME NEW t \in Thread, Refused(t) PROVE AnswersQueue
  BY <1>13, RefusedPosts DEF Posts, AnswersQueue
<1>14. ASSUME NEW t \in Thread, Failed(t) PROVE AnswersQueue
  BY <1>14, RefusedPosts DEF Posts, AnswersQueue
<1>15. ASSUME NEW k \in Attempt, Confirm(k) PROVE AnswersQueue
  BY <1>15, ConfirmPosts DEF Posts, AnswersQueue
<1>16. ASSUME StopListening PROVE AnswersQueue
  BY <1>16, StopListeningPosts DEF Posts, AnswersQueue
<1> QED
  BY <1>1, <1>2, <1>3, <1>4, <1>5, <1>6, <1>7, <1>8, <1>9, <1>10, <1>11, <1>12, <1>13, <1>14, <1>15,
     <1>16, Writers DEF Written, Writes_lq

\* A goroutine that is to accept does so, Loop refuses or registers what it looks
\* at, and a session is only closed when its attempt is decided, or just refused.
Onward(u) ==
  /\ Answering(u) =>
       \/ task'[u].pc \in {"activate", "confirm"} /\ task'[u].s = task[u].s
       \/ \E k \in Attempt : u = Up(k) /\ Confirm(k)
  /\ task'[u].pc \in {"close", "drop"} =>
       Decided(task'[u].s) \/ QueuedIn(lq', task'[u].s) \/ listening' = "ended"
  /\ task[Loop].pc \in Unseen => task'[Loop].pc \in Unseen \/ Check \/ PickBackend \/ Register

\* The attempt whose session a client without a request has is decided.
LEMMA FoundDecided ==
  ASSUME TypeInv, RefInv, TablesAgree, RequestInv, NEW c \in Client,
         req[c] = Nobody, byAddr[c] # Nobody
  PROVE  Decided(byAddr[c])
<1> DEFINE n == byAddr[c]
<1>1. n \in Attempt /\ Registered(n) /\ sess[n].client = c
  BY NamedAttempts DEF RefInv, TablesRefer, TablesAgree
<1>2. n <= attempts /\ n # Nobody
  BY <1>1, RegisteredAttempted DEF Attempt, Nobody
<1> QED
  BY <1>1, <1>2 DEF RequestInv, Decided

\* Everyone does so in every step.
LEMMA EveryoneGoesOn ==
  ASSUME Undisturbed, Unbroken, TypeInv, RefInv, NobodyCloses, TablesAgree, RequestInv, AskersFree, EndedDecided, ClosersDecided, LinksAnswer, Next
  PROVE  \A u \in Thread : Onward(u)
<1>1. CASE UNCHANGED <<task>>
  BY <1>1 DEF Onward, ClosersDecided, Answering
<1>2. ASSUME NEW c \in Client, ConnectRequest(c) PROVE \A u \in Thread : Onward(u)
  <2>1. byAddr[c] # Nobody => Decided(byAddr[c])
    BY <1>2, FoundDecided DEF ConnectRequest
  <2> QED
    BY <1>2, <2>1, ConnectRequestMoves, Threads DEF Moves, LoopFree, At, ConnectRequest, Onward,
       ClosersDecided, Answering, Unseen
<1>3. ASSUME NEW c \in Client, ClientGone(c) PROVE \A u \in Thread : Onward(u)
  <2>1. byAddr[c] # Nobody => Decided(byAddr[c])
    BY <1>3, FoundDecided DEF ClientGone, AskersFree, NoPeer
  <2> QED
    BY <1>3, <2>1, ClientGoneMoves, Threads DEF Moves, LoopFree, At, ClientGone, Onward,
       ClosersDecided, Answering, Unseen
<1>4. ASSUME Request PROVE \A u \in Thread : Onward(u)
  BY <1>4, RequestMoves, Threads DEF Moves, Request, At, Onward, ClosersDecided, Answering, Unseen
<1>5. ASSUME Check PROVE \A u \in Thread : Onward(u)
  BY <1>5, CheckMoves, Threads DEF Moves, Check, At, Onward, ClosersDecided, Answering, Unseen
<1>6. ASSUME TakeRedirect PROVE \A u \in Thread : Onward(u)
  BY <1>6, TakeRedirectMoves, Threads DEF Moves, TakeRedirect, At, Onward, ClosersDecided,
     Answering, Unseen
<1>7. ASSUME PickBackend PROVE \A u \in Thread : Onward(u)
  BY <1>7, PickBackendMoves, Threads DEF Moves, PickBackend, At, Onward, ClosersDecided,
     Answering, Unseen
<1>8. ASSUME Register PROVE \A u \in Thread : Onward(u)
  BY <1>8, RegisterMoves, Threads DEF Moves, Register, At, Onward, ClosersDecided, Answering, Unseen
<1>9. ASSUME Acquire PROVE \A u \in Thread : Onward(u)
  BY <1>9, AcquireMoves, Threads DEF Moves, Acquire, At, Onward, ClosersDecided, Answering, Unseen
<1>10. ASSUME ReuseLink PROVE \A u \in Thread : Onward(u)
  BY <1>10, ReuseLinkMoves, Threads DEF Moves, ReuseLink, At, Onward, ClosersDecided, Answering,
     Unseen
<1>11. ASSUME OpenLink PROVE \A u \in Thread : Onward(u)
  BY <1>11, OpenLinkMoves, Threads DEF Moves, OpenLink, At, Onward, ClosersDecided, Answering, Unseen
<1>12. ASSUME OpenLinkFails PROVE \A u \in Thread : Onward(u)
  <2>1. QueuedIn(lq', task[Loop].s) \/ listening' = "ended"
    BY <1>12, OpenLinkFailsPosts, PostedDecides, AtWork, Threads DEF OpenLinkFails, At, Resting,
       TypeInv
  <2> QED
    BY <1>12, <2>1, OpenLinkFailsMoves, Threads DEF Moves, OpenLinkFails, At, Onward,
       ClosersDecided, Answering, Unseen
<1>13. ASSUME Bind PROVE \A u \in Thread : Onward(u)
  BY <1>13, BindMoves, Threads DEF Moves, Bind, At, Onward, ClosersDecided, Answering, Unseen
<1>14. ASSUME Attach PROVE \A u \in Thread : Onward(u)
  BY <1>14, AttachMoves, Threads DEF Moves, Attach, At, Onward, ClosersDecided, Answering, Unseen
<1>15. ASSUME Dial PROVE \A u \in Thread : Onward(u)
  BY <1>15, DialMoves, Threads DEF Moves, Dial, At, Onward, ClosersDecided, Answering, Unseen
<1>16. ASSUME ClientReady PROVE \A u \in Thread : Onward(u)
  BY <1>16, ClientReadyMoves, Threads DEF Moves, ClientReady, At, Onward, ClosersDecided, Answering,
     Unseen
<1>17. ASSUME RunAccept PROVE \A u \in Thread : Onward(u)
  BY <1>17, RunAcceptMoves, Threads DEF Moves, RunAccept, At, LoopFree, Onward, ClosersDecided,
     Answering, Unseen
<1>18. ASSUME RunDisconnect PROVE \A u \in Thread : Onward(u)
  <2>1. peer[sess[Head(lq).s].client] = AcceptedPeer(Head(lq).s) /\ byAddr[sess[Head(lq).s].client] # Nobody => Decided(byAddr[sess[Head(lq).s].client])
    <3>1. Head(lq).s \in Attempt /\ Head(lq).s <= attempts
      BY <1>18, HeadOfQueue DEF RunDisconnect, HeadIs
    <3> QED
      BY <1>18, <3>1, ClientOfAttempt, FoundDecided DEF AskersFree, NoPeer, AcceptedPeer
  <2> QED
    BY <1>18, <2>1, RunDisconnectMoves, Threads DEF Moves, LoopFree, At, RunDisconnect, Onward,
       ClosersDecided, Answering, Unseen
<1>19. ASSUME NEW t \in Thread, CloseSession(t) PROVE \A u \in Thread : Onward(u)
  BY <1>19, CloseSessionMoves, Departures, Threads DEF Moves, Returns, NobodyCloses, Onward,
     ClosersDecided, Answering, Unseen
<1>20. ASSUME NEW t \in Thread, DropBegin(t) PROVE \A u \in Thread : Onward(u)
  BY <1>20, DropBeginMoves, Departures, Threads DEF Moves, NobodyCloses, Onward, ClosersDecided,
     Answering, Unseen
<1>21. ASSUME NEW t \in Thread, DropWaited(t) PROVE \A u \in Thread : Onward(u)
  BY <1>21, DropWaitedMoves, Departures, Threads DEF Moves, Returns, NobodyCloses, Onward,
     ClosersDecided, Answering, Unseen
<1>22. ASSUME NEW t \in Thread, ReleaseLink(t) PROVE \A u \in Thread : Onward(u)
  BY <1>22, ReleaseLinkMoves, Departures, Threads DEF Moves, NobodyCloses, Onward,
     ClosersDecided, Answering, Unseen
<1>23. ASSUME NEW t \in Thread, Forget(t) PROVE \A u \in Thread : Onward(u)
  BY <1>23, ForgetMoves, Departures, Threads DEF Moves, NobodyCloses, Onward, ClosersDecided,
     Answering, Unseen
<1>24. ASSUME NEW t \in Thread, Uncount(t) PROVE \A u \in Thread : Onward(u)
  BY <1>24, UncountMoves, Departures, Threads DEF Moves, Returns, NobodyCloses, Onward,
     ClosersDecided, Answering, Unseen
<1>25. ASSUME NEW t \in Thread, Refused(t) PROVE \A u \in Thread : Onward(u)
  <2>1. QueuedIn(lq', task[t].s) \/ listening' = "ended"
    BY <1>25, RefusedPosts, PostedDecides, AtWork, Threads DEF Refused, At, Resting, TypeInv
  <2> QED
    BY <1>25, <2>1, RefusedMoves, Threads DEF Moves, Refused, At, Onward, ClosersDecided, Answering,
       Unseen
<1>26. ASSUME NEW t \in Thread, Failed(t) PROVE \A u \in Thread : Onward(u)
  <2>1. QueuedIn(lq', task[t].s) \/ listening' = "ended"
    BY <1>26, RefusedPosts, PostedDecides, AtWork, Threads DEF Failed, At, Resting, TypeInv
  <2> QED
    BY <1>26, <2>1, FailedMoves, Threads DEF Moves, Failed, At, Onward, ClosersDecided, Answering,
       Unseen
<1>27. ASSUME NEW k \in Attempt, Activate(k) PROVE \A u \in Thread : Onward(u)
  BY <1>27, ActivateMoves, Threads DEF Moves, Activate, At, Onward, ClosersDecided, Answering,
     Unseen
<1>28. ASSUME NEW k \in Attempt, Confirm(k) PROVE \A u \in Thread : Onward(u)
  BY <1>28, ConfirmMoves, Threads DEF Moves, Confirm, At, Onward, ClosersDecided, Answering, Unseen
<1>29. ASSUME NEW k \in Attempt, RunUpDisconnect(k) PROVE \A u \in Thread : Onward(u)
  <2>1. link[k].s # Nobody => link[k].s \in Attempt /\ (sess[link[k].s].st # "pending" => Decided(link[k].s))
    <3>1. link[k].s # Nobody => link[k].s \in Attempt /\ Registered(link[k].s)
      BY NamedAttempts DEF RefInv, LinksRefer
    <3> QED
      BY <3>1, SessionsTyped DEF EndedDecided, Registered, Session
  <2>2. task[Up(k)].pc = "idle" /\ Up(k) \in Thread /\ Up(k) # Loop
    BY <1>29, Threads DEF RunUpDisconnect, UpFree, At
  <2>3. CASE UNCHANGED task
    BY <2>3 DEF Onward, ClosersDecided, Answering
  <2>4. ASSUME link[k].s # Nobody,
               NEW pc \in {"close", "refused", "failed"}, pc = "close" => sess[link[k].s].st # "pending",
               Moves(Up(k), pc, link[k].s, task[Up(k)].k, task[Up(k)].todo)
        PROVE  \A u \in Thread : Onward(u)
    BY <2>1, <2>2, <2>4, Threads DEF Moves, Onward, ClosersDecided, Answering, Unseen
  <2> QED
    BY <1>29, <2>3, <2>4, RunUpDisconnectMoves
<1>30. ASSUME NEW k \in Attempt, NEW b \in Backend, BackendAccepts(k, b) PROVE \A u \in Thread : Onward(u)
  <2>1. link[k].s # Nobody => link[k].s \in Attempt /\ (sess[link[k].s].st # "pending" => Decided(link[k].s))
    <3>1. link[k].s # Nobody => link[k].s \in Attempt /\ Registered(link[k].s)
      BY NamedAttempts DEF RefInv, LinksRefer
    <3> QED
      BY <3>1, SessionsTyped DEF EndedDecided, Registered, Session
  <2>2. task[Up(k)].pc = "idle" /\ Up(k) \in Thread /\ Up(k) # Loop
    BY <1>30, Threads DEF BackendAccepts, UpFree, At
  <2>3. CASE UNCHANGED task
    BY <2>3 DEF Onward, ClosersDecided, Answering
  <2>4. CASE /\ link[k].s # Nobody
             /\ Moves(Up(k), "activate", link[k].s, up[k][b].id, task[Up(k)].todo)
    BY <2>1, <2>2, <2>4, Threads DEF Moves, Onward, ClosersDecided, Answering, Unseen
  <2> QED
    BY <1>30, <2>3, <2>4, BackendAcceptsMoves
<1>31. ASSUME NEW k \in Attempt, NEW b \in Backend, NEW rejected \in BOOLEAN, DialFails(k, b, rejected) PROVE \A u \in Thread : Onward(u)
  <2>1. link[k].s # Nobody => link[k].s \in Attempt /\ (sess[link[k].s].st # "pending" => Decided(link[k].s))
    <3>1. link[k].s # Nobody => link[k].s \in Attempt /\ Registered(link[k].s)
      BY NamedAttempts DEF RefInv, LinksRefer
    <3> QED
      BY <3>1, SessionsTyped DEF EndedDecided, Registered, Session
  <2>2. task[Up(k)].pc = "idle" /\ Up(k) \in Thread /\ Up(k) # Loop
    BY <1>31, Threads DEF DialFails, UpFree, At
  <2>3. CASE UNCHANGED task
    BY <2>3 DEF Onward, ClosersDecided, Answering
  <2>4. ASSUME link[k].s # Nobody,
               NEW pc \in {"close", "refused", "failed"}, pc = "close" => sess[link[k].s].st # "pending",
               Moves(Up(k), pc, link[k].s, task[Up(k)].k, task[Up(k)].todo)
        PROVE  \A u \in Thread : Onward(u)
    BY <2>1, <2>2, <2>4, Threads DEF Moves, Onward, ClosersDecided, Answering, Unseen
  <2> QED
    BY <1>31, <2>3, <2>4, DialFailsMoves
<1>32. ASSUME NEW k \in Attempt, NEW b \in Backend, BackendGone(k, b) PROVE \A u \in Thread : Onward(u)
  <2>1. link[k].s # Nobody => link[k].s \in Attempt /\ (sess[link[k].s].st # "pending" => Decided(link[k].s))
    <3>1. link[k].s # Nobody => link[k].s \in Attempt /\ Registered(link[k].s)
      BY NamedAttempts DEF RefInv, LinksRefer
    <3> QED
      BY <3>1, SessionsTyped DEF EndedDecided, Registered, Session
  <2>2. task[Up(k)].pc = "idle" /\ Up(k) \in Thread /\ Up(k) # Loop
    BY <1>32, Threads DEF BackendGone, UpFree, At
  <2>3. CASE UNCHANGED task
    BY <2>3 DEF Onward, ClosersDecided, Answering
  <2>4. ASSUME link[k].s # Nobody,
               NEW pc \in {"close", "refused", "failed"}, pc = "close" => sess[link[k].s].st # "pending",
               Moves(Up(k), pc, link[k].s, task[Up(k)].k, task[Up(k)].todo)
        PROVE  \A u \in Thread : Onward(u)
    BY <2>1, <2>2, <2>4, Threads DEF Moves, Onward, ClosersDecided, Answering, Unseen
  <2> QED
    BY <1>32, <2>3, <2>4, BackendGoneMoves
<1>33. ASSUME NEW s \in Attempt, TimerFires(s) PROVE \A u \in Thread : Onward(u)
  <2>1. Timer(s) \in Thread /\ Timer(s) # Loop /\ ~Answering(Timer(s))
    BY TimersDiffer DEF LinksAnswer
  <2>2. Onward(Timer(s))
    BY <1>33, <2>1, TimerFiresMoves, Threads DEF Moves, Onward, Unseen
  <2>3. ASSUME NEW u \in Thread, u # Timer(s) PROVE Onward(u)
    <3>1. task'[u] = task[u] /\ task'[Loop] = task[Loop]
      BY <1>33, <2>1, <2>3, TimerFiresMoves, Threads DEF Moves
    <3> QED
      BY <3>1 DEF Onward, ClosersDecided, Answering
  <2> QED
    BY <2>2, <2>3
<1>34. ASSUME NEW s \in Attempt, RelayBreaks(s) PROVE \A u \in Thread : Onward(u)
  BY <1>34 DEF RelayBreaks, Unbroken
<1>35. ASSUME NEW s \in Attempt, Kick(s) PROVE \A u \in Thread : Onward(u)
  BY <1>35 DEF Kick, ConsoleMay, Undisturbed
<1>36. ASSUME NEW s \in Attempt, NEW b \in Backend, Move(s, b) PROVE \A u \in Thread : Onward(u)
  BY <1>36 DEF Move, ConsoleMay, Undisturbed
<1>37. ASSUME NEW ip \in IP, Ban(ip) PROVE \A u \in Thread : Onward(u)
  BY <1>37 DEF Ban, ConsoleMay, Undisturbed
<1>38. ASSUME CloseProxy PROVE \A u \in Thread : Onward(u)
  BY <1>38 DEF CloseProxy, Undisturbed
<1>39. ASSUME StopListening PROVE \A u \in Thread : Onward(u)
  BY <1>39 DEF StopListening, At, NobodyCloses
<1>40. ASSUME StopAllLinks PROVE \A u \in Thread : Onward(u)
  BY <1>40 DEF StopAllLinks, At, NobodyCloses
<1>41. ASSUME LinksStopped PROVE \A u \in Thread : Onward(u)
  BY <1>41 DEF LinksStopped, At, NobodyCloses
<1> QED
  BY <1>1, <1>2, <1>3, <1>4, <1>5, <1>6, <1>7, <1>8, <1>9, <1>10, <1>11, <1>12, <1>13, <1>14,
     <1>15, <1>16, <1>17, <1>18, <1>19, <1>20, <1>21, <1>22, <1>23, <1>24, <1>25, <1>26, <1>27,
     <1>28, <1>29, <1>30, <1>31, <1>32, <1>33, <1>34, <1>35, <1>36, <1>37, <1>38, <1>39, <1>40,
     <1>41, Writers DEF Written, Writes_task

\* Only a client that is told it is accepted gets a peer.
PeersGo == \A c \in Client : peer[c] = NoPeer => peer'[c] = NoPeer \/ (req'[c] = Nobody /\ asking' = NoClient)

\* Every step keeps to that.
LEMMA WhoGetsPeers ==
  ASSUME TypeInv, RefInv, Next
  PROVE  PeersGo
<1>1. CASE UNCHANGED <<peer>>
  BY <1>1 DEF PeersGo
<1>2. ASSUME NEW c \in Client, ConnectRequest(c) PROVE PeersGo
  BY <1>2, ClientsTyped DEF ConnectRequest, Displaced, PeersGo
<1>3. ASSUME NEW c \in Client, ClientGone(c) PROVE PeersGo
  BY <1>3, ClientsTyped DEF ClientGone, Displaced, PeersGo
<1>4. ASSUME NEW c \in Client, PeerForgotten(c) PROVE PeersGo
  BY <1>4, ClientsTyped DEF PeerForgotten, Displaced, PeersGo
<1>5. ASSUME RunAccept PROVE PeersGo
  <2> DEFINE c == sess[Head(lq).s].client
  <2>1. c \in Client /\ asking = NoClient
    <3>1. Head(lq).s \in Attempt /\ Head(lq).s <= attempts
      BY <1>5, HeadOfQueue DEF RunAccept, HeadIs
    <3> QED
      BY <1>5, <3>1, ClientOfAttempt DEF RunAccept, LoopFree, At, TypeInv, LoopInv
  <2>2. peer' = peer \/ (peer' = [peer EXCEPT ![c] = AcceptedPeer(Head(lq).s)] /\ req' = [req EXCEPT ![c] = Nobody])
    BY <1>5 DEF RunAccept, Unanswered, Resolve
  <2>3. asking' = NoClient
    BY <1>5, <2>1 DEF RunAccept
  <2> QED
    BY <2>1, <2>2, <2>3, ClientsTyped DEF PeersGo
<1>6. ASSUME RunDisconnect PROVE PeersGo
  BY <1>6, ClientsTyped DEF RunDisconnect, AcceptedPeer, NoPeer, PeersGo
<1>7. ASSUME RunStop PROVE PeersGo
  BY <1>7, ClientsTyped DEF RunStop, Shutdown, NoPeer, PeersGo
<1>8. ASSUME LoopEnds PROVE PeersGo
  BY <1>8, ClientsTyped DEF LoopEnds, PeersGo
<1> QED
  BY <1>1, <1>2, <1>3, <1>4, <1>5, <1>6, <1>7, <1>8, Writers DEF Written, Writes_peer

\* What is decided stays so.
LEMMA DecidedLasts ==
  ASSUME TypeInv, RefInv, Next, \A u \in Thread : Onward(u), NEW n \in Attempt, Decided(n)
  PROVE  Decided(n)'
<1>1. CASE answer[n] # "none"
  <2>1. answer'[n] # "none"
    BY <1>1, AnswersChange DEF Request, Resolves
  <2> QED
    BY <2>1 DEF Decided
<1>2. CASE QueuedIn(lq, n)
  <2>1. QueuedIn(lq', n) \/ answer'[n] # "none" \/ listening' = "ended"
    BY <1>2, AnswersStayQueued DEF QueuedIn, AnswersQueue
  <2> QED
    BY <2>1 DEF Decided
<1>3. ASSUME NEW t \in Thread, task[t].s = n, Answering(t) PROVE Decided(n)'
  <2>1. CASE task'[t].pc \in {"activate", "confirm"} /\ task'[t].s = n
    BY <2>1 DEF Decided, Answering
  <2>2. ASSUME NEW k \in Attempt, t = Up(k), Confirm(k) PROVE Decided(n)'
    <3>1. QueuedIn(lq', n) \/ listening' = "ended"
      BY <1>3, <2>2, ConfirmPosts, PostedDecides DEF Confirm
    <3> QED
      BY <3>1 DEF Decided
  <2> QED
    BY <1>3, <2>1, <2>2 DEF Onward
<1>4. CASE listening = "ended"
  <2>1. listening' = "ended"
    BY <1>4, ListeningChanges DEF RunStop, LoopEnds, LoopFree
  <2> QED
    BY <2>1 DEF Decided
<1> QED
  BY <1>1, <1>2, <1>3, <1>4 DEF Decided

\* Who waits for an answer is without a peer.
LEMMA AskersStayFree ==
  ASSUME TypeInv, RefInv, AskersFree, Next
  PROVE  AskersFree'
<1> SUFFICES ASSUME NEW c \in Client, req'[c] # Nobody \/ asking' = c
             PROVE  peer'[c] = NoPeer
  BY DEF AskersFree
<1>1. CASE ConnectRequest(c)
  BY <1>1, ClientsTyped DEF ConnectRequest, Displaced
<1>2. CASE ~ConnectRequest(c)
  <2>1. asking' = c => asking = c
    <3>1. c # NoClient
      BY ClientsHaveIPs
    <3>2. ASSUME NEW d \in Client, ConnectRequest(d), asking' = c PROVE asking = c
      BY <1>2, <3>2 DEF ConnectRequest
    <3> QED
      BY <3>1, <3>2, Writers DEF Written, Writes_asking, Request, Check, PickBackend, Refuse,
         OpenLinkFails, Dial
  <2>2. req'[c] # Nobody => req[c] # Nobody \/ asking = c
    <3>1. CASE Request
      BY <3>1, ClientsTyped DEF Request
    <3>2. ASSUME NEW n \in Attempt, Resolves(n) PROVE req'[c] # Nobody => req[c] # Nobody
      BY <3>2, ClientsTyped DEF Resolves
    <3> QED
      BY <3>1, <3>2, AnswersChange
  <2>3. c # NoClient
    BY ClientsHaveIPs
  <2> QED
    BY <2>1, <2>2, <2>3, WhoGetsPeers DEF AskersFree, PeersGo
<1> QED
  BY <1>1, <1>2

\* A session becomes active by an answer of its backend, and closed by its drop.
LEMMA EndsStayDecided ==
  ASSUME TypeInv, RefInv, EndedDecided, ClosersDecided, Next, \A u \in Thread : Onward(u)
  PROVE  EndedDecided'
<1> SUFFICES ASSUME NEW n \in Attempt, sess'[n].st \in {"active", "closed"}
             PROVE  Decided(n)'
  BY DEF EndedDecided
<1>1. CASE sess[n].st \in {"active", "closed"}
  BY <1>1, DecidedLasts DEF EndedDecided
<1>2. CASE sess[n].st \notin {"active", "closed"}
  <2>1. ASSUME NEW k \in Attempt, NEW b \in Backend, BackendAccepts(k, b)
        PROVE  Decided(n)'
    <3>1. n = link[k].s /\ sess' # sess
      BY <1>2, <2>1, SessionsTyped DEF BackendAccepts, Session
    <3>2. task'[Up(k)].pc = "activate" /\ task'[Up(k)].s = n
      BY <2>1, <3>1, BackendAcceptsMoves DEF Moves
    <3> QED
      BY <3>2, Threads DEF Decided, Answering
  <2>2. ASSUME NEW t \in Thread, DropBegin(t)
        PROVE  Decided(n)'
    <3>1. n = task[t].s
      BY <1>2, <2>2, SessionsTyped DEF DropBegin, Session
    <3> QED
      BY <2>2, <3>1, DecidedLasts DEF DropBegin, At, ClosersDecided
  <2>3. \/ \E k \in Attempt, b \in Backend : BackendAccepts(k, b)
        \/ \E t \in Thread : DropBegin(t)
    <3>1. ASSUME Request \/ TakeRedirect \/ PickBackend \/ Register \/ Attach \/ ClientReady \/ UNCHANGED sess
          PROVE  FALSE
      BY <1>2, <3>1, SessionsTyped DEF Request, TakeRedirect, PickBackend, Register, Attach, ClientReady, Session
    <3>2. ASSUME NEW t \in Thread, Uncount(t) PROVE FALSE
      BY <1>2, <3>2, SessionsTyped DEF Uncount, Session
    <3>3. ASSUME NEW k \in Attempt, Activate(k) PROVE FALSE
      BY <1>2, <3>3, SessionsTyped DEF Activate, Session
    <3> QED
      BY <3>1, <3>2, <3>3, Writers DEF Written, Writes_sess
  <2> QED
    BY <2>1, <2>2, <2>3
<1> QED
  BY <1>1, <1>2

\* Nobody closes a session before its attempt is decided.
LEMMA ClosersStayDecided ==
  ASSUME TypeInv, RefInv, Next, \A u \in Thread : Onward(u)
  PROVE  ClosersDecided'
<1> SUFFICES ASSUME NEW t \in Thread, task'[t].pc \in {"close", "drop"}
             PROVE  Decided(task[t].s)'
  BY DEF ClosersDecided
<1>1. PICK n \in Attempt : n = task'[t].s
  <2>1. TaskInv'
    BY TypesKept DEF TypeInv
  <2> QED
    BY <2>1 DEF TaskInv, Task, Resting, Maybe, Attempt, Nobody
<1>2. Decided(n) \/ QueuedIn(lq', n) \/ listening' = "ended"
  BY <1>1 DEF Onward
<1>3. Decided(n)'
  <2>1. CASE Decided(n)
    BY <2>1, DecidedLasts
  <2>2. CASE QueuedIn(lq', n) \/ listening' = "ended"
    BY <2>2 DEF Decided
  <2> QED
    BY <1>2, <2>1, <2>2
<1> QED
  BY <1>1, <1>3 DEF Decided

\* Loop refuses what it does not register.
LEMMA UnseenStayDecided ==
  ASSUME TypeInv, RefInv, UnseenDecided, Next, \A u \in Thread : Onward(u)
  PROVE  UnseenDecided'
<1> SUFFICES ASSUME NEW n \in Attempt, n <= attempts', sess'[n].st = "none"
             PROVE  Decided(n)' \/ (n = attempts' /\ task'[Loop].pc \in Unseen)
  BY DEF UnseenDecided, Registered
<1>1. sess[n].st = "none"
  BY SessionFields, SessionsTyped DEF FieldsKept, Register, Session
<1>2. CASE n <= attempts /\ Decided(n)
  BY <1>2, DecidedLasts
<1>3. CASE n <= attempts /\ ~Decided(n)
  <2>1. n = attempts /\ task[Loop].pc \in Unseen /\ task[Loop].s = n /\ asking # NoClient
    BY <1>1, <1>3 DEF UnseenDecided, Registered, TypeInv, LoopInv, Deciding, Unseen
  <2>2. CASE task'[Loop].pc \in Unseen
    <3>1. ~Request
      BY <2>1 DEF Request, At, Unseen
    <3> QED
      BY <2>1, <2>2, <3>1, Writers DEF Written, Writes_attempts
  <2>3. CASE task'[Loop].pc \notin Unseen /\ Check
    <3>1. QueuedIn(lq', n) \/ listening' = "ended"
      BY <2>1, <2>3, CheckMoves, CheckPosts, PostedDecides DEF Moves, Unseen, Check
    <3> QED
      BY <3>1 DEF Decided
  <2>4. CASE task'[Loop].pc \notin Unseen /\ PickBackend
    <3>1. QueuedIn(lq', n) \/ listening' = "ended"
      BY <2>1, <2>4, PickBackendMoves, PickBackendPosts, PostedDecides DEF Moves, Unseen, PickBackend
    <3> QED
      BY <3>1 DEF Decided
  <2>5. ~Register
    BY <2>1, RegisterRegisters
  <2> QED
    BY <2>1, <2>2, <2>3, <2>4, <2>5, Threads DEF Onward
<1>4. CASE ~(n <= attempts)
  <2>1. Request
    BY <1>4, Writers DEF Written, Writes_attempts
  <2>2. n = attempts + 1 /\ attempts' = n
    BY <1>4, <2>1, AttemptsTyped DEF Request
  <2>3. CASE task'[Loop].pc = "check"
    BY <2>2, <2>3 DEF Unseen
  <2>4. CASE task'[Loop].pc # "check"
    <3>1. asking # NoClient
      BY <2>1 DEF Request, At, TypeInv, LoopInv, Deciding
    <3>2. Posts({Cmd("reject", n)})
      BY <2>1, <2>2, <2>4, <3>1, RequestMoves, RequestPosts DEF Moves
    <3>3. QueuedIn(lq', n) \/ listening' = "ended"
      BY <2>1, <3>2, PostedDecides DEF Request
    <3> QED
      BY <3>3 DEF Decided
  <2> QED
    BY <2>3, <2>4
<1> QED
  BY <1>2, <1>3, <1>4

\* No attempt is forgotten.
LEMMA DecidedKept ==
  ASSUME Undisturbed, Unbroken, TypeInv, RefInv, NobodyCloses, TablesAgree, RequestInv, DecidedInv, Next
  PROVE  DecidedInv'
<1>1. \A u \in Thread : Onward(u)
  BY EveryoneGoesOn DEF DecidedInv
<1>2. LinksAnswer'
  <2> SUFFICES ASSUME NEW t \in Thread, task'[t].pc \in {"activate", "confirm"}
               PROVE  \E k \in Attempt : t = Up(k)
    BY DEF LinksAnswer, Answering
  <2>1. CASE task'[t] = task[t]
    BY <2>1 DEF DecidedInv, LinksAnswer, Answering
  <2>2. CASE task'[t] # task[t]
    BY <2>2, Arrivals
  <2> QED
    BY <2>1, <2>2
<1> QED
  BY <1>1, <1>2, AskersStayFree, EndsStayDecided, ClosersStayDecided, UnseenStayDecided DEF
     DecidedInv

\* An attempt that is not answered has an answer coming.
LEMMA AnswersFollow ==
  ASSUME TypeInv, RequestInv, DecidedInv
  PROVE  AnswerComing
<1> SUFFICES ASSUME NEW c \in Client, req[c] # Nobody, asking # c, ~Ended(listening), ~Live(req[c])
             PROVE  \/ \E t \in Thread : task[t].s = req[c] /\ task[t].pc \in {"activate", "confirm"}
                    \/ \E i \in 1..Len(lq) : lq[i].s = req[c] /\ lq[i].what \in {"accept", "reject"}
  BY DEF AnswerComing
<1> DEFINE n == req[c]
<1>1. n \in Attempt /\ n <= attempts /\ sess[n].client = c /\ answer[n] = "none"
  BY ClientsTyped DEF RequestInv, Maybe, Nobody
<1>2. Decided(n)
  <2>1. CASE sess[n].st = "none"
    BY <1>1, <2>1 DEF DecidedInv, UnseenDecided, Registered, TypeInv, LoopInv, Deciding
  <2>2. CASE sess[n].st # "none"
    BY <1>1, <2>2, SessionsTyped DEF DecidedInv, EndedDecided, Live, Session
  <2> QED
    BY <2>1, <2>2
<1>3. listening # "ended"
  BY DEF Ended
<1> QED
  BY <1>1, <1>2, <1>3 DEF Decided, Answering, QueuedIn, Orders

\* A request is never forgotten: as long as it is undecided it is being looked
\* at, its session is alive, or its answer is under way, whatever becomes of
\* backends, links and timers, as long as nobody closes sessions from outside
\* and no message finds a queue full: what overflows the queue of a session
\* that is pending closes it without an answer (proxy.go:583-604, 622-629).
THEOREM RequestsAreAnswered ==
  ASSUME Undisturbed, Unbroken
  PROVE  Spec => []AnswerComing
<1>1. Init => RequestInv /\ DecidedInv
  <2> SUFFICES ASSUME Init PROVE RequestInv /\ DecidedInv
    OBVIOUS
  <2>1. \A t \in Thread : task[t].pc = "idle"
    BY DEF Init, Idle
  <2>2. \A n \in Attempt : sess[n].st = "none" /\ ~(n <= attempts)
    BY DEF Init, NewSession, Attempt
  <2> QED
    BY <2>1, <2>2 DEF Init, RequestInv, DecidedInv, AskersFree, EndedDecided, ClosersDecided,
       UnseenDecided, LinksAnswer, Answering
<1>2. TypeInv /\ RefInv /\ RequestInv /\ [Next]_vars => RequestInv'
  BY RequestKept
<1>3. TypeInv /\ RefInv /\ NobodyCloses /\ TablesAgree /\ RequestInv /\ DecidedInv /\ [Next]_vars
        => DecidedInv'
  <2>1. ASSUME DecidedInv, UNCHANGED vars PROVE DecidedInv'
    BY <2>1 DEF vars, DecidedInv, AskersFree, EndedDecided, ClosersDecided, UnseenDecided,
       LinksAnswer, Answering, Decided, QueuedIn, Registered
  <2> QED
    BY <2>1, DecidedKept
<1>4. TypeInv /\ RequestInv /\ DecidedInv => AnswerComing
  BY AnswersFollow
<1> QED
  BY Foundation, AddressesLeadToSessions, PrivacyLasts, <1>1, <1>2, <1>3, <1>4, PTL DEF Spec
=============================================================================
