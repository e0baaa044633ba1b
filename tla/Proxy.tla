-------------------------------- MODULE Proxy --------------------------------
(***************************************************************************)
(* The life of sessions in SCPxy: internal/proxy/proxy.go, link.go and     *)
(* session.go, with what they use of internal/litenetlib/manager.go.       *)
(*                                                                         *)
(* A client that asks to connect gets a request and, if it is let in, a    *)
(* session bound to an upstream link, a socket of its own towards the      *)
(* backends.  The backend's answer on that link decides the request.  The  *)
(* session then ends because a peer went away, a timer ran out, an         *)
(* administrator asked for it or the proxy shuts down.                     *)
(*                                                                         *)
(* Goroutines, each with a program counter in task:                        *)
(*   Loop      the event loop of the listening socket, with all callbacks  *)
(*             of clients                                                  *)
(*   Up(k)     the event loop of the socket of link k, with the callbacks  *)
(*             of backends                                                 *)
(*   Timer(s)  the handshake timer of session s                            *)
(*   Console   administrator commands, one after the other                 *)
(*   Relay     a goroutine that closes a session whose relay broke         *)
(*   Closer    Proxy.Close                                                 *)
(* A step is what one goroutine does in one critical section.  Adjacent    *)
(* sections that touch disjoint objects are one step where no other        *)
(* goroutine can tell the difference.                                      *)
(*                                                                         *)
(* A request, its session, the peers it leads to and the link it opens are *)
(* all named by the number of the attempt that created them.               *)
(*                                                                         *)
(* Definitions named ..._Slip are plausible mistakes in the code, kept     *)
(* beside the definition they would replace.  No behaviour uses them.      *)
(***************************************************************************)
EXTENDS SessionCounts, Backends, FiniteSets

CONSTANTS
  Client, NoClient,   \* client addresses, IP and port
  IP, IpOf,           \* IP addresses, and the one of each client
  MaxAttempts,        \* bound on the requests that reach the proxy
  MaxCommands,        \* bound on the administrator commands
  Happens             \* what the world does in an instance, besides connecting

\* What administrators, clients, backends, time and the machine may do.
Commands == {"kick", "move", "ban", "unban", "backend", "maintenance"}

Events == Commands \cup
  {"limit",      \* a token bucket is empty
   "leave", "talk",             \* clients leave, and send before their session is known
   "refuse", "silent",    \* backends reject the handshake, or never answer it
   "mismatch", "end",     \* backends want another version, end connections
   "timeout",    \* handshake timers run out
   "lease",      \* leases of links run out
   "probe",      \* a backend that is down is due for a probe
   "overflow",   \* queues overflow
   "nosocket",   \* no upstream socket can be opened
   "close"}      \* Proxy.Close is called

ASSUME ClientsHaveIPs == IpOf \in [Client -> IP] /\ NoClient \notin Client
ASSUME AttemptsBound  == MaxAttempts \in Nat /\ MaxCommands \in Nat
ASSUME HappensEvents  == Happens \subseteq Events

Attempt == 1..MaxAttempts
Nobody  == 0                \* no session, request, peer or link
Maybe   == Attempt \cup {Nobody}

Loop     == <<"loop", 0>>
Console  == <<"console", 0>>
Relay    == <<"relay", 0>>
Closer   == <<"closer", 0>>
Up(k)    == <<"up", k>>
Timer(s) == <<"timer", s>>
Thread   == {Loop, Console, Relay, Closer} \cup {Up(k) : k \in Attempt} \cup {Timer(s) : s \in Attempt}

VARIABLES
  \* the listening socket
  attempts,    \* how many requests have been created
  req,         \* client -> its unresolved request
  answer,      \* attempt -> what the client was told
  peer,        \* client -> its peer
  lq,          \* commands posted to Loop
  listening,
  asking,      \* the client whose request Loop is deciding
  \* the proxy
  byAddr, byID, links, redirects, maintenance, stopped,
  count, total, banned,   \* the gate
  pool,
  sess,
  \* the upstream sockets
  link, up, uq,
  \* goroutines
  task, armed,
  commands     \* how many administrator commands have been given

listenVars == <<attempts, req, answer, peer, lq, listening>>
gateVars   == <<count, total>>
adminVars  == <<redirects, maintenance, stopped, banned>>
linkVars   == <<links, link, up, uq>>
vars == <<attempts, req, answer, peer, lq, listening, asking, byAddr, byID, links, redirects,
          maintenance, stopped, count, total, banned, pool, sess, link, up, uq, task, armed, commands>>

NoPeer == [id |-> Nobody, st |-> "none"]

\* shutdown: the peer starts closing, unless it is gone or closing already.
Shutdown(p) == IF p.st \in {"outgoing", "connected"} THEN [p EXCEPT !.st = "closing"] ELSE p

\* The peer of a dial, of an accepted request, and of a dial that succeeded.
Dialed(s)       == [id |-> s, st |-> "outgoing"]
AcceptedPeer(n) == [id |-> n, st |-> "connected"]
Connected(p)    == [p EXCEPT !.st = "connected"]

Idle   == [pc |-> "idle", s |-> Nobody, k |-> Nobody, todo |-> {}]

NewSession ==
  [st |-> "none", once |-> "no", client |-> NoClient, target |-> NoBackend,
   link |-> Nobody, upeer |-> Nobody, cpeer |-> Nobody]

Init ==
  /\ attempts = 0
  /\ req = [c \in Client |-> Nobody]
  /\ answer = [s \in Attempt |-> "none"]
  /\ peer = [c \in Client |-> NoPeer]
  /\ lq = <<>>
  /\ listening = "open"
  /\ asking = NoClient
  /\ byAddr = [c \in Client |-> Nobody]
  /\ byID = {}
  /\ links = [c \in Client |-> Nobody]
  /\ redirects = [ip \in IP |-> NoBackend]
  /\ maintenance = FALSE
  /\ stopped = FALSE
  /\ count = [ip \in IP |-> 0]
  /\ total = 0
  /\ banned = {}
  /\ pool = NewPool
  /\ sess = [s \in Attempt |-> NewSession]
  /\ link = [k \in Attempt |-> [s |-> Nobody, lease |-> "zero", mgr |-> "none"]]
  /\ up = [k \in Attempt |-> [b \in Backend |-> NoPeer]]
  /\ uq = [k \in Attempt |-> <<>>]
  /\ task = [t \in Thread |-> Idle]
  /\ armed = {}
  /\ commands = 0

-----------------------------------------------------------------------------
(* Goroutines and command queues.                                          *)

At(t, pc) == task[t].pc = pc

Goto(t, pc) == task' = [task EXCEPT ![t].pc = pc]

\* t takes up session s at pc.
Begin(t, pc, s) == task' = [task EXCEPT ![t].pc = pc, ![t].s = s]

\* The end of what t does for a session.  Kick, Ban and Close go on with the
\* other sessions they have collected, Loop with the request it is deciding.
Return(t) ==
  IF task[t].todo # {}
    THEN \E s \in task[t].todo :
           task' = [task EXCEPT ![t] = [Idle EXCEPT !.pc = "close", !.s = s, !.todo = task[t].todo \ {s}]]
    ELSE task' = [task EXCEPT ![t] =
                    [Idle EXCEPT !.pc = IF t = Loop /\ asking # NoClient THEN "request"
                                        ELSE IF t = Closer THEN "stop" ELSE "idle"]]

\* A manager is open, told to stop, and ended when Stop has closed its socket.
Ended(phase) == phase \in {"none", "ended"}

\* post: a manager that has ended takes no commands.
Posted(q, open, cmds) == IF open THEN q \o cmds ELSE q

Cmd(what, s) == [what |-> what, s |-> s, b |-> NoBackend]

PostLoop(cmds) == lq' = Posted(lq, ~Ended(listening), cmds)

PostedUp(k, cmds) == [uq EXCEPT ![k] = Posted(@, ~Ended(link[k].mgr), cmds)]

-----------------------------------------------------------------------------
(* closeSession and dropSession, in any goroutine.                         *)

\* The peers that exist are told, then the session is dropped.  A closed
\* session is left alone, even while somebody is still dropping it.
CloseSession(t) ==
  LET s == task[t].s IN
  /\ At(t, "close")
  /\ IF sess[s].st = "closed"
       THEN Return(t) /\ UNCHANGED <<lq, uq>>
       ELSE /\ PostLoop(IF sess[s].cpeer = Nobody THEN <<>> ELSE <<Cmd("disconnect", sess[s].cpeer)>>)
            /\ uq' = IF sess[s].link = Nobody \/ sess[s].upeer = Nobody THEN uq
                     ELSE PostedUp(sess[s].link, <<Cmd("disconnect", sess[s].upeer)>>)
            /\ Goto(t, "drop")
  /\ UNCHANGED <<attempts, req, answer, peer, listening, asking, byAddr, byID, adminVars, gateVars,
                 pool, sess, links, link, up, armed, commands>>

\* Slip: the drop is not guarded by closeOnce.
DropBegin_Slip(t) ==
  LET s == task[t].s IN
  /\ At(t, "drop")
  /\ sess' = [sess EXCEPT ![s].st = "closed", ![s].once = "running"]
  /\ task' = [task EXCEPT ![t].pc = "release", ![t].k = sess[s].link]
  /\ UNCHANGED <<listenVars, asking, byAddr, byID, adminVars, gateVars, pool, linkVars, armed, commands>>

\* closeOnce: the first caller drops, the others wait until it has.
DropBegin(t) ==
  LET s == task[t].s IN
  /\ At(t, "drop")
  /\ sess[s].once = "no"
  /\ sess' = [sess EXCEPT ![s].st = "closed", ![s].once = "running"]
  /\ task' = [task EXCEPT ![t].pc = "release", ![t].k = sess[s].link]
  /\ UNCHANGED <<listenVars, asking, byAddr, byID, adminVars, gateVars, pool, linkVars, armed, commands>>

DropWaited(t) ==
  /\ At(t, "drop")
  /\ sess[task[t].s].once = "done"
  /\ Return(t)
  /\ UNCHANGED <<listenVars, asking, byAddr, byID, adminVars, gateVars, pool, sess, linkVars, armed, commands>>

\* Slip: the session lets go of the link without a lease.
ReleaseLink_Slip(t) ==
  LET k == task[t].k IN
  /\ At(t, "release")
  /\ link' = IF k = Nobody THEN link ELSE [link EXCEPT ![k].s = Nobody]
  /\ Goto(t, "forget")
  /\ UNCHANGED <<listenVars, asking, byAddr, byID, adminVars, gateVars, pool, sess, links, up, uq, armed, commands>>

\* The link seen when the drop began is leased to the address, not closed.
ReleaseLink(t) ==
  LET k == task[t].k IN
  /\ At(t, "release")
  /\ link' = IF k = Nobody THEN link
             ELSE [link EXCEPT ![k].s = Nobody, ![k].lease = "running"]
  /\ Goto(t, "forget")
  /\ UNCHANGED <<listenVars, asking, byAddr, byID, adminVars, gateVars, pool, sess, links, up, uq, armed, commands>>

\* Slip: only the table of ids is cleaned.
Forget_Slip(t) ==
  /\ At(t, "forget")
  /\ byID' = byID \ {task[t].s}
  /\ Goto(t, "uncount")
  /\ UNCHANGED <<listenVars, asking, byAddr, adminVars, gateVars, pool, sess, linkVars, armed, commands>>

\* The entry goes by address, whoever's session it holds by now.
Forget(t) ==
  LET s == task[t].s IN
  /\ At(t, "forget")
  /\ byAddr' = [byAddr EXCEPT ![sess[s].client] = Nobody]
  /\ byID' = byID \ {s}
  /\ Goto(t, "uncount")
  /\ UNCHANGED <<listenVars, asking, adminVars, gateVars, pool, sess, linkVars, armed, commands>>

\* gate.Release and addPlayer(-1): disjoint counters that nobody compares.
Uncount(t) ==
  LET s == task[t].s IN
  /\ At(t, "uncount")
  /\ count' = Released(count, IpOf[sess[s].client])
  /\ total' = ReleasedTotal(total)
  /\ pool' = RemovePlayer(pool, sess[s].target)
  /\ sess' = [sess EXCEPT ![s].once = "done"]
  /\ Return(t)
  /\ UNCHANGED <<listenVars, asking, byAddr, byID, adminVars, linkVars, armed, commands>>

Closing(t) ==
  CloseSession(t) \/ DropBegin(t) \/ DropWaited(t) \/ ReleaseLink(t) \/ Forget(t) \/ Uncount(t)

-----------------------------------------------------------------------------
(* Loop: connection requests.                                              *)

LoopFree == At(Loop, "idle") /\ listening # "ended"

\* The peer of the address makes room for the request.
Displaced(c) == [peer EXCEPT ![c] = NoPeer]

\* A connection request newer than what the address has.  A connected peer
\* is disconnected first, with its callback; a peer that is already closing
\* is forgotten; a request under decision only takes the newer data.
ConnectRequest(c) ==
  /\ LoopFree
  /\ attempts < MaxAttempts
  /\ req[c] = Nobody
  /\ asking' = c
  /\ peer' = Displaced(c)
  /\ IF peer[c].st = "connected" /\ byAddr[c] # Nobody
       THEN Begin(Loop, "close", byAddr[c])
       ELSE Goto(Loop, "request")
  /\ UNCHANGED <<attempts, req, answer, lq, listening, byAddr, byID, adminVars, gateVars,
                 pool, sess, linkVars, armed, commands>>

\* onConnectionRequest gives up: the rejection is queued, for this same loop.
Refuse(n) ==
  /\ PostLoop(<<Cmd("reject", n)>>)
  /\ asking' = NoClient
  /\ task' = [task EXCEPT ![Loop] = Idle]

\* The address of the request, and the verdict of gate.Allow on it.
Request ==
  LET n  == attempts + 1
      ip == IpOf[asking]
  IN
  /\ At(Loop, "request")
  /\ attempts' = n
  /\ req' = [req EXCEPT ![asking] = n]
  /\ sess' = [sess EXCEPT ![n].client = asking]
  /\ \/ /\ ip \in banned \/ PerIPFull(count, ip) \/ ServerFull(total) \/ "limit" \in Happens
        /\ Refuse(n)
     \/ /\ ip \notin banned /\ ~PerIPFull(count, ip) /\ ~ServerFull(total)
        /\ Begin(Loop, "check", n)
        /\ UNCHANGED <<lq, asking>>
  /\ UNCHANGED <<answer, peer, listening, byAddr, byID, adminVars, gateVars, pool, linkVars, armed, commands>>

Check ==
  /\ At(Loop, "check")
  /\ IF maintenance \/ stopped
       THEN Refuse(task[Loop].s)
       ELSE Goto(Loop, "redirect") /\ UNCHANGED <<lq, asking>>
  /\ UNCHANGED <<attempts, req, answer, peer, listening, byAddr, byID, adminVars, gateVars,
                 pool, sess, linkVars, armed, commands>>

\* takeRedirect: where the client was moved to, if it was, is used up here.
TakeRedirect ==
  LET ip == IpOf[asking] IN
  /\ At(Loop, "redirect")
  /\ sess' = [sess EXCEPT ![task[Loop].s].target = redirects[ip]]
  /\ redirects' = [redirects EXCEPT ![ip] = NoBackend]
  /\ Goto(Loop, "pick")
  /\ UNCHANGED <<listenVars, asking, byAddr, byID, maintenance, stopped, banned, gateVars,
                 pool, linkVars, armed, commands>>

\* pick, among the backends as they are now.
PickBackend ==
  LET n == task[Loop].s
      b == Pick(pool, sess[n].target)
  IN
  /\ At(Loop, "pick")
  /\ sess' = [sess EXCEPT ![n].target = b]
  /\ IF b = NoBackend THEN Refuse(n) ELSE Goto(Loop, "register") /\ UNCHANGED <<lq, asking>>
  /\ UNCHANGED <<attempts, req, answer, peer, listening, byAddr, byID, adminVars, gateVars,
                 pool, linkVars, armed, commands>>

\* The session in both tables: from here it is seen.
Register ==
  LET n == task[Loop].s IN
  /\ At(Loop, "register")
  /\ sess' = [sess EXCEPT ![n].st = "pending"]
  /\ byAddr' = [byAddr EXCEPT ![asking] = n]
  /\ byID' = byID \cup {n}
  /\ Goto(Loop, "acquire")
  /\ UNCHANGED <<listenVars, asking, adminVars, gateVars, pool, linkVars, armed, commands>>

\* gate.Acquire and addPlayer(1), possibly after the session was dropped.
Acquire ==
  /\ At(Loop, "acquire")
  /\ count' = Acquired(count, IpOf[asking])
  /\ total' = total + 1
  /\ pool' = AddPlayer(pool, sess[task[Loop].s].target)
  /\ Goto(Loop, "link")
  /\ UNCHANGED <<listenVars, asking, byAddr, byID, adminVars, sess, linkVars, armed, commands>>

\* Slip: whoever asks from the same address gets the socket.
Reusable_Slip(k) == k # Nobody /\ link[k].mgr = "open"

Reusable(k) == k # Nobody /\ link[k].s = Nobody /\ link[k].lease = "running"

ReuseLink ==
  LET k == links[asking] IN
  /\ At(Loop, "link")
  /\ Reusable(k)
  /\ task' = [task EXCEPT ![Loop].pc = "bind", ![Loop].k = k]
  /\ UNCHANGED <<listenVars, asking, byAddr, byID, adminVars, gateVars, pool, sess, linkVars, armed, commands>>

\* Slip: the link is forgotten, not stopped.
GivenUp_Slip(ks) == link

\* The links of ks are given up: a goroutine calls Stop on each, once.
GivenUp(ks) ==
  [k \in Attempt |-> IF k \in ks /\ link[k].mgr = "open" THEN [link[k] EXCEPT !.mgr = "doomed"]
                     ELSE link[k]]

\* A link that is not free to use is given up for a new one.
OpenLink ==
  LET n == task[Loop].s IN
  /\ At(Loop, "link")
  /\ ~Reusable(links[asking])
  /\ links' = [links EXCEPT ![asking] = n]
  /\ link' = [GivenUp({links[asking]}) EXCEPT ![n].mgr = "open"]
  /\ task' = [task EXCEPT ![Loop].pc = "bind", ![Loop].k = n]
  /\ UNCHANGED <<listenVars, asking, byAddr, byID, adminVars, gateVars, pool, sess, up, uq, armed, commands>>

\* No socket: the session is dropped and the request refused.  Loop is the
\* one that runs the refusal, so it may as well be queued before the drop.
OpenLinkFails ==
  /\ At(Loop, "link")
  /\ "nosocket" \in Happens
  /\ ~Reusable(links[asking])
  /\ links' = [links EXCEPT ![asking] = Nobody]
  /\ link' = GivenUp({links[asking]})
  /\ PostLoop(<<Cmd("reject", task[Loop].s)>>)
  /\ asking' = NoClient
  /\ Goto(Loop, "drop")
  /\ UNCHANGED <<attempts, req, answer, peer, listening, byAddr, byID, adminVars, gateVars,
                 pool, sess, up, uq, armed, commands>>

Bind ==
  LET k == task[Loop].k IN
  /\ At(Loop, "bind")
  /\ link' = [link EXCEPT ![k].s = task[Loop].s, ![k].lease = "zero"]
  /\ Goto(Loop, "attach")
  /\ UNCHANGED <<listenVars, asking, byAddr, byID, adminVars, gateVars, pool, sess, links, up, uq, armed, commands>>

Attach ==
  /\ At(Loop, "attach")
  /\ sess' = [sess EXCEPT ![task[Loop].s].link = task[Loop].k]
  /\ Goto(Loop, "dial")
  /\ UNCHANGED <<listenVars, asking, byAddr, byID, adminVars, gateVars, pool, linkVars, armed, commands>>

\* Slip: no timer.
Dial_Slip ==
  LET n == task[Loop].s IN
  /\ At(Loop, "dial")
  /\ uq' = PostedUp(task[Loop].k, <<[what |-> "connect", s |-> n, b |-> sess[n].target]>>)
  /\ asking' = NoClient
  /\ task' = [task EXCEPT ![Loop] = Idle]
  /\ UNCHANGED <<listenVars, byAddr, byID, adminVars, gateVars, pool, sess, links, link, up, armed, commands>>

\* The connection towards the backend, and the timer of the handshake.
Dial ==
  LET n == task[Loop].s IN
  /\ At(Loop, "dial")
  /\ uq' = PostedUp(task[Loop].k, <<[what |-> "connect", s |-> n, b |-> sess[n].target]>>)
  /\ armed' = armed \cup {n}
  /\ asking' = NoClient
  /\ task' = [task EXCEPT ![Loop] = Idle]
  /\ UNCHANGED <<listenVars, byAddr, byID, adminVars, gateVars, pool, sess, links, link, up, commands>>

-----------------------------------------------------------------------------
(* Loop: commands.                                                         *)

HeadIs(q, what) == q # <<>> /\ Head(q).what = what

\* Slip: resolveRequest does not look at resolved.
Unanswered_Slip(n) == TRUE

\* resolveRequest: only the first answer to a request counts.
Unanswered(n) == answer[n] = "none"

Resolve(n, verdict) ==
  /\ answer' = [answer EXCEPT ![n] = verdict]
  /\ req' = [req EXCEPT ![sess[n].client] = Nobody]

RunReject ==
  LET n == Head(lq).s IN
  /\ LoopFree
  /\ HeadIs(lq, "reject")
  /\ lq' = Tail(lq)
  /\ IF Unanswered(n) THEN Resolve(n, "rejected") ELSE UNCHANGED <<answer, req>>
  /\ UNCHANGED <<attempts, peer, listening, asking, byAddr, byID, adminVars, gateVars, pool, sess,
                 linkVars, task, armed, commands>>

\* The accepted client becomes a peer, and onClientConnected looks up its
\* session.  Without one the peer is disconnected.
RunAccept ==
  LET n == Head(lq).s
      c == sess[n].client
  IN
  /\ LoopFree
  /\ HeadIs(lq, "accept")
  /\ IF Unanswered(n) THEN Resolve(n, "accepted") ELSE UNCHANGED <<answer, req>>
  /\ IF Unanswered(n) /\ peer[c] = NoPeer
       THEN /\ peer' = [peer EXCEPT ![c] = AcceptedPeer(n)]
            /\ IF byAddr[c] = Nobody
                 THEN lq' = Append(Tail(lq), Cmd("disconnect", n)) /\ UNCHANGED task
                 ELSE /\ task' = [task EXCEPT ![Loop].pc = "ready", ![Loop].s = byAddr[c], ![Loop].k = n]
                      /\ lq' = Tail(lq)
       ELSE lq' = Tail(lq) /\ UNCHANGED <<peer, task>>
  /\ UNCHANGED <<attempts, listening, asking, byAddr, byID, adminVars, gateVars, pool, sess, linkVars, armed, commands>>

\* markClientReady, on the session found, whatever became of it since.
ClientReady ==
  /\ At(Loop, "ready")
  /\ sess' = [sess EXCEPT ![task[Loop].s].cpeer = task[Loop].k]
  /\ task' = [task EXCEPT ![Loop] = Idle]
  /\ UNCHANGED <<listenVars, asking, byAddr, byID, adminVars, gateVars, pool, linkVars, armed, commands>>

\* onClientDisconnected closes the session of the address.
ClientLost(c) ==
  IF byAddr[c] = Nobody THEN UNCHANGED task ELSE Begin(Loop, "close", byAddr[c])

\* disconnectPeer: a connected peer starts closing, anything else stays.
RunDisconnect ==
  LET n == Head(lq).s
      c == sess[n].client
  IN
  /\ LoopFree
  /\ HeadIs(lq, "disconnect")
  /\ lq' = Tail(lq)
  /\ IF peer[c] = AcceptedPeer(n)
       THEN peer' = [peer EXCEPT ![c].st = "closing"] /\ ClientLost(c)
       ELSE UNCHANGED <<peer, task>>
  /\ UNCHANGED <<attempts, req, answer, listening, asking, byAddr, byID, adminVars, gateVars, pool,
                 sess, linkVars, armed, commands>>

\* Manager.Stop: every peer is told, without callbacks.  The loop goes on
\* until Stop closes the socket.
RunStop ==
  /\ LoopFree
  /\ HeadIs(lq, "stop")
  /\ listening' = "stopping"
  /\ lq' = Tail(lq)
  /\ peer' = [c \in Client |-> Shutdown(peer[c])]
  /\ UNCHANGED <<attempts, req, answer, asking, byAddr, byID, adminVars, gateVars, pool, sess,
                 linkVars, task, armed, commands>>

LoopEnds ==
  /\ LoopFree
  /\ listening = "stopping"
  /\ listening' = "ended"
  /\ lq' = <<>>
  /\ peer' = [c \in Client |-> NoPeer]
  /\ UNCHANGED <<attempts, req, answer, asking, byAddr, byID, adminVars, gateVars, pool, sess,
                 linkVars, task, armed, commands>>

LoopCommand == RunReject \/ RunAccept \/ RunDisconnect \/ RunStop \/ LoopEnds

-----------------------------------------------------------------------------
(* Loop: what clients do.                                                  *)

\* A connected client leaves or falls silent.
ClientGone(c) ==
  /\ "leave" \in Happens
  /\ LoopFree
  /\ peer[c].st = "connected"
  /\ peer' = [peer EXCEPT ![c] = NoPeer]
  /\ ClientLost(c)
  /\ UNCHANGED <<attempts, req, answer, lq, listening, asking, byAddr, byID, adminVars, gateVars,
                 pool, sess, linkVars, armed, commands>>

\* A message from a client without a session gets it disconnected.
ClientTalks(c) ==
  LET cmd == Cmd("disconnect", peer[c].id) IN
  /\ "talk" \in Happens
  /\ LoopFree
  /\ peer[c].st = "connected"
  /\ byAddr[c] = Nobody
  /\ \A i \in 1..Len(lq) : lq[i] # cmd   \* once is enough for the model
  /\ PostLoop(<<cmd>>)
  /\ UNCHANGED <<attempts, req, answer, peer, listening, asking, byAddr, byID, adminVars, gateVars,
                 pool, sess, linkVars, task, armed, commands>>

\* A closing peer is forgotten once the client acknowledged or fell silent.
PeerForgotten(c) ==
  /\ LoopFree
  /\ peer[c].st = "closing"
  /\ peer' = [peer EXCEPT ![c] = NoPeer]
  /\ UNCHANGED <<attempts, req, answer, lq, listening, asking, byAddr, byID, adminVars, gateVars,
                 pool, sess, linkVars, task, armed, commands>>

LoopStep ==
  \/ Request \/ Check \/ TakeRedirect \/ PickBackend \/ Register \/ Acquire
  \/ ReuseLink \/ OpenLink \/ OpenLinkFails \/ Bind \/ Attach \/ Dial
  \/ ClientReady \/ Closing(Loop)

-----------------------------------------------------------------------------
(* Up(k): the socket of a link.                                            *)

UpFree(k) == At(Up(k), "idle") /\ ~Ended(link[k].mgr)

\* A dial towards a backend that still has a peer here does nothing.
RunConnect(k) ==
  LET cmd == Head(uq[k]) IN
  /\ UpFree(k)
  /\ HeadIs(uq[k], "connect")
  /\ uq' = [uq EXCEPT ![k] = Tail(@)]
  /\ up' = IF up[k][cmd.b] = NoPeer
             THEN [up EXCEPT ![k][cmd.b] = Dialed(cmd.s)]
             ELSE up
  /\ UNCHANGED <<listenVars, asking, byAddr, byID, adminVars, gateVars, pool, sess, links, link, task, armed, commands>>

\* onUpstreamDisconnected acts on the session the link is bound to now.
UpstreamLost(k, rejected) ==
  LET s == link[k].s IN
  IF s = Nobody THEN UNCHANGED task
  ELSE Begin(Up(k), IF sess[s].st # "pending" THEN "close"
                    ELSE IF rejected THEN "refused" ELSE "failed", s)

RunUpDisconnect(k) ==
  LET n  == Head(uq[k]).s
      bs == {b \in Backend : up[k][b] = Connected(Dialed(n))}
  IN
  /\ UpFree(k)
  /\ HeadIs(uq[k], "disconnect")
  /\ uq' = [uq EXCEPT ![k] = Tail(@)]
  /\ up' = [up EXCEPT ![k] = [b \in Backend |-> IF b \in bs THEN [id |-> n, st |-> "closing"]
                                                ELSE up[k][b]]]
  /\ IF bs = {} THEN UNCHANGED task ELSE UpstreamLost(k, FALSE)
  /\ UNCHANGED <<listenVars, asking, byAddr, byID, adminVars, gateVars, pool, sess, links, link, armed, commands>>

\* The goroutine that calls Stop on a link gets to post its command.
PostStop(k) ==
  /\ link[k].mgr = "doomed"
  /\ link' = [link EXCEPT ![k].mgr = "told"]
  /\ uq' = PostedUp(k, <<Cmd("stop", Nobody)>>)
  /\ UNCHANGED <<listenVars, asking, byAddr, byID, adminVars, gateVars, pool, sess, links, up, task, armed, commands>>

RunUpStop(k) ==
  /\ UpFree(k)
  /\ HeadIs(uq[k], "stop")
  /\ uq' = [uq EXCEPT ![k] = Tail(@)]
  /\ up' = [up EXCEPT ![k] = [b \in Backend |-> Shutdown(up[k][b])]]
  /\ link' = [link EXCEPT ![k].mgr = "stopping"]
  /\ UNCHANGED <<listenVars, asking, byAddr, byID, adminVars, gateVars, pool, sess, links, task, armed, commands>>

UpEnds(k) ==
  /\ UpFree(k)
  /\ link[k].mgr = "stopping"
  /\ link' = [link EXCEPT ![k].mgr = "ended"]
  /\ uq' = [uq EXCEPT ![k] = <<>>]
  /\ up' = [up EXCEPT ![k] = [b \in Backend |-> NoPeer]]
  /\ UNCHANGED <<listenVars, asking, byAddr, byID, adminVars, gateVars, pool, sess, links, task, armed, commands>>

UpCommand(k) == RunConnect(k) \/ RunUpDisconnect(k) \/ PostStop(k) \/ RunUpStop(k) \/ UpEnds(k)

\* OnPeerConnected: the pending session of the link becomes active.
BackendAccepts(k, b) ==
  LET s == link[k].s IN
  /\ UpFree(k)
  /\ up[k][b].st = "outgoing"
  /\ up' = [up EXCEPT ![k][b] = Connected(@)]
  /\ IF s # Nobody /\ sess[s].st = "pending"
       THEN /\ sess' = [sess EXCEPT ![s].st = "active"]
            /\ task' = [task EXCEPT ![Up(k)].pc = "activate", ![Up(k)].s = s, ![Up(k)].k = up[k][b].id]
       ELSE UNCHANGED <<sess, task>>
  /\ UNCHANGED <<listenVars, asking, byAddr, byID, adminVars, gateVars, pool, links, link, uq, armed, commands>>

\* Slip: the peer is not stored.
Activate_Slip(k) ==
  /\ At(Up(k), "activate")
  /\ Goto(Up(k), "confirm")
  /\ UNCHANGED <<listenVars, asking, byAddr, byID, adminVars, gateVars, pool, sess, linkVars, armed, commands>>

\* markBackendReady.
Activate(k) ==
  LET t == Up(k) IN
  /\ At(t, "activate")
  /\ sess' = [sess EXCEPT ![task[t].s].upeer = task[t].k]
  /\ Goto(t, "confirm")
  /\ UNCHANGED <<listenVars, asking, byAddr, byID, adminVars, gateVars, pool, linkVars, armed, commands>>

Confirm(k) ==
  LET s == task[Up(k)].s IN
  /\ At(Up(k), "confirm")
  /\ pool' = MarkSuccess(pool, sess[s].target)
  /\ PostLoop(<<Cmd("accept", s)>>)
  /\ task' = [task EXCEPT ![Up(k)] = Idle]
  /\ UNCHANGED <<attempts, req, answer, peer, listening, asking, byAddr, byID, adminVars, gateVars,
                 sess, linkVars, armed, commands>>

\* The dial fails: a rejection by the backend, or no answer to any attempt.
DialFails(k, b, rejected) ==
  /\ (IF rejected THEN "refuse" ELSE "silent") \in Happens
  /\ UpFree(k)
  /\ up[k][b].st = "outgoing"
  /\ up' = [up EXCEPT ![k][b] = NoPeer]
  /\ UpstreamLost(k, rejected)
  /\ UNCHANGED <<listenVars, asking, byAddr, byID, adminVars, gateVars, pool, sess, links, link, uq, armed, commands>>

\* InvalidProtocol ends an outgoing peer without a callback.
BackendMismatch(k, b) ==
  /\ "mismatch" \in Happens
  /\ UpFree(k)
  /\ up[k][b].st = "outgoing"
  /\ up' = [up EXCEPT ![k][b].st = "closing"]
  /\ UNCHANGED <<listenVars, asking, byAddr, byID, adminVars, gateVars, pool, sess, links, link, uq, task, armed, commands>>

\* The backend closes the connection or falls silent.
BackendGone(k, b) ==
  /\ "end" \in Happens
  /\ UpFree(k)
  /\ up[k][b].st = "connected"
  /\ up' = [up EXCEPT ![k][b] = NoPeer]
  /\ UpstreamLost(k, FALSE)
  /\ UNCHANGED <<listenVars, asking, byAddr, byID, adminVars, gateVars, pool, sess, links, link, uq, armed, commands>>

UpPeerForgotten(k, b) ==
  /\ UpFree(k)
  /\ up[k][b].st = "closing"
  /\ up' = [up EXCEPT ![k][b] = NoPeer]
  /\ UNCHANGED <<listenVars, asking, byAddr, byID, adminVars, gateVars, pool, sess, links, link, uq, task, armed, commands>>

\* The answer of the backend, passed on: the pool is not told.
Refused(t) ==
  /\ At(t, "refused")
  /\ PostLoop(<<Cmd("reject", task[t].s)>>)
  /\ Goto(t, "drop")
  /\ UNCHANGED <<attempts, req, answer, peer, listening, asking, byAddr, byID, adminVars, gateVars,
                 pool, sess, linkVars, armed, commands>>

\* Slip: the pool is told, the client is not.
Failed_Slip(t) ==
  /\ At(t, "failed")
  /\ pool' = MarkFailure(pool, sess[task[t].s].target)
  /\ Goto(t, "drop")
  /\ UNCHANGED <<listenVars, asking, byAddr, byID, adminVars, gateVars, sess, linkVars, armed, commands>>

\* markFailure, then the refusal.
Failed(t) ==
  LET s == task[t].s IN
  /\ At(t, "failed")
  /\ pool' = MarkFailure(pool, sess[s].target)
  /\ PostLoop(<<Cmd("reject", s)>>)
  /\ Goto(t, "drop")
  /\ UNCHANGED <<attempts, req, answer, peer, listening, asking, byAddr, byID, adminVars, gateVars,
                 sess, linkVars, armed, commands>>

BackendAnswers(k) ==
  \E b \in Backend : BackendAccepts(k, b) \/ BackendMismatch(k, b)
                     \/ \E rejected \in BOOLEAN : DialFails(k, b, rejected)

UpStep(k) == Activate(k) \/ Confirm(k) \/ Refused(Up(k)) \/ Failed(Up(k)) \/ Closing(Up(k))

-----------------------------------------------------------------------------
(* Timers.                                                                 *)

\* expireHandshake looks at the session once, and acts on what it saw.  It
\* does nothing to a session that is no longer pending.
TimerFires(s) ==
  /\ "timeout" \in Happens
  /\ s \in armed
  /\ sess[s].st = "pending"
  /\ armed' = armed \ {s}
  /\ Begin(Timer(s), "failed", s)
  /\ UNCHANGED <<listenVars, asking, byAddr, byID, adminVars, gateVars, pool, sess, linkVars, commands>>

TimerStep(s) == Failed(Timer(s)) \/ Closing(Timer(s))

\* Nobody looks at the lease of a link that has left the table.
LeaseExpires(k) ==
  /\ "lease" \in Happens
  /\ link[k].lease = "running"
  /\ \E c \in Client : links[c] = k
  /\ link' = [link EXCEPT ![k].lease = "expired"]
  /\ UNCHANGED <<listenVars, asking, byAddr, byID, adminVars, gateVars, pool, sess, links, up, uq, task, armed, commands>>

\* sweepLinks removes and stops the links whose lease has run out.  When done
\* is closed its select may still choose a tick that is due.
SweepLink(c) ==
  LET k == links[c] IN
  /\ k # Nobody
  /\ link[k].s = Nobody
  /\ link[k].lease = "expired"
  /\ links' = [links EXCEPT ![c] = Nobody]
  /\ link' = GivenUp({k})
  /\ UNCHANGED <<listenVars, asking, byAddr, byID, adminVars, gateVars, pool, sess, up, uq, task, armed, commands>>

\* The backend that is down is due for a probe.
BackendRests(b) ==
  /\ "probe" \in Happens
  /\ ~pool[b].healthy /\ ~pool[b].rested
  /\ pool' = ProbeDue(pool, b)
  /\ UNCHANGED <<listenVars, asking, byAddr, byID, adminVars, gateVars, sess, linkVars, task, armed, commands>>

-----------------------------------------------------------------------------
(* Console, Relay and Closer.                                              *)

ConsoleMay(cmd) ==
  /\ cmd \in Happens
  /\ At(Console, "idle")
  /\ commands < MaxCommands
  /\ commands' = commands + 1

Kick(s) ==
  /\ ConsoleMay("kick")
  /\ s \in byID
  /\ Begin(Console, "close", s)
  /\ UNCHANGED <<listenVars, asking, byAddr, byID, adminVars, gateVars, pool, sess, linkVars, armed>>

Move(s, b) ==
  /\ ConsoleMay("move")
  /\ s \in byID
  /\ redirects' = [redirects EXCEPT ![IpOf[sess[s].client]] = b]
  /\ Begin(Console, "close", s)
  /\ UNCHANGED <<listenVars, asking, byAddr, byID, maintenance, stopped, banned, gateVars, pool,
                 sess, linkVars, armed>>

\* t closes the sessions of a set, in any order, then goes to pc.
CloseAll(t, S, pc) ==
  IF S = {} THEN Goto(t, pc)
  ELSE \E s \in S :
         task' = [task EXCEPT ![t] = [Idle EXCEPT !.pc = "close", !.s = s, !.todo = S \ {s}]]

Listed(C) == {byAddr[c] : c \in C} \ {Nobody}

Ban(ip) ==
  /\ ConsoleMay("ban")
  /\ banned' = banned \cup {ip}
  /\ CloseAll(Console, Listed({c \in Client : IpOf[c] = ip}), "idle")
  /\ UNCHANGED <<listenVars, asking, byAddr, byID, redirects, maintenance, stopped, gateVars, pool,
                 sess, linkVars, armed>>

Unban(ip) ==
  /\ ConsoleMay("unban")
  /\ ip \in banned
  /\ banned' = banned \ {ip}
  /\ UNCHANGED <<listenVars, asking, byAddr, byID, redirects, maintenance, stopped, gateVars, pool,
                 sess, linkVars, task, armed>>

SetBackendEnabled(b, on) ==
  /\ ConsoleMay("backend")
  /\ pool[b].enabled # on
  /\ pool' = SetEnabled(pool, b, on)
  /\ UNCHANGED <<listenVars, asking, byAddr, byID, adminVars, gateVars, sess, linkVars, task, armed>>

SetMaintenance(on) ==
  /\ ConsoleMay("maintenance")
  /\ maintenance # on
  /\ maintenance' = on
  /\ UNCHANGED <<listenVars, asking, byAddr, byID, redirects, stopped, banned, gateVars, pool,
                 sess, linkVars, task, armed>>

ConsoleCommand ==
  \/ \E s \in Attempt : Kick(s) \/ \E b \in Backend : Move(s, b)
  \/ \E ip \in IP : Ban(ip) \/ Unban(ip)
  \/ \E b \in Backend, on \in BOOLEAN : SetBackendEnabled(b, on)
  \/ \E on \in BOOLEAN : SetMaintenance(on)

Live(s) == sess[s].st \in {"pending", "active"}

\* Messages that find a queue of s full: from its client, by address, or from
\* any backend that is still connected to the link s is bound to now.
ClientFloods(s)  == \E c \in Client : LoopFree /\ peer[c].st = "connected" /\ byAddr[c] = s
BackendFloods(s) == \E k \in Attempt, b \in Backend :
                      UpFree(k) /\ up[k][b].st = "connected" /\ link[k].s = s

\* A pump, which waits for the peer it sends to, meets a message too large.
PumpFails(s) == sess[s].link # Nobody /\ (sess[s].upeer # Nobody \/ sess[s].cpeer # Nobody)

\* A full queue, or a message that fits no datagram, ends the session from a
\* goroutine of its own.
RelayBreaks(s) ==
  /\ "overflow" \in Happens
  /\ At(Relay, "idle")
  /\ Live(s)
  /\ ClientFloods(s) \/ BackendFloods(s) \/ PumpFails(s)
  /\ Begin(Relay, "close", s)
  /\ UNCHANGED <<listenVars, asking, byAddr, byID, adminVars, gateVars, pool, sess, linkVars, armed, commands>>

\* Close: stop admitting, close the sessions seen now, then stop the sockets,
\* the listening one first.
CloseProxy ==
  /\ "close" \in Happens
  /\ At(Closer, "idle")
  /\ stopped' = TRUE
  /\ CloseAll(Closer, Listed(Client), "stop")
  /\ UNCHANGED <<listenVars, asking, byAddr, byID, redirects, maintenance, banned, gateVars, pool,
                 sess, linkVars, armed, commands>>

StopListening ==
  /\ At(Closer, "stop")
  /\ PostLoop(<<Cmd("stop", Nobody)>>)
  /\ Goto(Closer, "wait")
  /\ UNCHANGED <<attempts, req, answer, peer, listening, asking, byAddr, byID, adminVars, gateVars,
                 pool, sess, linkVars, armed, commands>>

\* Slip: the links are stopped before the listening socket has ended.
StopAllLinks_Slip ==
  LET ks == {links[c] : c \in Client} \ {Nobody} IN
  /\ At(Closer, "wait")
  /\ links' = [c \in Client |-> Nobody]
  /\ link' = GivenUp(ks)
  /\ task' = [task EXCEPT ![Closer] = [Idle EXCEPT !.pc = "drain", !.todo = ks]]
  /\ UNCHANGED <<listenVars, asking, byAddr, byID, adminVars, gateVars, pool, sess, up, uq, armed, commands>>

StopAllLinks ==
  LET ks == {links[c] : c \in Client} \ {Nobody} IN
  /\ At(Closer, "wait")
  /\ Ended(listening)
  /\ links' = [c \in Client |-> Nobody]
  /\ link' = GivenUp(ks)
  /\ task' = [task EXCEPT ![Closer] = [Idle EXCEPT !.pc = "drain", !.todo = ks]]
  /\ UNCHANGED <<listenVars, asking, byAddr, byID, adminVars, gateVars, pool, sess, up, uq, armed, commands>>

LinksStopped ==
  /\ At(Closer, "drain")
  /\ \A k \in task[Closer].todo : Ended(link[k].mgr)
  /\ task' = [task EXCEPT ![Closer] = [Idle EXCEPT !.pc = "closed"]]
  /\ UNCHANGED <<listenVars, asking, byAddr, byID, adminVars, gateVars, pool, sess, linkVars, armed, commands>>

CloserStep == StopListening \/ StopAllLinks \/ LinksStopped \/ Closing(Closer)

-----------------------------------------------------------------------------
ClientStep == \E c \in Client : ConnectRequest(c) \/ ClientGone(c) \/ ClientTalks(c) \/ PeerForgotten(c)

BackendStep == \E k \in Attempt : BackendAnswers(k)
                                  \/ \E b \in Backend : BackendGone(k, b) \/ UpPeerForgotten(k, b)

Next ==
  \/ ClientStep \/ LoopStep \/ LoopCommand
  \/ BackendStep
  \/ \E k \in Attempt : UpStep(k) \/ UpCommand(k) \/ LeaseExpires(k)
  \/ \E s \in Attempt : TimerFires(s) \/ TimerStep(s) \/ RelayBreaks(s)
  \/ \E c \in Client : SweepLink(c)
  \/ \E b \in Backend : BackendRests(b)
  \/ ConsoleCommand \/ Closing(Console) \/ Closing(Relay)
  \/ CloseProxy \/ CloserStep

Spec == Init /\ [][Next]_vars

\* What the proxy does by itself.  Clients, backends and administrators need
\* not do anything.
Fairness ==
  /\ WF_vars(LoopStep) /\ WF_vars(LoopCommand)
  /\ \A k \in Attempt : WF_vars(UpStep(k)) /\ WF_vars(UpCommand(k))
  /\ \A s \in Attempt : WF_vars(TimerFires(s)) /\ WF_vars(TimerStep(s))
  /\ WF_vars(Closing(Console)) /\ WF_vars(Closing(Relay)) /\ WF_vars(CloserStep)

FairSpec == Spec /\ Fairness

-----------------------------------------------------------------------------
Command == [what : {"reject", "accept", "disconnect", "connect", "stop"}, s : Maybe,
            b : Backend \cup {NoBackend}]

PeerState == [id : Maybe, st : {"none", "outgoing", "connected", "closing"}]

TypeOK ==
  /\ attempts \in 0..MaxAttempts
  /\ req \in [Client -> Maybe]
  /\ answer \in [Attempt -> {"none", "accepted", "rejected"}]
  /\ peer \in [Client -> PeerState]
  /\ lq \in Seq(Command)
  /\ listening \in {"open", "stopping", "ended"}
  /\ asking \in Client \cup {NoClient}
  /\ byAddr \in [Client -> Maybe]
  /\ byID \subseteq Attempt
  /\ links \in [Client -> Maybe]
  /\ redirects \in [IP -> Backend \cup {NoBackend}]
  /\ maintenance \in BOOLEAN /\ stopped \in BOOLEAN
  /\ count \in [IP -> Nat] /\ total \in Nat
  /\ banned \subseteq IP
  /\ pool \in [Backend -> BackendState]
  /\ sess \in [Attempt -> [st : {"none", "pending", "active", "closed"},
                           once : {"no", "running", "done"},
                           client : Client \cup {NoClient}, target : Backend \cup {NoBackend},
                           link : Maybe, upeer : Maybe, cpeer : Maybe]]
  /\ link \in [Attempt -> [s : Maybe, lease : {"zero", "running", "expired"},
                           mgr : {"none", "open", "doomed", "told", "stopping", "ended"}]]
  /\ up \in [Attempt -> [Backend -> PeerState]]
  /\ uq \in [Attempt -> Seq(Command)]
  /\ DOMAIN task = Thread
  /\ \A t \in Thread : task[t].s \in Maybe /\ task[t].k \in Maybe /\ task[t].todo \subseteq Attempt
  /\ armed \subseteq Attempt
  /\ commands \in 0..MaxCommands

SessionsOf(ip) == {s \in byID : IpOf[sess[s].client] = ip}

\* The caps hold for the sessions that exist, whatever the gate has counted
\* by then: registration comes before Acquire, and a session may be dropped
\* in between (proxy.go:188-203, 315-336).
CapsHold ==
  /\ MaxSessionsPerIP > 0 => \A ip \in IP : Cardinality(SessionsOf(ip)) <= MaxSessionsPerIP
  /\ MaxSessions > 0 => Cardinality(byID) <= MaxSessions

\* Two live sessions never share an upstream socket, and a live session that
\* has one is the one its link is bound to (link.go:30-51, proxy.go:215-220).
LinkExclusive ==
  \A s \in Attempt : Live(s) /\ sess[s].link # Nobody => link[sess[s].link].s = s

\* A client that is told it is accepted was accepted for a session whose
\* backend peer is known (proxy.go:251-267).
AcceptedHasBackend ==
  \A s \in Attempt : answer[s] = "accepted" => sess[s].upeer # Nobody

\* The client peer of a session is the one accepted for that session, never
\* that of an earlier or later session of the address (proxy.go:595-604).
OwnClientPeer ==
  \A s \in Attempt : sess[s].cpeer \in {Nobody, s}

\* The tables agree: an address leads to a session of that address that the
\* other table has too (proxy.go:196-199, 327-331).
TablesAgree ==
  \A c \in Client : byAddr[c] # Nobody => byAddr[c] \in byID /\ sess[byAddr[c]].client = c

\* Nothing of a session is under way: no goroutine is in the middle of one.
Settled == \A t \in Thread : task[t].pc \in {"idle", "closed"}

\* Once nothing is under way the counters are those of the sessions that
\* exist (proxy.go:202-203, 333-334, gate.go:165-194, backend.go:146-155).
CountsSettle ==
  Settled => /\ total = Cardinality(byID)
             /\ \A ip \in IP : count[ip] = Cardinality(SessionsOf(ip))
             /\ \A b \in Backend : pool[b].players = Cardinality({s \in byID : sess[s].target = b})

\* A request is never forgotten: as long as it is undecided it is being
\* looked at, its session is alive or being dropped, or its answer is queued
\* or about to be.  A client whose request is forgotten cannot ask again:
\* the manager only notes its newer data (manager.go:488-491).
AnswerComing ==
  \A c \in Client :
    req[c] # Nobody /\ asking # c /\ ~Ended(listening) =>
      \/ Live(req[c])
      \/ sess[req[c]].once = "running"
      \/ \E t \in Thread : task[t].s = req[c] /\ task[t].pc \in {"activate", "confirm"}
      \/ \E i \in 1..Len(lq) : lq[i].s = req[c] /\ lq[i].what \in {"accept", "reject"}

\* Whatever becomes of sessions, an upstream socket that is open is the one
\* its address has in the table, so an address has at most one and gives it up
\* when it needs another; and one that nobody is bound to has a lease, on
\* which it is reused or swept, unless Loop is about to bind it.  This says
\* nothing of a socket that is bound to a session that has ended, see
\* SocketsLetGo (link.go:37-67, 69-114, 116-169, proxy.go:315-324).
LinksAccounted ==
  \A k \in Attempt : link[k].mgr = "open" =>
    /\ \E c \in Client : links[c] = k
    /\ link[k].s = Nobody =>
         link[k].lease # "zero" \/ (At(Loop, "bind") /\ task[Loop].k = k)

\* A session that has ended has let go of its socket.
SocketsLetGo ==
  Settled => \A k \in Attempt : link[k].mgr = "open" /\ link[k].s # Nobody => Live(link[k].s)

\* A session is active through the connection dialed for it, which carries
\* its own preauth data.
OwnBackendPeer ==
  \A s \in Attempt : sess[s].upeer \in {Nobody, s}

\* A client that was accepted is found by its address as long as its session
\* is active, so that what it sends is relayed.
ClientsFound ==
  Settled =>
    \A s \in Attempt :
      sess[s].st = "active" /\ answer[s] = "accepted" => byAddr[sess[s].client] = s

\* A client that was playing and is moved lands on the backend chosen for it
\* when it reconnects (README.md:107), here on one that only a move can choose,
\* also if that backend, which has not failed, first answers with a challenge.
MoveLands ==
  \A m, s, n \in Attempt :
    LET Returns    == m < s /\ s < n /\ \A i \in {m, s} : sess[i].client = sess[n].client
        Chosen     == sess[s].target \notin {NoBackend, FirstUsable(pool)}
        Challenged == answer[s] = "rejected" /\ Chosen /\ pool[sess[s].target].failures = 0
    IN Returns /\ Challenged /\ answer[m] = "accepted" /\ answer[n] = "accepted"
         => sess[n].target = sess[s].target

\* When Close has returned nothing is left running: every socket has ended or
\* is about to (proxy.go:120-144).
ShutdownComplete ==
  At(Closer, "closed") => Ended(listening) /\ \A k \in Attempt : link[k].mgr # "open"

\* A backend is down exactly when its failures in a row have reached the
\* threshold (backend.go:109-144).
HealthFollowsFailures ==
  \A b \in Backend : pool[b].healthy <=> pool[b].failures < HealthFailures

\* Every handshake comes to an end, whatever happens to the upstream socket:
\* the timer does not trust the backend's answer to come (proxy.go:227-249).
PendingEnds ==
  \A s \in Attempt : sess[s].st = "pending" ~> sess[s].st # "pending"

\* Every request is decided, so that its client may ask again, or nobody listens
\* any more.
RequestDecided ==
  \A c \in Client : req[c] # Nobody ~> (req[c] = Nobody \/ Ended(listening))

\* Close returns, although it waits for event loops that are busy closing
\* sessions themselves.
CloseReturns == stopped ~> At(Closer, "closed")
=============================================================================
