# SCPxy: specifications, model checking and proofs

SCPxy (`src/`) is a UDP proxy for SCP:SL game servers: it admits players,
gives each a socket of its own towards a backend, lets the backend's answer
decide the connection and relays payloads until one side goes away. This
directory models the parts whose correctness depends on order, concurrency,
timers, lost datagrams and limits.

| File | Content |
|---|---|
| `SessionCounts.tla` | the admission counters of the gate, as operators on values |
| `Gate.tla`, `Gate_proofs.tla` | the admission gate |
| `Backends.tla` | the backend pool, as operators on a value |
| `Proxy.tla`, `Proxy_proofs.tla` | sessions, upstream links, handshakes, administration, shutdown |
| `Relay.tla`, `Relay_proofs.tla` | the queues and pumps of one session |
| `CommandLoops.tla` | event loops, their bounded queues of commands, `Manager.Stop` |
| `Connections.tla` | what two managers promise their handlers about a connection |
| `Connection.tla` | two managers on the wire: connect, accept, reject, disconnect, time-outs, restarts |
| `Manager_proofs.tla` | the proofs about these two |
| `SequenceNumbers.tla` | numbers that wrap, and their signed distance |
| `ReliableDelivery.tla` | what a reliable channel promises |
| `ReliableChannel.tla`, `ReliableChannel_proofs.tla` | the sliding window of the reliable channels |
| `NewestDelivery.tla` | what a sequenced channel promises |
| `SequencedChannel.tla`, `SequencedChannel_proofs.tla` | the sequenced channels, reliable or not |
| `Messages.tla`, `Messages_proofs.tla` | fragments: messages over several reliable channels |
| `EventBus.tla` | the ring of log entries and its subscribers |
| `Console.tla`, `Console_proofs.tla` | the process from its first log entry to its end |
| `MC*.tla`, `MC*.cfg` | instances for TLC |

## 1. The system

Goroutines and what they share:

* **Listening event loop** (`Manager.eventLoop` of the public socket). Runs every
  client callback of the proxy: `onConnectionRequest`, `onClientConnected`,
  `onClientReceive`, `onClientDisconnected`. Other goroutines reach it by
  posting closures to a channel of 1024 commands.
* **One event loop per upstream link**. Runs the backend callbacks
  `onUpstreamConnected`, `onUpstreamDisconnected`, `onUpstreamReceive`.
* **Two pumps per session**, which move queued payloads to the other side.
* **A handshake timer per session**, **a sweeper** of links, the **console** or
  dashboard, a goroutine that waits for **signals**, **`Close`**, and goroutines
  that close a session whose queue overflowed or stop a link that was replaced.
* All of them **log**, through one event bus.

| Component | State | Operations | Correct when |
|---|---|---|---|
| Admission gate (`security/gate.go`) | buckets, blocks, session counts, ban list | `Allow` (with its sweep), `Acquire`, `Release`, `Ban`, `Unban` | no address gets more than burst and rate; caps hold for the sessions that exist; a block runs its time |
| Session lifecycle (`proxy/proxy.go`, `session.go`) | sessions by address and by id, state, peers, once guards, redirects | request, activation, rejection, time-out, close, kick, move, ban, maintenance, shutdown | every request is answered, no session gets another's peer, tables agree, counters return to the truth |
| Upstream links (`proxy/link.go`) | link by client address, its session, its lease | acquire, bind, release, sweep, stop all | one live session per socket, one open socket per address, in the table |
| Backend pool (`proxy/backend.go`) | enabled, healthy, failures, players | pick, success, failure, enable | down exactly after its failures in a row |
| Relay (`proxy.go`, `session.go`) | two queues of 8192 per session | enqueue, pump | order kept, no gap goes unnoticed, both pumps end |
| Transport manager (`litenetlib/manager.go`) | peers, requests, command queue, life | connect, resolve, receive, update, post, stop | handlers hear of connections one at a time and of each end; no handler runs after `Stop` |
| Transport peer (`litenetlib/peer.go`) | connection state, timers, fragments | connect, accept, shutdown, disconnect, time out, fragment, reassemble | no stale datagram makes a connection or, but for `PeerNotFound`, which names no attempt, ends one; every message once and whole |
| Transport channels (`litenetlib/channel.go`) | windows, acknowledgements, held packets, last packet | send, acknowledge, receive | each message once, ordered channels in order, sequenced ones never backwards, though numbers wrap |
| Event bus (`events/bus.go`) | ring of entries, subscribers, level | `Log`, `Subscribe`, `Unsubscribe`, `History`, `SetLevel` | nothing lost between history and subscription, no send on a closed channel |
| Console, entry point (`cli`, `cmd/scpxy`) | quit, what has been shown | run, signals, keys, commands, shutdown | asking for the end ends the process |
| PreAuth, packet and data codec, configuration | none that changes | parse, format | not modelled |

What is hard here: `dropSession` runs in any goroutine and its steps interleave
with the listening loop that is still setting the session up; the timer, the
backend's answer and the administrator race for one request; a link outlives its
session and its callbacks act on whatever session it is bound to by then; the
gate learns of a session after it is visible; `Stop` runs in the background and
gives up after a while; loops post to each other's bounded queues; every datagram
may be lost, repeated, late or of an earlier attempt; `Log` sends after it has
let go of its mutex. `PROJECT.json` lists these hazards at their lines, with the
properties that guard them.

## 2. How the modules model the code

### Gate

Every method of `Gate` runs under one mutex, so every outcome of a call is one
action. `Allow` is split by its result (`DenyBanned`, `DenyBlocked`,
`DenyExhausted`, `DenyCapped`, `Admit`), and each of them contains the sweep
that `Allow` starts with, whatever it then decides. Go maps become functions:
`buckets` keeps its domain because forgetting a bucket matters, the session
counts read 0 for an absent address. Time is a counter of ticks and tokens are
whole units (`Scale` of them make a token), so that rates below one token per
tick can be expressed without fractions.

The gate's callers are part of the model as far as their order matters:
`grant` is the request the listening loop is deciding, `alive` counts the
sessions registered and not yet dropped. `Register` comes before `Acquire`, as
in `proxy.go:189-203`, and `Release` may come before the `Acquire` of the same
session. `since` and `admitted` observe a window of time that starts anywhere.

### Backends and SessionCounts

Both are operators on values, because their methods run under one mutex each
and are called from several goroutines of `Proxy`. `rested` stands for
"`nextProbe` lies in the past". `Pick` takes a redirect's target even when it
is down, and refuses it only when it is disabled (`backend.go:63-73`).

### Proxy

| Variable | Code |
|---|---|
| `attempts`, `req`, `answer`, `peer`, `lq`, `listening` | the listening `Manager`: `requests`, `resolved`, `peers`, its command channel and its life |
| `byAddr`, `byID`, `links`, `redirects`, `maintenance`, `stopped` | the maps and flags of `Proxy` |
| `count`, `total`, `banned`; `pool` | gate and pool |
| `sess[n]` | a `session`: state, `closeOnce`, address, target, link, backend peer, client peer |
| `link[k]`, `up[k]`, `uq[k]` | an `upstreamLink`: its session, its lease, the life of its manager, that manager's peers and commands |
| `task[t]`, `armed` | where each goroutine stands, which handshake timers run |

A request, its session, its client peer, its backend peer and the link opened
for it share one number, that of the attempt. A property such as `sess[s].cpeer
\in {Nobody, s}` then reads: this session's client peer is the one accepted for it.

The model keeps one step per critical section. `dropSession` alone is six:
look at the state, enter `closeOnce`, release the link, delete from the tables,
give the counters back, and the waiting of those who came second. Any
goroutine may be in any of them. Sections of one goroutine that touch disjoint
objects are one step where nobody can tell:

* `gate.Acquire` and `addPlayer(1)`, `gate.Release` and `addPlayer(-1)`: no code
  compares the gate's counters with the pool's.
* `gate.Ban` and the collection of the sessions of the address in `Ban`.
* `markFailure` and `Reject` in the failure paths.

`onConnectionRequest` is the longest callback: `Check` (the gate), `Request` (the manager's
part), then `TakeRedirect`, `PickBackend`, `Register`, `Acquire`, the link (`ReuseLink` or
`OpenLink`), `Bind`, `Attach` and `Dial` are a step each, and everything else may happen
between them.

A session ends by the relay (`RelayBreaks`) for three reasons: its client floods it, a
backend floods it, or a pump meets a message that fits no datagram. The backend need not be
its own: `onUpstreamReceive` queues for the session that the link is bound to *now*
(`link.go:95-98`), whatever its state, so a connection left over from the last session of
the link can overflow a pending one (`BackendFloods`), which is then closed unanswered.

Commands to an event loop are an unbounded sequence here, and the time-outs
inside `Manager.Stop` are not taken: `CommandLoops` has both. A manager goes
through `open`, `doomed` (somebody will call `Stop`), `told`, `stopping` and
`ended`; its socket and peers disappear at the end.

What the world may do is a constant, `Happens`: a set of named events (a client
leaves, a backend refuses or never answers, a timer or a lease runs out, the
queue of a session overflows, `Close` is called, ...). An instance that leaves an
event out explores the others further. Removing events only removes behaviours
of the environment, never a step of the proxy.

### Relay

One session, both directions. `setup` is the part of the handshake the pumps wait
for; `dropBegun`, `done`, `listed` and `finished` are the stages of `dropSession`
(state set and link released, `s.closed` closed, out of the table, over).
`select` takes any case that is ready, so `enqueue` on a closed session may still
queue a message and a pump may still forward one. What arrives from the client is
queued while its address leads to the session and it is connected, what arrives from the
backend as long as the link is bound to it (`Reaches`). Who may call `closeSession` is a
set of closers: the goroutine an overflow starts, in each direction; each pump
that meets a message too large for a datagram; anybody else. They race, and
`closeOnce` decides. `out` is what the other side gets: a peer that has been told
to disconnect gets nothing more, because its event loop runs the commands in
order. One overflow goroutine per direction at a time stands for all of them.

`Proxy` sees of the relay only that it may break; `Relay` sees of the rest only
when peers become known and that others may close.

### CommandLoops

Two managers, the listening one and a link's. A loop is idle, in a handler, or
ended; from a handler it may post to the other manager or to itself, as the
callbacks do with `Reject`, `Accept`, `Connect` and `Disconnect`. `Others` are
the goroutines that post without being a loop. A post waits while the queue is
full and returns when `done` is closed, either way where both are possible
(`Manager.post`).

Stoppers walk through `Manager.Stop`: `stopOnce`, where the second caller waits for
the first, the attempt to post, which gives up after a second, the wait for the
command to run, which gives up after another, the close of `done`, the wait for the
loop. `Closer` is `Proxy.Close`, which goes on from the listening manager to the
link; `Sweeper` is whoever replaces or sweeps that link meanwhile. A loop looks at
`done` only between two handlers, as its `select` does.

### Connection and Connections

A client manager and a server manager at two addresses and the datagrams between
them. The state of a peer is the code's (`Outgoing`, `Connected`,
`ShutdownRequested`, `Disconnected`, or no peer), its `time` the `connectTime` that
names the attempt. Each datagram is an action of the manager that receives it, with
every check that the code makes and, where the code leaves one out, without it:
`PeerNotFound` and `ShutdownOk` carry no time and are taken for the present
connection. A datagram stays in `net` until it is lost, so it may arrive any number
of times and in any order.

`Update` is `Manager.update` for one peer. Its timers count updates. A peer in
shutdown repeats its `Disconnect`, a disconnected one bars its address until
`disconnectTimeout` has passed, and only then is there room for another.

`Restart` is the end of a process, in order or not, and another that listens at the
same address: it knows nothing, and neither its handler nor, perhaps, the other
end is told. `Stranger` is the test by which a manager answers `PeerNotFound`: it has no peer
at all for the address.

`open`, `accepted`, `told` and `closed` record what the handlers have been told and
done. `Connections`, the abstract specification, has only the first two: what a
user of two managers may rely on. The mapping is the identity, and its liveness
(`HalfOpen`) says that an end which is left alone with a connection hears of it.

### SequenceNumbers, ReliableChannel and ReliableDelivery

One direction of a reliable channel, ordered or not (`ordered` is chosen
initially): `newReliableChannel` at both ends, the datagrams in between. The
arithmetic is the code's: sequence numbers modulo `MaxSequence`, arrays indexed
modulo `WindowSize`, the signed distance of `relativeSequence`, the bit field of
acknowledgements that slides with the receiver's window. A message is the place
at which it was enqueued and travels in one packet; merging of packets in a
datagram is left out because the receiver undoes it before the channel sees it.

`data` and `acks` are sets, so a datagram may arrive any number of times, in any
order, or never (`Lose`). A datagram disappears at the latest when `Lifetime`
further packets have entered the window: no protocol with wrapping numbers works
without such a bound, and `WindowsAreApart` says how large `MaxSequence` has to be.
The code has a window of 64 and 32768 numbers, which allows for some 16000 packets
sent while a datagram is under way. (`PacketsOutliveWindow` keeps `Lifetime` from
being so short that the network would forget within a window.)

`ReliableDelivery` is the promise: messages handed in, messages handed out. The
channel implements it with the identity as refinement mapping, because the
variables have the same names.

### SequencedChannel and NewestDelivery

One direction of a sequenced channel, `reliable` or not. The receiver takes what
is newer than the last it took and acknowledges that; the sender of a reliable
channel repeats its last packet, and only that, until it is acknowledged.
`Lifetime` bounds how long a datagram survives, `MaxSilence` how many packets are
sent while none arrives. The promise `NewestDelivery` lets messages be skipped,
but hands none out twice and never goes back, and a reliable channel does not keep
the last one back.

### Messages

`Peer.send` and `Peer.addReliablePacket` over several reliable channels that share
one counter of fragment ids and one table of collections. What carries the packets
is not `ReliableChannel` again but its promise, an instance of `ReliableDelivery` for
each channel; what is shown is the same promise for whole messages. `IdFree` is what
the code relies on and does not check: an id, of 2^16, is not used again while
fragments that bear it are on their way.

### EventBus and Console

`Log` is one action up to its `Unlock` (level, ring, the copy of the subscribers) and
one more for each channel it then sends to: the send finds room, finds the channel
full, or finds it closed and panics. `Console` composes the bus with the process: the
main goroutine from the first entry over `Subscribe`, `History`, the two ways to run
(headless with a printing goroutine, or the dashboard, whose `Update` asks for one
entry at a time), to `Unsubscribe` and `shutdown` with its grace period. `closeOnce`
is two steps, as it is a `select` and then a `close`. `Proxy.Close` returns or does
not; the dashboard may fail.

`leaving` says that the dashboard has been told to end: by the goroutine that waits for `quit`,
by a key, or by a signal, for which bubbletea has a handler of its own; the last may come before
anybody closes `quit`. `Program.Run` returns only between two calls of `Update`. `Update` runs the
command of a console line itself (`tui.go:139`), and `kick`, `move` and `ban` wait in
`Manager.post` if a queue is full: `busy` is such a command, which need not return. A panic
in `Update` is recovered by bubbletea and ends `Program.Run`; one in another goroutine ends the
process.

## 3. Runs

| Run | Instance | Shows |
|---|---|---|
| `gate_connection` | *either* one address, burst 2, half a token per tick, cap 2, block 6, 12 ticks; *or* two attempts, one stop of a process, one datagram under way to the client and two to the server, time-out after one update, late `ConnectRequest`s | `RateLimit`, `CapPerIP`, `BlockLasts`; the safety part of `Connections`, a reason for each end, an answer to every attempt |
| `connection_relay` | *either* the same connection with one datagram each way, none late, fair; *or* a relay with queues of 1, 3 messages, five closers, fair | the liveness of `Connections`, attempts end; a gap is never unnoticed and ends the session, both pumps end |
| `loops_console` | *either* two managers with queues of 1, one pump, 4 posts, two stoppers, fair; *or* a process with a ring of 2, a channel of 1, 5 entries, two levels, one goroutine that logs besides main, fair | `Stop` returns and leaves no handler, nobody stays in a post; nothing is lost between history and channel, entries are shown, asking for the end ends the process |
| `proxy_timeouts` | one client, two attempts; silent backends, handshake timers, leases | sockets and peers are never mixed up, requests always have an answer coming, counters settle, an address has one open socket |
| `proxy_admin` | two clients behind one address, two backends, two commands, a backend down after one failure, one session in total | types, caps, tables, health under kick, move, ban, unban, disable, maintenance |
| `proxy_live` | one attempt, every event except administrators, `lease` and `probe`, `Close` included, fair | every handshake ends, every request is decided, `Close` returns and leaves no socket |
| `reliable_channel` | 9 messages, window 2, 8 numbers, one message waiting to enter, fair | it implements `ReliableDelivery`, safety and liveness; windows stay in step |
| `sequenced_channel` | 9 messages, 6 numbers, two waiting, lifetime 3, silence 2, fair | it implements `NewestDelivery`, safety and liveness; the last packet is kept |
| `messages` | an ordered and an unordered channel, 2 messages each, up to 3 packets a message, 2 fragment ids, fair | what `ReliableDelivery` promises of packets holds of messages; collections end |

Three of the runs hold two instances that have nothing to do with each other: which of the two
a behaviour is about is chosen at its start (`part`), and the other stands still. Every
state and every property is that of the one or of the other, and fairness is asked of the one
that moves.

Three more expect a violation, since a document of the repository says of the program what it
does not do (section 6):

| Run | Instance | Violates |
|---|---|---|
| `proxy_move` | one client, two backends, three attempts, one move; backends may answer with a challenge | `MoveLands` |
| `relay_gap` | a relay with queues of 1, 3 messages | `NoGap` |
| `console_panic` | a process with 4 entries | `NoPanic` |

The promises `ReliableDelivery`, `NewestDelivery` and `Connections` are checked as
refinements: the properties are their initial predicate and `[][Next]_vars`, and
their fairness, under an `INSTANCE` of the abstract module.

Why the bounds are enough to be interesting:

* *gate*: a bucket can be emptied, blocked, swept and refilled, and blocked again
  within the 12 ticks; the idle time (4 ticks) is shorter than the block (6), so that
  a sweep which forgot blocked buckets would be seen, and the refill in that
  time is exactly a full bucket, the tightest case of the rate limit.
* *proxy*: two attempts of one address are what it takes for a session, its
  link, its peers, its address entry and its timer to meet those of a
  successor. A client that starts a new attempt while its last one is connected
  stands for one that leaves as well: its peer ends in the same way. Two clients
  behind one address share the caps and the redirect, and compete for the one session
  that `proxy_admin` allows. They are interchangeable there, hence the
  symmetry; no liveness is checked in that run.
* *channels*: the numbers wrap and one is used again, and stale copies of
  earlier windows arrive. A window of two has an early packet, a gap and an
  index that is used again.
* *relay*: with a queue of one, the third message shows a gap, or goes into the other
  direction.
* *messages*: two ids are as few as there can be with a message of each channel under
  way, so the ids wrap with the third fragmented message. Three parts have a
  first, a middle and a last one.
* *connection*: two attempts are a present and a stale one. With two datagrams under
  way to the server an old `ConnectRequest` or `Disconnect` can wait for the newer
  one. One stop of either process is what makes an end unknown to the other.
* *console*: the ring is full after two entries and the channel after one, so both push
  out or miss something; entries come before, between and after every step of
  main.
* *command loops*: a queue of one is full after one post, so that loops wait for each
  other and for themselves. Two stoppers are the first and the second of
  `stopOnce`.

Deadlock checking is off in the runs with bounded attempts, messages, entries or
posts: once they are used up the system rests, as the real one does without
clients.

## 4. Fairness

Go runs every runnable goroutine, timers fire, and no mutex is held across a blocking
call. Beyond this nothing is assumed of clients, backends, administrators, signals or
keys.

* `Proxy!Fairness`: weak fairness of what the program does by itself: event loops
  run their commands and finish their callbacks, timers fire and run, goroutines
  that close sessions proceed. A backend may stay silent for ever. The timer is what
  ends the handshake then, and the mutant without it fails.
* `Relay!RelayFairness`: the same of the pumps and the closers.
* `CommandLoops!LoopsFairness`: weak fairness of handlers (except that they may wait in a
  post), posts and the steps of `Stop`. A loop's choice between its commands and
  `done` is strongly fair: `select` picks at random among what is ready, so what is
  ready again and again is picked some time, even if the loop is busy in between.
* `ReliableChannel!FairSpec`, `SequencedChannel!FairSpec`: the peer is updated again and
  again (`Manager.update` runs every tick), and a packet or acknowledgement that is
  sent infinitely often arrives infinitely often: strong fairness, since each copy
  may be lost.
* `Messages!FairSpec`: what the channels promise, that each hands out what it has.
* `Connection!Fairness`: weak fairness of `Update`; of what tells an end that a connection is
  over (`HearOfEnd`), the `Disconnect` that the other end repeats and the `ShutdownOk`
  to its own, some arrives (strong); traffic does not stay under way for ever.
  Nothing is assumed of the other datagrams.
* `Console!Fairness`: main, the goroutine that closes `quit`, the dashboard's, those that
  log and the one that prints go on, and the grace period ends. `Program.Run` and the entries
  it shows are strongly fair, since messages to the dashboard wait in one channel and get their
  turn between two commands. `Proxy.Close` need not return, nor a command of the dashboard.

## 5. Proofs

What is proved holds for every value of the constants that the named assumptions
allow. The modules with proofs extend the ones they are about; TLC evaluates the
assumptions on its instances. The `TypeOK` of a module whose type correctness is
proved is not repeated as an invariant of a run, except that of `Proxy`.

**`Gate_proofs`**: `TypeCorrect`, `RateLimitHolds`, `CapPerIPHolds`, `BlockHolds`. The
counters never fall below zero, although `Release` may come first. The last three are
not inductive by themselves; `GateInv` adds

* `BucketInv`: a bucket is never over-full and its time stamp is in the past;
* `RateInv`: what was let through in the window *plus what the bucket would hold
  now* is at most burst plus rate. Every admission takes from the second term what
  it adds to the first; a tick adds the rate to both sides; a forgotten bucket
  reads as a full one, which is where the assumption below is used;
* `CapInv`: the counter is never less than the sessions that exist, one of which
  may be waiting for its `Acquire`; and counter plus the request under decision
  does not exceed the cap, since the loop decides one request at a time.

Assumption `IdleRefills`: `Rate * BucketIdleTime >= Full`. A bucket that is idle
long enough to be forgotten would have been full again. The code forgets what has been idle
for five minutes (`gate.go:10-11`), and the default configuration satisfies the
assumption, but `config.go` does not enforce it: with a rate of 0.1 per second and a
burst above 30 the sweep hands out tokens early. The bound then holds only per idle
period.

**`Relay_proofs`**: `TypeCorrect`, the bound on the queues included, and
`GapsAreNoticed`. `GapMeansEnd` speaks of what was passed on and says nothing of a
message that is dropped while its successors are still queued. `RelayInv` therefore
says more: as long as nobody is ending the session, no peer has been told to
disconnect and, in each direction, what was passed on followed by what is queued is
exactly what arrived (`Intact`). `Ending` is stable, because whoever ends the session
does not stop before it is closed; `DropInv`, the order of the stages of
`dropSession`, shows this for the last closer.

**`ReliableChannel_proofs`**: first the lemmas on `SequenceNumbers`: two counters that are less
than half of the numbers apart are compared rightly by their wrapped forms
(`RelativeIsDistance`). The lemmas on division hold for any divisor and
serve for the arrays as well. Then `TypeCorrect`, `WindowsStayInStep`, `NothingIsGivenUp` and
`Refines`: each step of the channel is a step of `ReliableDelivery` or a stutter. The
variables hold numbers that wrap, so the invariant `ReliableInv` says that there are
counters that do not: `l` where the sender's window starts, `r` for which the receiver
waits, `v` where its own window starts, with `v <= l <= r <= entered` and each window no
longer than `WindowSize`. The parts of `InvAt(l, r, v)` say what the arrays, the bits and
the datagrams mean in terms of these: a held packet came early and lies in the window,
a bit is set exactly if its packet has come, what is pending lies in the sender's
window, everything in that window has come or is pending, a datagram is young and an
acknowledgement claims nothing that has not come. Each action moves the counters,
and the numbers follow by the lemmas above. Handing out a packet fills the window up to
the next gap, which is the least number that has not come (`WellFoundedInduction`).
Assumptions: `ArraysWrapEvenly` (the window divides the numbers, so that an index is
that of the counter); `WindowsAreApart` (how old a datagram may be, compared with the
numbers); `PacketsOutliveWindow`, which only asks that the network is not assumed to
forget faster than a window passes. All hold for 64 and 32768 with a `Lifetime` of
some 16000. TLC has checked the invariant on an instance with seven messages as
well.

**`SequencedChannel_proofs`**: `TypeCorrect`, `LastIsKept` and `Refines` against
`NewestDelivery`, after those of the lemmas on numbers that it needs. The invariant says which counters the numbers stand for and that
datagrams are young; then `Newer` is "newer" and an acknowledgement taken for that of the
last packet is one (`NumbersAreApart`).

**`Messages_proofs`** (over `ReliableDelivery`): `CollectionsAreFinished` and
`MessagesAreOnce`, the refinement in which every channel keeps for messages what
`Messages` lets it do with packets. `MessagesInv` consists of

* `PacketInv`, `PartsInv`: the packets of a message lie together in what its channel was
  given, one for each part, and later messages lie later;
* `OutInv`: an ordered channel has handed out the first packets, any channel only packets it
  was given;
* `IdInv`: fragments under way that bear the same id are of the same message;
* `HeldInv`: there is a collection exactly for each message of which some packets have come
  and some have not, under the id of its fragments, and it holds *exactly* those that have;
* `DeliveredInv`: what has been handed out are the messages of which nothing is missing.

From `HeldInv` a fragment always finds the collection of its own message and is never
dropped (`CollectedIs`, `FragmentReceived`), and that collection is complete exactly when nothing
is missing, which takes the count of a message's parts (`PlacesCount`). `HeldInv` would break if
the ids met, so the step that sends needs `IdFree`, the guard that stands for the
16 bits of the counter being enough. The code has no such check: if fragments of a message
were still under way when 65536 more fragmented messages had been sent on the same
connection, two messages could meet under one id. `OrderedAreChannels` and `SizesAreNatural` are the only assumptions. TLC has checked `MessagesInv` on
the instance of the run as well.

**`Manager_proofs`** is about `CommandLoops` and `Connection`, the two sides of the manager;
the names of the former's specification begin with `Loops` for this reason.

About `CommandLoops`, two managers and two stoppers, with any queues and posters: `NoHandlerIsLeft`:
whoever has returned from
`Stop` has joined the loop, or has passed `stopOnce` after somebody who had.

About `Connection`: `TypeCorrect`, `NoAttemptForgotten`, `ReportsKeepPromise` against
`Connections`, `EndForAReason`. `Inv` consists of the types, of `PeerInv` (what the state of
a peer says of what its handler was told), of `DatagramsAreTrue` (a `ConnectAccept`
under way names an attempt that was accepted, a `Disconnect` one that was closed) and
`AttemptsAnswered`. A lemma `Report` says what a step that changes peers may tell the
handlers; the refinement follows from it action by action.

`EndsForAReason` allows an end by `PeerNotFound` only where `NotFound` says why, and that takes an
invariant on all that was ever sent, `FirstInv`. `PeerNotFound` names no attempt, so a late
one may end a later connection that both ends know; it never ends the *first* while both
know it, except the client's where late requests make the server forget it and set it up
again. `Said(e, d)` is what a datagram under way proves (a `PeerNotFound`: the first connection
is `Over`, or, at the client, the server has `Left` it), `NothingUnsaid` that this is true of every
one. `Moves` sums up what a step may do to everything but the datagrams, and each action is
shown to move so and to send only what is then true.

**`Console_proofs`** (over `EventBus`): `TypeCorrect`, `NothingIsLost`.
`ProcessInv` relates ring, channels and sends under way to the entries there have been.
`NothingIsLost` needs `Subscribed`: from `Subscribe` to `Unsubscribe` main's channel is
among the subscribers that `Log` copies, so that an entry since then is in the channel,
on its way to it or missed, and `History`, which is read later, leaves no gap before it.

**`Proxy_proofs`**: for any number of clients, addresses, backends, attempts and commands,
all invariants that runs check of `Proxy`. Any goroutine may stand at any of its steps, so most
of the invariants say what a place in the code means. They come in layers, each of
which is preserved by the steps that keep the layers below.

* `Writers` says which actions change a variable, `...Moves` where an action leads its goroutine,
  `...Posts` what it adds to a queue. The cases of a proof are those actions that change
  something the invariant reads; the others are one case.
* `TypeInv` (`TypeCorrect`): with the types, what Loop has in hand at each of its steps, and that
  nothing is known of attempts to come.
* `RefInv`: whatever refers to a session (goroutine, table, timer, link, command, peer) refers to
  a registered one. `AddressesLeadToSessions` is proved on top: the name of an address may be
  deleted by an old session, but never leads to a wrong one.
* `TimerInv`, `DropInv`, `ListedInv`: each session has at most one dropper, the goroutine that
  `closeOnce` let in, and is in the table of ids until that one takes it out. So `Release` runs
  once for each session.
* `CapInv` (`CapsAlwaysHold`): the gate's counters *plus the session Loop is about to count* are
  never less than the sessions held, and with the request under decision do not exceed the
  cap. A drop that runs before `Acquire` is absorbed by the first half: the
  clamped counter is then too high, never too low.
* `LinkInv` (`SocketsAreNotShared`): a link that Loop is about to bind is bound to nobody, one about to be released
  is still bound to the session that releases it. `LeaseInv` (`SocketsAreAccounted`): one that nobody is
  bound to has a lease or is in Loop's hand. `BackendsAreDownInTime` is inductive by itself given the
  types.
* `RequestInv`, `OwnPeerInv` (`PeersMeetTheirSessions`): a manager has one request of an address
  at a time, and it is that of the attempt without an answer; so when a client is accepted, the entry of
  its address is either gone or that of the accepted session.
* `DialInv`, `AcceptInv` (`BackendDecides`): an `Accept` that is queued, or a goroutine about to
  queue one, belongs to a session whose backend peer is set.
* `ShutdownInv` (`ClosingLeavesNothing`): once the listening loop has ended nobody opens a link, and
  Closer waits for that before it collects them.

Two invariants do not hold of a proxy on which somebody closes sessions from outside, by kicking,
moving, banning or `Close`: TLC finds that any one of the four breaks both (section 6). They are
proved without these four events (`Undisturbed`), the second also without overflows
(`Unbroken`), since what overflows a pending session closes it unanswered as well:

* `CountsComeRight` (`CountsSettle`): until Loop has counted a session nobody else knows of it
  (`PrivateInv`: its timer does not run, no link is bound to it, no goroutine has it), so no drop comes
  first, and counters plus what is about to be counted *equal* the sessions held (`CountInv`).
  A kick finds the session by its id, which is in the table already.
* `RequestsAreAnswered` (`AnswerComing`): an attempt is `Decided` if its answer has been given, is
  queued, or a goroutine is on its way to queue it. `DecidedInv` says that whoever becomes active, is closed,
  or is about to be is decided, and so is every attempt without a session but the one Loop looks at. A client
  that waits has no peer, so a lost peer closes no undecided session; a kick does, and so does a
  backend connection left over on a link that floods the next session (`BackendFloods`).

No run has all the events the theorems allow: each checks its invariants on the events
of its instance, the theorems hold for all of them together.

Every invariant and every refinement or action property of a passing run is proved. Only
model-checked is liveness, which is out of the prover's reach: `DeliversAll`, `DeliversLast`,
`MessagesAll`, `HalfOpenEnds`, `AttemptsEnd`, `PumpsEnd`, `EntriesShown`, `QuitEnds`, `StopReturns`,
`PostsEnd`, `CloseReturns`, `PendingEnds` and `RequestDecided`.

## 6. Found along the way

Three behaviours contradict a document of the repository. A run expects each violation and
`PROJECT.json` lists it as a finding.

* `proxy_move` (`MoveLands`): the redirect of a moved player is used up by the first
  attempt to come (`proxy.go:173`, `369-384`). Every connection takes two, since the backend
  answers the first with a challenge (`docs/protocol-notes.md:99-105`); the one with the response
  then goes to the backend that comes first. `README.md:107` says that players "land on the
  chosen backend when they reconnect", as do `README.md:95` and the help of the console.
* `relay_gap` (`NoGap`): a full queue drops a message, and until the goroutine that closes the
  session has run later messages still get through (`proxy.go:614-629`).
  `docs/protocol-notes.md:125` says that the proxy "closes the whole session rather than
  dropping the message", `README.md:13` that the relay is lossless. `GapMeansEnd` says what holds:
  the session is being ended by then.
* `console_panic` (`NoPanic`): two quitters may both find `quit` open and close it twice
  (`app.go:27-33`), which panics; and a send of `Log` may meet the channel that `Unsubscribe`
  closes (`events/bus.go:93-104`, `143-154`). `README.md:31` promises a "graceful shutdown"
  that "closes cleanly", and `README.md:105` one by Ctrl+C.

Other behaviours that a maintainer should know. The first five have a configuration of their own,
which is no part of the runs: TLC finds the shortest behaviour with it.

* `MCProxyKickAnswer.cfg` (`AnswerComing`): kicking (or moving) a session that is still
  pending closes it without answering the request (`proxy.go:443`). The manager keeps the
  request as unresolved, so later requests of that address are only noted
  (`manager.go:488`).
* `MCProxyStaleDial.cfg` (`OwnBackendPeer`): a reused link whose earlier dial is still
  under way ignores the new one, and the success of the old dial activates the new
  session (`link.go:84`).
* `MCProxyOrphan.cfg` (`ClientsFound`): the last steps of an old session remove the
  address entry of the client's new session (`proxy.go:328`).
* `MCProxyLease.cfg` (`SocketsLetGo`): a session that is dropped between `bind` and the assignment
  of `s.upstream` (`proxy.go:215-220`, `315-324`), by the failure of a stale dial on its
  reused link for instance, does not release its link. That stays bound to a session that has ended,
  and can be neither reused nor swept until the address returns or the proxy closes. It is then
  not "leased per client address and reused across reconnects for a short window"
  (`docs/protocol-notes.md:113`). `LinksAccounted` says what holds: it is the only open one of
  its address, in the table.
* `MCConnectionNotFound.cfg` (`StrangersOnly`): `PeerNotFound` names no attempt
  (`manager.go:413-415`). A client that starts again answers old traffic with it, connects anew, and
  if it arrives after that it ends a connection that both ends know. `EndsForAReason` and its
  theorem say how far this goes: a first connection is not ended so as long as both know it
  (but for the client's, by way of a late `ConnectRequest`).
* A backend connection left over on a reused link delivers to the session bound now
  (`link.go:95-98`). If it floods a pending one, that is closed and its request never answered:
  with `overflow` added to `proxy_timeouts` `AnswerComing` may fail, and its theorem excludes it.
* A session that is closed between its activation and `Confirm` leaves its backend connection
  open without an owner (`proxy.go:258-267`); `AcceptedHasBackend` permits it.
* A kick between the registration of a session and `gate.Acquire` runs `Release` first
  (clamped at zero) and lets `Acquire` count a session that is gone: with `kick` added
  to `proxy_timeouts`, `CountsSettle` fails. So do it and `AnswerComing` with `move`, `ban` or `close`,
  which close sessions in the same way.
* Connection: a stale `ConnectRequest` replaces the data of a pending request without
  comparing times (`manager.go:495`), so a client on its second attempt may talk to a
  server that accepted the first. `ShutdownOk` carries no time either. A
  repeated `ConnectRequest` that arrives after its connection has ended and its address
  is free again makes a new server peer. An attempt that the client cancels is not
  reported to its handler, and `InvalidProtocol` ends one silently.
* Console: a dashboard that fails ends the process without `Close` and `Unsubscribe`. What is
  logged during the shutdown, the warning of a forced one included, is shown to nobody. An entry
  logged between `Subscribe` and `History` is shown twice.
* Command loops: a loop that posts to its own full queue waits for ever, and two loops may
  wait for each other until one of them is stopped. `Stop` of a manager whose loop posts
  to one that waits for itself does not return. Headless, the grace period ends the process all
  the same. In the dashboard it does not where a console command waits in `Manager.post`: `Update`
  runs it itself (`tui.go:139`), `Program.Run` does not return, and the grace period never begins
  (`QuitEnds` excludes it by `[]busy`).

The passing runs leave out the events that trigger these (`proxy_timeouts` has
no administrator and no `refuse`, for instance) for the properties concerned, and the
properties of the others say what holds with them (`LinksAccounted`, `GapMeansEnd`,
`EndsForAReason`, `StopReturns`, `QuitEnds`).

## 7. Not modelled, and why

* Packet, data and preauth encoding (`packet.go`, `data.go`, `preauth.go`): functions from
  bytes to values without state. The models receive what has passed their checks.
* Configuration: loaded once. Its bounds appear as assumptions on constants.
* The unreliable delivery: it has no state; the proxy passes every payload on with the
  delivery and the channel it came with.
* Round-trip times, merging of packets into datagrams, MTU discovery: the first only says
  when a packet is sent again, which is nondeterministic in the models; the second is
  undone before the channels see a packet; the third is switched off for
  both managers.
* Statistics, log wording, player lists, layout of the dashboard: no decision depends
  on them.
* Sockets and their read goroutine: a datagram that arrives is an event of the loop.

## 8. What could come next

* A composition of `Relay` with `Proxy` in place of the event that a relay breaks.
