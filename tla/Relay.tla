-------------------------------- MODULE Relay --------------------------------
(***************************************************************************)
(* The relay of one session of internal/proxy: two bounded queues, filled  *)
(* by the event loops of the two sockets and emptied by a pump each, while *)
(* the session is set up and ended by others (proxy.go, session.go).       *)
(*                                                                         *)
(* The messages of a direction are numbered as they arrive.  A direction   *)
(* is named after its queue, toBackend or toClient.                        *)
(* The names of the specification begin with Relay, so that it can stand   *)
(* beside another one in one module.                                       *)
(* Definitions named ..._Slip are plausible mistakes; nothing uses them.   *)
(***************************************************************************)
EXTENDS Integers, Sequences

CONSTANTS
  RelayQueueSize,  \* relayQueueSize
  MaxMessages      \* bound on the messages that arrive, in both directions together

ASSUME SizesAreNaturals == RelayQueueSize \in Nat \ {0} /\ MaxMessages \in Nat

Dir == {"toBackend", "toClient"}

\* Who may call closeSession: goroutines started by an overflow, pumps that
\* meet a message too large, and everybody else.
Overflow(d) == <<"overflow", d>>
Pump(d)     == <<"pump", d>>
AnyoneElse  == <<"other", "">>
Closer      == {AnyoneElse} \cup {Overflow(d) : d \in Dir} \cup {Pump(d) : d \in Dir}

VARIABLES
  setup,      \* how far the handshake has come
  dropBegun,  \* dropSession has begun: state is closed, the link is released
  done,       \* the channel s.closed is closed
  listed,     \* the session is found by the address of its client
  finished,   \* dropSession has ended
  arrived, queue, pump,   \* per direction
  out,        \* per direction, the messages that reach the other side
  parted,     \* the peers told to disconnect, by the queue that leads to them
  closerAt,   \* who closes the session, and how far
  knows       \* per closer, the peers it found

sessionVars == <<setup, dropBegun, done, listed, finished>>
queueVars   == <<arrived, queue, pump, out>>
closeVars   == <<parted, closerAt, knows>>
relayVars   == <<sessionVars, queueVars, closeVars>>

RelayInit ==
  /\ setup = "dialing"
  /\ dropBegun = FALSE /\ done = FALSE /\ listed = TRUE /\ finished = FALSE
  /\ arrived = [d \in Dir |-> 0]
  /\ queue = [d \in Dir |-> <<>>]
  /\ pump = [d \in Dir |-> "waiting"]
  /\ out = [d \in Dir |-> <<>>]
  /\ parted = {}
  /\ closerAt = [g \in Closer |-> "idle"]
  /\ knows = [g \in Closer |-> {}]

-----------------------------------------------------------------------------
(* The handshake, as far as the pumps wait for it.                         *)

\* The queues whose pump may start: their peer is known.
Ready == CASE setup \in {"dialing", "answered"} -> {}
           [] setup \in {"backend", "found"}    -> {"toBackend"}
           [] setup = "both"                    -> Dir

SetUp(from, to) ==
  /\ setup = from
  /\ setup' = to
  /\ UNCHANGED <<dropBegun, done, listed, finished, queueVars, closeVars>>

\* onUpstreamConnected: only a pending session becomes active.
Activate == ~dropBegun /\ SetUp("dialing", "answered")

MarkBackendReady == SetUp("answered", "backend")

\* onClientConnected: the session is looked up, then the peer is stored.
FindClient == listed /\ SetUp("backend", "found")

MarkClientReady == SetUp("found", "both")

-----------------------------------------------------------------------------
(* enqueue, by the event loops.                                            *)

\* onClientReceive finds the session by address; onUpstreamReceive the one the
\* link is bound to, which the backend of an earlier session may reach as well.
Reaches(d) == IF d = "toBackend" THEN setup = "both" /\ listed ELSE ~dropBegun

StartsClosing(g) ==
  closerAt' = IF closerAt[g] = "idle" THEN [closerAt EXCEPT ![g] = "look"] ELSE closerAt

Enqueue(d) ==
  /\ Len(queue[d]) < RelayQueueSize
  /\ queue' = [queue EXCEPT ![d] = Append(@, arrived[d] + 1)]
  /\ UNCHANGED closerAt

\* The session is over: the message is swallowed.
Swallow == done /\ UNCHANGED <<queue, closerAt>>

\* Slip: the message is dropped and that is all.
Overflows_Slip(d) ==
  /\ ~done
  /\ Len(queue[d]) = RelayQueueSize
  /\ UNCHANGED <<queue, closerAt>>

\* The queue is full: the message is dropped and a goroutine of its own will
\* close the session.  One that is at it already does it as well.
Overflows(d) ==
  /\ ~done
  /\ Len(queue[d]) = RelayQueueSize
  /\ StartsClosing(Overflow(d))
  /\ UNCHANGED queue

\* select takes any case that is ready.
Arrive(d) ==
  /\ arrived["toBackend"] + arrived["toClient"] < MaxMessages
  /\ Reaches(d)
  /\ arrived' = [arrived EXCEPT ![d] = @ + 1]
  /\ Enqueue(d) \/ Swallow \/ Overflows(d)
  /\ UNCHANGED <<sessionVars, pump, out, parted, knows>>

-----------------------------------------------------------------------------
(* pumpToBackend and pumpToClient.                                         *)

PumpTo(d, pc) ==
  /\ pump' = [pump EXCEPT ![d] = pc]
  /\ UNCHANGED <<sessionVars, arrived, queue, out, closeVars>>

PumpStarts(d) == pump[d] = "waiting" /\ d \in Ready /\ PumpTo(d, "running")

\* Slip: a pump that still waits for its peer does not notice the end.
PumpEnds_Slip(d) == pump[d] = "running" /\ done /\ PumpTo(d, "ended")

PumpEnds(d) == pump[d] \in {"waiting", "running"} /\ done /\ PumpTo(d, "ended")

\* Send: a peer that has been told to disconnect gets nothing more.
Forward(d) ==
  /\ pump[d] = "running"
  /\ queue[d] # <<>>
  /\ queue' = [queue EXCEPT ![d] = Tail(@)]
  /\ out' = IF d \in parted THEN out ELSE [out EXCEPT ![d] = Append(@, Head(queue[d]))]
  /\ UNCHANGED <<sessionVars, arrived, pump, closeVars>>

\* A message that fits no datagram: the pump closes the session and ends.
Unrelayable(d) ==
  /\ pump[d] = "running"
  /\ queue[d] # <<>>
  /\ queue' = [queue EXCEPT ![d] = Tail(@)]
  /\ pump' = [pump EXCEPT ![d] = "closing"]
  /\ StartsClosing(Pump(d))
  /\ UNCHANGED <<sessionVars, arrived, out, parted, knows>>

PumpStep(d) == PumpStarts(d) \/ PumpEnds(d) \/ Forward(d) \/ Unrelayable(d)

-----------------------------------------------------------------------------
(* closeSession and dropSession.                                           *)

\* Everybody else ends the session: a peer is gone, an administrator, Close,
\* or, while it is pending, its timer or the refusal of the backend.
OtherCloses ==
  /\ closerAt[AnyoneElse] = "idle"
  /\ ~dropBegun
  /\ \/ closerAt' = [closerAt EXCEPT ![AnyoneElse] = "look"]
     \/ setup = "dialing" /\ closerAt' = [closerAt EXCEPT ![AnyoneElse] = "drop"]
  /\ UNCHANGED <<sessionVars, queueVars, parted, knows>>

\* The closer is through; a pump ends with it.
Finish(g) ==
  /\ closerAt' = [closerAt EXCEPT ![g] = "idle"]
  /\ pump' = [d \in Dir |-> IF g = Pump(d) THEN "ended" ELSE pump[d]]

LookUp(g) ==
  /\ closerAt[g] = "look"
  /\ IF dropBegun THEN Finish(g) /\ UNCHANGED knows
     ELSE /\ knows' = [knows EXCEPT ![g] = Ready]
          /\ closerAt' = [closerAt EXCEPT ![g] = "tell"]
          /\ UNCHANGED pump
  /\ UNCHANGED <<sessionVars, arrived, queue, out, parted>>

\* Disconnect to the peers found, one event loop after the other; neither
\* concerns what the other is sent.
Tell(g) ==
  /\ closerAt[g] = "tell"
  /\ parted' = parted \cup knows[g]
  /\ closerAt' = [closerAt EXCEPT ![g] = "drop"]
  /\ UNCHANGED <<sessionVars, queueVars, knows>>

DropBegin(g) ==
  /\ closerAt[g] = "drop"
  /\ ~dropBegun
  /\ dropBegun' = TRUE
  /\ closerAt' = [closerAt EXCEPT ![g] = "close"]
  /\ UNCHANGED <<setup, done, listed, finished, queueVars, parted, knows>>

DropWaited(g) ==
  /\ closerAt[g] = "drop"
  /\ finished
  /\ Finish(g)
  /\ UNCHANGED <<sessionVars, arrived, queue, out, parted, knows>>

CloseChannel(g) ==
  /\ closerAt[g] = "close"
  /\ done' = TRUE
  /\ closerAt' = [closerAt EXCEPT ![g] = "forget"]
  /\ UNCHANGED <<setup, dropBegun, listed, finished, queueVars, parted, knows>>

Forget(g) ==
  /\ closerAt[g] = "forget"
  /\ listed' = FALSE /\ finished' = TRUE
  /\ Finish(g)
  /\ UNCHANGED <<setup, dropBegun, done, arrived, queue, out, parted, knows>>

ClosingStep(g) ==
  LookUp(g) \/ Tell(g) \/ DropBegin(g) \/ DropWaited(g) \/ CloseChannel(g) \/ Forget(g)

-----------------------------------------------------------------------------
RelayNext ==
  \/ Activate \/ MarkBackendReady \/ FindClient \/ MarkClientReady
  \/ \E d \in Dir : Arrive(d) \/ PumpStep(d)
  \/ OtherCloses
  \/ \E g \in Closer : ClosingStep(g)

RelaySpec == RelayInit /\ [][RelayNext]_relayVars

\* Goroutines run; nothing is asked of the peers.
RelayFairness ==
  /\ \A d \in Dir : WF_relayVars(PumpStep(d))
  /\ \A g \in Closer : WF_relayVars(ClosingStep(g))

RelayFairSpec == RelaySpec /\ RelayFairness

-----------------------------------------------------------------------------
RelayTypeOK ==
  /\ setup \in {"dialing", "answered", "backend", "found", "both"}
  /\ {dropBegun, done, listed, finished} \subseteq BOOLEAN
  /\ arrived \in [Dir -> 0..MaxMessages]
  /\ queue \in [Dir -> Seq(1..MaxMessages)]
  /\ \A d \in Dir : Len(queue[d]) <= RelayQueueSize
  /\ pump \in [Dir -> {"waiting", "running", "closing", "ended"}]
  /\ out \in [Dir -> Seq(1..MaxMessages)]
  /\ parted \subseteq Dir
  /\ closerAt \in [Closer -> {"idle", "look", "tell", "drop", "close", "forget"}]
  /\ knows \in [Closer -> SUBSET Dir]

Whole(d) == \A i \in 1..Len(out[d]) : out[d][i] = i

\* What the other side is sent has a gap only when the session is ending:
\* the overflow that drops a message never goes unnoticed (proxy.go:606-629).
GapMeansEnd ==
  \A d \in Dir : ~Whole(d) => dropBegun \/ \E g \in Closer : closerAt[g] # "idle"

\* The other side is never sent a message after one was dropped.
NoGap == \A d \in Dir : Whole(d)

\* Both pumps end with the session, also one that never started, so that no
\* goroutine is left behind (proxy.go:631-690).
PumpsEnd == dropBegun ~> \A d \in Dir : pump[d] = "ended"
=============================================================================
