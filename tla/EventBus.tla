------------------------------- MODULE EventBus -------------------------------
(***************************************************************************)
(* internal/events: the log of the process.  An entry that is not below    *)
(* the level goes into a ring, and from there to the channels of those who *)
(* subscribed.                                                             *)
(*                                                                         *)
(* Log works under the mutex up to its copy of the subscribers, and sends  *)
(* after it has let go of it: an action writes the ring, and one action    *)
(* more sends to each of the channels copied, unless the channel is full.  *)
(* A send to a channel that Unsubscribe has closed meanwhile is a panic.   *)
(*                                                                         *)
(* An entry is its place in the order in which the ring took them.         *)
(*                                                                         *)
(* Definitions named ..._Slip are plausible mistakes; nothing uses them.   *)
(***************************************************************************)
EXTENDS Integers, SequencesExt

CONSTANTS
  Threads,          \* the goroutines that log
  RingSize,
  QueueSize,
  Subscriptions,    \* ids of subscriptions, in the order they are given
  Levels,
  MaxEntries        \* bound on the entries the ring takes; its users keep it

ASSUME BusSizes ==
  /\ RingSize \in Nat \ {0} /\ QueueSize \in Nat \ {0}
  /\ MaxEntries \in Nat
  /\ Subscriptions \subseteq Nat /\ Levels \subseteq Nat

VARIABLES
  min,
  ring,
  subs,       \* subscription -> its channel; those that are subscribed
  next,
  channel,    \* subscription -> what its channel holds
  sends,      \* thread -> channels Log still has to send its entry to
  entry,      \* thread -> the entry it logs, or 0
  count,      \* entries the ring has taken
  missed,     \* subscription -> entries that found its channel full
  panicked

busVars == <<min, ring, subs, next, channel, sends, entry, count, missed, panicked>>

Entries == 1..MaxEntries

BusTypeOK ==
  /\ min \in Levels
  /\ ring \in Seq(Entries) /\ Len(ring) <= RingSize
  /\ subs \subseteq Subscriptions
  /\ next \in Nat /\ \A id \in subs : id < next
  /\ channel \in [Subscriptions -> Seq(Entries)]
  /\ \A id \in Subscriptions : Len(channel[id]) <= QueueSize
  /\ sends \in [Threads -> SUBSET Subscriptions]
  /\ entry \in [Threads -> 0..MaxEntries]
  /\ count \in 0..MaxEntries
  /\ missed \in [Subscriptions -> SUBSET Entries]
  /\ panicked \in BOOLEAN

NewBus ==
  /\ min \in Levels
  /\ ring = <<>> /\ subs = {} /\ next = 0
  /\ channel = [id \in Subscriptions |-> <<>>]
  /\ sends = [t \in Threads |-> {}]
  /\ entry = [t \in Threads |-> 0]
  /\ count = 0
  /\ missed = [id \in Subscriptions |-> {}]
  /\ panicked = FALSE

Logging(t) == sends[t] # {}

SetLevel(level) ==
  /\ min' = level
  /\ UNCHANGED <<ring, subs, next, channel, sends, entry, count, missed, panicked>>

\* Slip: a full ring keeps its oldest entry and loses the one before the newest.
Pushed_Slip(e) ==
  IF Len(ring) = RingSize THEN Append(Front(ring), e) ELSE Append(ring, e)

Pushed(e) ==
  IF Len(ring) = RingSize THEN Append(Tail(ring), e) ELSE Append(ring, e)

\* Bus.Log up to the Unlock.
Log(t, level) ==
  /\ ~Logging(t) /\ level >= min
  /\ count' = count + 1
  /\ ring' = Pushed(count + 1)
  /\ entry' = [entry EXCEPT ![t] = count + 1]
  /\ sends' = [sends EXCEPT ![t] = subs]
  /\ UNCHANGED <<min, subs, next, channel, missed, panicked>>

HasRoom(id) == Len(channel[id]) < QueueSize

IsClosed(id) == id < next /\ id \notin subs

\* One turn of the loop that ends Bus.Log.
SendEntry(t, id) ==
  /\ id \in sends[t]
  /\ sends' = [sends EXCEPT ![t] = @ \ {id}]
  /\ \/ /\ ~IsClosed(id) /\ HasRoom(id)
        /\ channel' = [channel EXCEPT ![id] = Append(@, entry[t])]
        /\ UNCHANGED <<missed, panicked>>
     \/ /\ ~IsClosed(id) /\ ~HasRoom(id)
        /\ missed' = [missed EXCEPT ![id] = @ \cup {entry[t]}]
        /\ UNCHANGED <<channel, panicked>>
     \/ /\ IsClosed(id)
        /\ panicked' = TRUE
        /\ UNCHANGED <<channel, missed>>
  /\ UNCHANGED <<min, ring, subs, next, entry, count>>

Subscribe ==
  /\ next \in Subscriptions
  /\ subs' = subs \cup {next}
  /\ next' = next + 1
  /\ UNCHANGED <<min, ring, channel, sends, entry, count, missed, panicked>>

\* What is in a closed channel can still be received.
Unsubscribe(id) ==
  /\ subs' = subs \ {id}
  /\ UNCHANGED <<min, ring, next, channel, sends, entry, count, missed, panicked>>

Receive(id) ==
  /\ channel[id] # <<>>
  /\ channel' = [channel EXCEPT ![id] = Tail(@)]
  /\ UNCHANGED <<min, ring, subs, next, sends, entry, count, missed, panicked>>

History == ToSet(ring)

\* An entry is on its way to a subscriber.
Underway(e, id) ==
  \/ e \in ToSet(channel[id])
  \/ \E t \in Threads : id \in sends[t] /\ entry[t] = e
===============================================================================
