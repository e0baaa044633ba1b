---------------------------- MODULE Relay_proofs -----------------------------
(***************************************************************************)
(* Proofs about Relay, for every size of the queues and every number of    *)
(* messages: the types, and that a gap never goes unnoticed.               *)
(***************************************************************************)
EXTENDS Relay, TLAPS

-----------------------------------------------------------------------------
(* The inductive invariant.                                                *)

Ending == dropBegun \/ \E g \in Closer : closerAt[g] # "idle"

\* Nothing is missing between what was passed on and what is queued.
Intact(d) ==
  /\ arrived[d] = Len(out[d]) + Len(queue[d])
  /\ Whole(d)
  /\ \A i \in 1..Len(queue[d]) : queue[d][i] = Len(out[d]) + i

\* The stages of the drop come in their order.
DropInv ==
  /\ done \/ finished => dropBegun
  /\ \A g \in Closer : closerAt[g] \in {"close", "forget"} => dropBegun

\* While nobody ends the session nobody is told and nothing is missing.
RelayInv == Ending \/ (parted = {} /\ \A d \in Dir : Intact(d))

Inv == RelayTypeOK /\ DropInv /\ RelayInv

-----------------------------------------------------------------------------
(* Types.                                                                  *)

\* The goroutines that may close the session are told apart.
LEMMA ClosersExist ==
  /\ AnyoneElse \in Closer
  /\ \A d \in Dir : Overflow(d) \in Closer /\ Pump(d) \in Closer
BY DEF Closer

\* A longer queue.
LEMMA AppendFacts ==
  ASSUME NEW S, NEW q \in Seq(S), NEW m \in S
  PROVE  /\ Append(q, m) \in Seq(S)
         /\ Len(q) \in Nat
         /\ Len(Append(q, m)) = Len(q) + 1
         /\ Append(q, m)[Len(q) + 1] = m
         /\ \A i \in 1..Len(q) : Append(q, m)[i] = q[i]
OBVIOUS

\* The tail of a queue.
LEMMA TailFacts ==
  ASSUME NEW S, NEW q \in Seq(S), q # <<>>
  PROVE  /\ Head(q) \in S /\ Head(q) = q[1]
         /\ Tail(q) \in Seq(S)
         /\ Len(q) \in Nat /\ Len(q) > 0
         /\ Len(Tail(q)) = Len(q) - 1
         /\ \A i \in 1..Len(q) - 1 : Tail(q)[i] = q[i + 1]
OBVIOUS

\* Numbers that follow one another, with one more at the end.
LEMMA OneMore ==
  ASSUME NEW f, NEW g, NEW n \in Nat, NEW k \in Nat,
         \A i \in 1..n : f[i] = k + i, \A i \in 1..n : g[i] = f[i], g[n + 1] = k + n + 1
  PROVE  \A i \in 1..n + 1 : g[i] = k + i
<1>1. ASSUME NEW i \in 1..n + 1 PROVE g[i] = k + i
  <2>1. CASE i \in 1..n
    BY <2>1
  <2>2. CASE i = n + 1
    BY <2>2
  <2> QED BY <2>1, <2>2
<1> QED BY <1>1

\* The same with the first one gone.
LEMMA OneLess ==
  ASSUME NEW f, NEW g, NEW n \in Nat, NEW k \in Nat,
         \A i \in 1..n : f[i] = k + i, \A i \in 1..n - 1 : g[i] = f[i + 1]
  PROVE  \A i \in 1..n - 1 : g[i] = k + 1 + i
<1>1. ASSUME NEW i \in 1..n - 1 PROVE g[i] = k + 1 + i
  <2>1. i + 1 \in 1..n
    OBVIOUS
  <2>2. f[i + 1] = k + (i + 1)
    BY <2>1
  <2> QED BY <2>2
<1> QED BY <1>1

\* Every step keeps the types.
LEMMA StepKeepsTypes ==
  ASSUME RelayTypeOK, [RelayNext]_relayVars
  PROVE  RelayTypeOK'
<1> USE SizesAreNaturals DEF RelayTypeOK
<1>1. CASE Activate \/ MarkBackendReady \/ FindClient \/ MarkClientReady
  BY <1>1 DEF Activate, MarkBackendReady, FindClient, MarkClientReady, SetUp, queueVars, closeVars
<1>2. ASSUME NEW d \in Dir, Arrive(d) PROVE RelayTypeOK'
  <2>1. arrived' \in [Dir -> 0..MaxMessages] /\ arrived[d] + 1 \in 1..MaxMessages
    BY <1>2 DEF Arrive, Dir
  <2>2. CASE Enqueue(d)
    <3>1. Append(queue[d], arrived[d] + 1) \in Seq(1..MaxMessages)
          /\ Len(Append(queue[d], arrived[d] + 1)) <= RelayQueueSize
      BY <2>1, <2>2, AppendFacts DEF Enqueue
    <3> QED BY <1>2, <2>1, <2>2, <3>1 DEF Arrive, Enqueue, sessionVars
  <2>3. CASE Swallow
    BY <1>2, <2>1, <2>3 DEF Arrive, Swallow, sessionVars
  <2>4. CASE Overflows(d)
    BY <1>2, <2>1, <2>4, ClosersExist DEF Arrive, Overflows, StartsClosing, sessionVars
  <2> QED BY <1>2, <2>2, <2>3, <2>4 DEF Arrive
<1>3. ASSUME NEW d \in Dir, PumpStep(d) PROVE RelayTypeOK'
  <2>1. CASE PumpStarts(d) \/ PumpEnds(d)
    BY <2>1 DEF PumpStarts, PumpEnds, PumpTo, sessionVars, closeVars
  <2>2. ASSUME queue[d] # <<>>
        PROVE  /\ Head(queue[d]) \in 1..MaxMessages
               /\ Tail(queue[d]) \in Seq(1..MaxMessages) /\ Len(Tail(queue[d])) <= RelayQueueSize
               /\ Append(out[d], Head(queue[d])) \in Seq(1..MaxMessages)
    BY <2>2, TailFacts, AppendFacts
  <2>3. CASE Forward(d)
    BY <2>2, <2>3 DEF Forward, sessionVars, closeVars
  <2>4. CASE Unrelayable(d)
    BY <2>2, <2>4, ClosersExist DEF Unrelayable, StartsClosing, sessionVars
  <2> QED BY <1>3, <2>1, <2>3, <2>4 DEF PumpStep
<1>4. CASE OtherCloses
  BY <1>4, ClosersExist DEF OtherCloses, sessionVars, queueVars
<1>5. ASSUME NEW g \in Closer, ClosingStep(g) PROVE RelayTypeOK'
  <2>1. Ready \subseteq Dir
    BY DEF Ready, Dir
  <2>2. Finish(g) => /\ closerAt' = [closerAt EXCEPT ![g] = "idle"]
                     /\ pump' \in [Dir -> {"waiting", "running", "closing", "ended"}]
    BY DEF Finish
  <2>3. CASE LookUp(g)
    BY <2>1, <2>2, <2>3 DEF LookUp, sessionVars
  <2>4. CASE Tell(g)
    BY <2>4 DEF Tell, sessionVars, queueVars
  <2>5. CASE DropBegin(g) \/ CloseChannel(g)
    BY <2>5 DEF DropBegin, CloseChannel, queueVars
  <2>6. CASE DropWaited(g) \/ Forget(g)
    BY <2>2, <2>6 DEF DropWaited, Forget, sessionVars
  <2> QED BY <1>5, <2>3, <2>4, <2>5, <2>6 DEF ClosingStep
<1>6. CASE UNCHANGED relayVars
  BY <1>6 DEF relayVars, sessionVars, queueVars, closeVars
<1> QED BY <1>1, <1>2, <1>3, <1>4, <1>5, <1>6 DEF RelayNext
-----------------------------------------------------------------------------
(* The invariant.                                                          *)

\* The initial states have the types and the invariant.
LEMMA InitEstablishesInv ==
  ASSUME RelayInit
  PROVE  Inv
<1>1. RelayTypeOK
  <2>1. <<>> \in Seq(1..MaxMessages) /\ Len(<<>>) <= RelayQueueSize /\ 0 \in 0..MaxMessages
    BY SizesAreNaturals
  <2>2. \A d \in Dir : Len(queue[d]) <= RelayQueueSize
    BY <2>1 DEF RelayInit
  <2>3. queue \in [Dir -> Seq(1..MaxMessages)] /\ out \in [Dir -> Seq(1..MaxMessages)]
    BY <2>1 DEF RelayInit
  <2>4. closerAt \in [Closer -> {"idle", "look", "tell", "drop", "close", "forget"}]
        /\ knows \in [Closer -> SUBSET Dir]
    BY DEF RelayInit
  <2> QED BY <2>1, <2>2, <2>3, <2>4 DEF RelayInit, RelayTypeOK
<1>2. DropInv
  BY DEF RelayInit, DropInv
<1>3. RelayInv
  BY DEF RelayInit, RelayInv, Intact, Whole
<1> QED BY <1>1, <1>2, <1>3 DEF Inv

\* Every step keeps the order of the drop.
LEMMA StepKeepsDropInv ==
  ASSUME RelayTypeOK, DropInv, [RelayNext]_relayVars
  PROVE  DropInv'
<1> USE DEF DropInv, RelayTypeOK
<1>1. CASE Activate \/ MarkBackendReady \/ FindClient \/ MarkClientReady
  BY <1>1 DEF Activate, MarkBackendReady, FindClient, MarkClientReady, SetUp, closeVars
<1>2. ASSUME NEW d \in Dir, Arrive(d) PROVE DropInv'
  BY <1>2, ClosersExist DEF Arrive, Enqueue, Swallow, Overflows, StartsClosing, sessionVars
<1>3. ASSUME NEW d \in Dir, PumpStep(d) PROVE DropInv'
  BY <1>3, ClosersExist
  DEF PumpStep, PumpStarts, PumpEnds, PumpTo, Forward, Unrelayable, StartsClosing, sessionVars, closeVars
<1>4. CASE OtherCloses
  BY <1>4, ClosersExist DEF OtherCloses, sessionVars
<1>5. ASSUME NEW g \in Closer, ClosingStep(g) PROVE DropInv'
  <2>1. CASE LookUp(g) \/ Tell(g)
    BY <2>1 DEF LookUp, Tell, Finish, sessionVars
  <2>2. CASE DropBegin(g) \/ CloseChannel(g)
    BY <2>2 DEF DropBegin, CloseChannel
  <2>3. CASE DropWaited(g) \/ Forget(g)
    BY <2>3 DEF DropWaited, Forget, Finish, sessionVars
  <2> QED BY <1>5, <2>1, <2>2, <2>3 DEF ClosingStep
<1>6. CASE UNCHANGED relayVars
  BY <1>6 DEF relayVars, sessionVars, closeVars
<1> QED BY <1>1, <1>2, <1>3, <1>4, <1>5, <1>6 DEF RelayNext

\* Who ends a session goes on until it is closed.
LEMMA EndingStays ==
  ASSUME RelayTypeOK, DropInv, [RelayNext]_relayVars, Ending
  PROVE  Ending'
<1> USE DEF Ending, RelayTypeOK
<1>1. CASE Activate \/ MarkBackendReady \/ FindClient \/ MarkClientReady
  BY <1>1 DEF Activate, MarkBackendReady, FindClient, MarkClientReady, SetUp, closeVars
<1>2. ASSUME NEW d \in Dir, Arrive(d) PROVE Ending'
  BY <1>2, ClosersExist DEF Arrive, Enqueue, Swallow, Overflows, StartsClosing, sessionVars
<1>3. ASSUME NEW d \in Dir, PumpStep(d) PROVE Ending'
  BY <1>3, ClosersExist
  DEF PumpStep, PumpStarts, PumpEnds, PumpTo, Forward, Unrelayable, StartsClosing, sessionVars, closeVars
<1>4. CASE OtherCloses
  BY <1>4, ClosersExist DEF OtherCloses
<1>5. ASSUME NEW g \in Closer, ClosingStep(g) PROVE Ending'
  <2>1. CASE LookUp(g)
    BY <2>1 DEF LookUp, Finish, sessionVars
  <2>2. CASE Tell(g) \/ CloseChannel(g)
    BY <2>2 DEF Tell, CloseChannel, sessionVars
  <2>3. CASE DropBegin(g)
    BY <2>3 DEF DropBegin
  <2>4. CASE DropWaited(g) \/ Forget(g)
    BY <2>4 DEF DropWaited, Forget, DropInv, sessionVars
  <2> QED BY <1>5, <2>1, <2>2, <2>3, <2>4 DEF ClosingStep
<1>6. CASE UNCHANGED relayVars
  BY <1>6 DEF relayVars, sessionVars, closeVars
<1> QED BY <1>1, <1>2, <1>3, <1>4, <1>5, <1>6 DEF RelayNext

\* Nothing missing, said of two sequences: o was passed on, q waits, and
\* together they hold the numbers up to a.
LEMMA OnePassedOn ==
  ASSUME NEW S, NEW o \in Seq(S), NEW q \in Seq(S), q # <<>>, NEW a \in Nat,
         a = Len(o) + Len(q), \A i \in 1..Len(o) : o[i] = i,
         \A i \in 1..Len(q) : q[i] = Len(o) + i
  PROVE  /\ a = Len(Append(o, Head(q))) + Len(Tail(q))
         /\ \A i \in 1..Len(Append(o, Head(q))) : Append(o, Head(q))[i] = i
         /\ \A i \in 1..Len(Tail(q)) : Tail(q)[i] = Len(Append(o, Head(q))) + i
<1> DEFINE m == Head(q)
           p == Append(o, m)
           t == Tail(q)
<1>1. /\ m \in S /\ m = q[1] /\ Len(q) \in Nat /\ Len(q) > 0 /\ Len(t) = Len(q) - 1
      /\ \A i \in 1..Len(q) - 1 : t[i] = q[i + 1]
  BY TailFacts
<1>2. /\ Len(o) \in Nat /\ Len(p) = Len(o) + 1 /\ p[Len(o) + 1] = m
      /\ \A i \in 1..Len(o) : p[i] = o[i]
  BY <1>1, AppendFacts
<1>3. m = Len(o) + 1
  BY <1>1
<1> HIDE DEF m, p, t
<1>4. a = Len(p) + Len(t)
  BY <1>1, <1>2
<1>5. \A i \in 1..Len(o) + 1 : p[i] = i
  <2>1. /\ \A i \in 1..Len(o) : o[i] = 0 + i
        /\ p[Len(o) + 1] = 0 + Len(o) + 1
    BY <1>2, <1>3
  <2>2. \A i \in 1..Len(o) + 1 : p[i] = 0 + i
    BY <1>2, <2>1, OneMore
  <2> QED BY <1>2, <2>2
<1>6. \A i \in 1..Len(q) - 1 : t[i] = Len(o) + 1 + i
  BY <1>1, <1>2, OneLess
<1>7. \A i \in 1..Len(t) : t[i] = Len(p) + i
  BY <1>1, <1>2, <1>6
<1>8. \A i \in 1..Len(p) : p[i] = i
  BY <1>2, <1>5
<1> QED BY <1>4, <1>7, <1>8 DEF m, p, t

\* A message that is queued leaves nothing missing.
LEMMA EnqueueKeepsIntact ==
  ASSUME RelayTypeOK, NEW d \in Dir, \A e \in Dir : Intact(e), Arrive(d), Enqueue(d)
  PROVE  \A e \in Dir : Intact(e)'
<1>1. /\ queue[d] \in Seq(1..MaxMessages) /\ out[d] \in Seq(1..MaxMessages)
      /\ arrived[d] \in Nat /\ arrived[d] + 1 \in 1..MaxMessages
      /\ arrived' = [arrived EXCEPT ![d] = @ + 1] /\ out' = out
      /\ queue' = [queue EXCEPT ![d] = Append(@, arrived[d] + 1)]
  <2>1. arrived["toBackend"] \in Nat /\ arrived["toClient"] \in Nat /\ MaxMessages \in Nat
    BY SizesAreNaturals DEF RelayTypeOK, Dir
  <2>2. arrived["toBackend"] + arrived["toClient"] < MaxMessages
    BY DEF Arrive
  <2>3. arrived[d] \in Nat /\ arrived[d] + 1 \in 1..MaxMessages
    BY <2>1, <2>2 DEF Dir
  <2> QED
    BY <2>3 DEF RelayTypeOK, Arrive, Enqueue
<1>2. ASSUME NEW e \in Dir, e # d PROVE Intact(e)'
  BY <1>1, <1>2 DEF Intact, Whole, RelayTypeOK
<1>3. Intact(d)'
  <2>1. /\ arrived'[d] = arrived[d] + 1 /\ out'[d] = out[d]
        /\ queue'[d] = Append(queue[d], arrived[d] + 1)
    BY <1>1 DEF RelayTypeOK
  <2>2. Intact(d)
    OBVIOUS
  <2>3. /\ arrived[d] = Len(out[d]) + Len(queue[d])
        /\ \A i \in 1..Len(queue[d]) : queue[d][i] = Len(out[d]) + i
    BY <2>2 DEF Intact
  <2>4. /\ arrived[d] + 1 = Len(out[d]) + Len(Append(queue[d], arrived[d] + 1))
        /\ \A i \in 1..Len(Append(queue[d], arrived[d] + 1)) :
             Append(queue[d], arrived[d] + 1)[i] = Len(out[d]) + i
    <3> DEFINE S == 1..MaxMessages
               o == out[d]
               q == queue[d]
               m == arrived[d] + 1
    <3>1. /\ o \in Seq(S) /\ q \in Seq(S) /\ m \in S
          /\ m = Len(o) + Len(q) + 1
          /\ \A i \in 1..Len(q) : q[i] = Len(o) + i
      BY <1>1, <2>3
    <3> HIDE DEF S, o, q, m
    <3>2. /\ m = Len(o) + Len(Append(q, m))
          /\ \A i \in 1..Len(Append(q, m)) : Append(q, m)[i] = Len(o) + i
      <4>1. /\ Len(o) \in Nat /\ Len(q) \in Nat /\ Len(Append(q, m)) = Len(q) + 1
            /\ Append(q, m)[Len(q) + 1] = m
            /\ \A i \in 1..Len(q) : Append(q, m)[i] = q[i]
        BY <3>1, AppendFacts
      <4>2. \A i \in 1..Len(q) + 1 : Append(q, m)[i] = Len(o) + i
        BY <3>1, <4>1, OneMore
      <4> QED BY <3>1, <4>1, <4>2
    <3> QED BY <3>2 DEF o, q, m
  <2> QED BY <2>1, <2>2, <2>4 DEF Intact, Whole
<1> QED BY <1>2, <1>3

\* A message that is passed on to a peer that is not told leaves nothing
\* missing.
LEMMA ForwardKeepsIntact ==
  ASSUME RelayTypeOK, NEW d \in Dir, \A e \in Dir : Intact(e), parted = {}, Forward(d)
  PROVE  \A e \in Dir : Intact(e)'
<1>1. /\ queue[d] \in Seq(1..MaxMessages) /\ out[d] \in Seq(1..MaxMessages)
      /\ queue[d] # <<>> /\ arrived[d] \in Nat
      /\ arrived' = arrived
      /\ queue' = [queue EXCEPT ![d] = Tail(@)]
      /\ out' = [out EXCEPT ![d] = Append(@, Head(queue[d]))]
  BY SizesAreNaturals DEF RelayTypeOK, Forward
<1>2. ASSUME NEW e \in Dir, e # d PROVE Intact(e)'
  BY <1>1, <1>2 DEF Intact, Whole, RelayTypeOK
<1>3. Intact(d)'
  <2>1. /\ arrived'[d] = arrived[d] /\ out'[d] = Append(out[d], Head(queue[d]))
        /\ queue'[d] = Tail(queue[d])
    BY <1>1 DEF RelayTypeOK
  <2>2. Intact(d)
    OBVIOUS
  <2>3. /\ arrived[d] = Len(out[d]) + Len(queue[d])
        /\ \A i \in 1..Len(out[d]) : out[d][i] = i
        /\ \A i \in 1..Len(queue[d]) : queue[d][i] = Len(out[d]) + i
    BY <2>2 DEF Intact, Whole
  <2>4. /\ arrived[d] = Len(Append(out[d], Head(queue[d]))) + Len(Tail(queue[d]))
        /\ \A i \in 1..Len(Append(out[d], Head(queue[d]))) : Append(out[d], Head(queue[d]))[i] = i
        /\ \A i \in 1..Len(Tail(queue[d])) :
             Tail(queue[d])[i] = Len(Append(out[d], Head(queue[d]))) + i
    <3> DEFINE S == 1..MaxMessages
               o == out[d]
               q == queue[d]
               a == arrived[d]
    <3>1. /\ o \in Seq(S) /\ q \in Seq(S) /\ q # <<>> /\ a \in Nat
          /\ a = Len(o) + Len(q)
          /\ \A i \in 1..Len(o) : o[i] = i
          /\ \A i \in 1..Len(q) : q[i] = Len(o) + i
      BY <1>1, <2>3
    <3> HIDE DEF S, o, q, a
    <3>2. /\ a = Len(Append(o, Head(q))) + Len(Tail(q))
          /\ \A i \in 1..Len(Append(o, Head(q))) : Append(o, Head(q))[i] = i
          /\ \A i \in 1..Len(Tail(q)) : Tail(q)[i] = Len(Append(o, Head(q))) + i
      BY <3>1, OnePassedOn
    <3> QED BY <3>2 DEF o, q, a
  <2> QED BY <2>1, <2>4 DEF Intact, Whole
<1> QED BY <1>2, <1>3

\* Every step keeps the relay whole or is part of the end of the session.
LEMMA StepKeepsRelayInv ==
  ASSUME Inv, [RelayNext]_relayVars
  PROVE  RelayInv'
<1>1. CASE Ending
  BY <1>1, EndingStays DEF Inv, RelayInv
<1>2. CASE ~Ending
  <2>1. parted = {} /\ (\A d \in Dir : Intact(d)) /\ ~dropBegun /\ ~done
        /\ \A g \in Closer : closerAt[g] = "idle"
    BY <1>2 DEF Inv, RelayInv, DropInv, Ending
  <2>2. UNCHANGED <<arrived, queue, out, parted>> => RelayInv'
    BY <2>1 DEF RelayInv, Intact, Whole
  <2>3. ASSUME NEW g \in Closer, StartsClosing(g) PROVE Ending'
    BY <2>1, <2>3 DEF StartsClosing, Ending, Inv, RelayTypeOK
  <2>4. CASE Activate \/ MarkBackendReady \/ FindClient \/ MarkClientReady
    BY <2>2, <2>4 DEF Activate, MarkBackendReady, FindClient, MarkClientReady, SetUp, queueVars, closeVars
  <2>5. ASSUME NEW d \in Dir, Arrive(d) PROVE RelayInv'
    <3>1. CASE Enqueue(d)
      BY <2>1, <2>5, <3>1, EnqueueKeepsIntact DEF Inv, RelayInv, Arrive
    <3>2. CASE Overflows(d)
      BY <2>3, <3>2, ClosersExist DEF Overflows, RelayInv
    <3> QED BY <2>1, <2>5, <3>1, <3>2 DEF Arrive, Swallow
  <2>6. ASSUME NEW d \in Dir, PumpStep(d) PROVE RelayInv'
    <3>1. CASE PumpStarts(d) \/ PumpEnds(d)
      BY <2>2, <3>1 DEF PumpStarts, PumpEnds, PumpTo, closeVars
    <3>2. CASE Forward(d)
      BY <2>1, <3>2, ForwardKeepsIntact DEF Inv, RelayInv, Forward, closeVars
    <3>3. CASE Unrelayable(d)
      BY <2>3, <3>3, ClosersExist DEF Unrelayable, RelayInv
    <3> QED BY <2>6, <3>1, <3>2, <3>3 DEF PumpStep
  <2>7. CASE OtherCloses
    BY <2>2, <2>7 DEF OtherCloses, queueVars
  <2>8. ASSUME NEW g \in Closer, ClosingStep(g) PROVE RelayInv'
    BY <2>1, <2>8 DEF ClosingStep, LookUp, Tell, DropBegin, DropWaited, CloseChannel, Forget
  <2>9. CASE UNCHANGED relayVars
    BY <2>2, <2>9 DEF relayVars, queueVars, closeVars
  <2> QED BY <2>4, <2>5, <2>6, <2>7, <2>8, <2>9 DEF RelayNext
<1> QED BY <1>1, <1>2

-----------------------------------------------------------------------------
(* The theorems.                                                           *)

\* The invariant holds in every behaviour of the relay (proxy.go:587-690).
THEOREM RelayInvariant == RelaySpec => []Inv
<1>1. RelayInit => Inv
  BY InitEstablishesInv
<1>2. Inv /\ [RelayNext]_relayVars => Inv'
  BY StepKeepsTypes, StepKeepsDropInv, StepKeepsRelayInv DEF Inv
<1> QED BY <1>1, <1>2, PTL DEF RelaySpec

\* The relay keeps its types; in particular no queue outgrows its channel
\* (session.go:83-84, 107-122).
THEOREM TypeCorrect == RelaySpec => []RelayTypeOK
<1>1. Inv => RelayTypeOK
  BY DEF Inv
<1> QED BY <1>1, RelayInvariant, PTL

\* A gap in what the other side is sent means that the session is ending,
\* whatever the sizes of the queues and whoever closes it
\* (proxy.go:606-629).
THEOREM GapsAreNoticed == RelaySpec => []GapMeansEnd
<1>1. Inv => GapMeansEnd
  BY DEF Inv, RelayInv, Ending, Intact, GapMeansEnd
<1> QED BY <1>1, RelayInvariant, PTL
=============================================================================
