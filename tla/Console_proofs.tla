---------------------------- MODULE Console_proofs ----------------------------
(***************************************************************************)
(* Proofs about Console and EventBus, for all sizes of the ring and the    *)
(* channels and any goroutines that log: the types, and that nothing falls *)
(* between history and channel.                                            *)
(***************************************************************************)
EXTENDS Console, TLAPS

-----------------------------------------------------------------------------
(* Sequences.                                                              *)

LEMMA AppendAddsOne ==
  ASSUME NEW S, NEW q \in Seq(S), NEW x \in S
  PROVE  /\ Append(q, x) \in Seq(S)
         /\ Len(Append(q, x)) = Len(q) + 1
         /\ ToSet(Append(q, x)) = ToSet(q) \cup {x}
<1>1. /\ Append(q, x) \in Seq(S)
      /\ Len(Append(q, x)) = Len(q) + 1
      /\ DOMAIN Append(q, x) = 1..Len(q) + 1
      /\ Append(q, x)[Len(q) + 1] = x
      /\ \A i \in 1..Len(q) : Append(q, x)[i] = q[i]
  OBVIOUS
<1>2. DOMAIN q = 1..Len(q) /\ Len(q) \in Nat
  OBVIOUS
<1>3. ToSet(Append(q, x)) \subseteq ToSet(q) \cup {x}
  BY <1>1, <1>2 DEF ToSet
<1>4. ASSUME NEW y \in ToSet(q) \cup {x}
      PROVE  y \in ToSet(Append(q, x))
  <2>1. CASE y = x
    BY <1>1, <1>2, <2>1 DEF ToSet
  <2>2. CASE y \in ToSet(q)
    <3>1. PICK i \in 1..Len(q) : y = q[i]
      BY <2>2, <1>2 DEF ToSet
    <3>2. i \in 1..Len(q) + 1 /\ y = Append(q, x)[i]
      BY <3>1, <1>1, <1>2
    <3> QED
      BY <3>2, <1>1 DEF ToSet
  <2> QED
    BY <1>4, <2>1, <2>2
<1> QED
  BY <1>1, <1>3, <1>4

LEMMA TailLosesHead ==
  ASSUME NEW S, NEW q \in Seq(S), q # <<>>
  PROVE  /\ Head(q) \in S
         /\ Tail(q) \in Seq(S)
         /\ Len(Tail(q)) = Len(q) - 1
         /\ ToSet(q) \subseteq ToSet(Tail(q)) \cup {Head(q)}
<1>1. /\ Head(q) \in S /\ Head(q) = q[1]
      /\ Tail(q) \in Seq(S)
      /\ Len(q) \in Nat \ {0}
      /\ Len(Tail(q)) = Len(q) - 1
      /\ \A i \in 1..Len(q) - 1 : Tail(q)[i] = q[i + 1]
  OBVIOUS
<1>2. DOMAIN q = 1..Len(q) /\ DOMAIN Tail(q) = 1..Len(q) - 1
  BY <1>1
<1>3. ASSUME NEW i \in 1..Len(q)
      PROVE  q[i] \in ToSet(Tail(q)) \cup {Head(q)}
  <2>1. CASE i = 1
    BY <1>1, <2>1
  <2>2. CASE i # 1
    <3>1. i - 1 \in 1..Len(q) - 1 /\ (i - 1) + 1 = i
      BY <1>1, <2>2
    <3>2. Tail(q)[i - 1] = q[i]
      BY <3>1, <1>1
    <3> QED
      BY <3>1, <3>2, <1>2 DEF ToSet
  <2> QED
    BY <2>1, <2>2
<1> QED
  BY <1>1, <1>2, <1>3 DEF ToSet

-----------------------------------------------------------------------------
(* The ring holds the newest entries.                                      *)

RingIsRecent ==
  /\ Len(ring) = IF count < RingSize THEN count ELSE RingSize
  /\ \A i \in 1..Len(ring) : ring[i] = count - Len(ring) + i

LEMMA PushedIsRecent ==
  ASSUME NEW S, ring \in Seq(S), count \in Nat, NEW e \in S, e = count + 1,
         RingIsRecent, ring' = Pushed(e), count' = e
  PROVE  RingIsRecent' /\ ring' \in Seq(S) /\ Len(ring') <= RingSize
<1> RingSize \in Nat \ {0}
  BY BusSizes
<1>1. CASE Len(ring) = RingSize
  <2>1. ring # <<>> /\ Tail(ring) \in Seq(S) /\ Len(Tail(ring)) = RingSize - 1
        /\ \A i \in 1..RingSize - 1 : Tail(ring)[i] = ring[i + 1]
    BY <1>1
  <2>2. ring' = Append(Tail(ring), e)
    BY <1>1 DEF Pushed
  <2>3. ring' \in Seq(S) /\ Len(ring') = RingSize /\ ring'[RingSize] = e
        /\ \A i \in 1..RingSize - 1 : ring'[i] = Tail(ring)[i]
    BY <2>1, <2>2
  <2>4. count >= RingSize
    BY <1>1 DEF RingIsRecent
  <2>5. ASSUME NEW i \in 1..RingSize
        PROVE  ring'[i] = count + 1 - RingSize + i
    <3>1. CASE i = RingSize
      BY <3>1, <2>3
    <3>2. CASE i # RingSize
      <4>1. i \in 1..RingSize - 1 /\ i + 1 \in 1..Len(ring)
        BY <3>2, <1>1
      <4>2. ring[i + 1] = count - RingSize + (i + 1)
        BY <4>1, <1>1 DEF RingIsRecent
      <4> QED
        BY <4>1, <4>2, <2>1, <2>3
    <3> QED
      BY <3>1, <3>2
  <2>6. count' = count + 1 /\ ~(count' < RingSize)
    BY <2>4
  <2>7. ASSUME NEW i \in 1..Len(ring')
        PROVE  ring'[i] = count' - Len(ring') + i
    <3>1. i \in 1..RingSize
      BY <2>3
    <3>2. ring'[i] = count + 1 - RingSize + i
      BY <3>1, <2>5
    <3>3. Len(ring') = RingSize
      BY <2>3
    <3>4. count' = count + 1
      BY <2>6
    <3> QED
      BY <3>2, <3>3, <3>4
  <2> QED
    BY <2>3, <2>6, <2>7 DEF RingIsRecent
<1>2. CASE Len(ring) # RingSize
  <2>1. ring' = Append(ring, e) /\ Len(ring) = count /\ count < RingSize
    BY <1>2 DEF Pushed, RingIsRecent
  <2>2. ring' \in Seq(S) /\ Len(ring') = count + 1 /\ ring'[count + 1] = e
        /\ \A i \in 1..count : ring'[i] = ring[i]
    BY <2>1
  <2>3. \A i \in 1..count : ring[i] = i
    BY <2>1 DEF RingIsRecent
  <2>4. \A i \in 1..count + 1 : ring'[i] = i
    BY <2>2, <2>3
  <2> QED
    BY <2>1, <2>2, <2>4 DEF RingIsRecent
<1> QED
  BY <1>1, <1>2

\* What History returns.
LEMMA HistoryIsRecent ==
  ASSUME NEW S, ring \in Seq(S), count \in Nat, RingIsRecent,
         NEW e \in Nat \ {0}, count - RingSize < e, e <= count
  PROVE  e \in History
<1> RingSize \in Nat \ {0}
  BY BusSizes
<1> DEFINE i == e - (count - Len(ring))
<1>1. Len(ring) \in Nat /\ DOMAIN ring = 1..Len(ring)
  OBVIOUS
<1>2. i \in 1..Len(ring)
  BY <1>1 DEF RingIsRecent
<1>3. ring[i] = e
  BY <1>1, <1>2 DEF RingIsRecent
<1> QED
  BY <1>1, <1>2, <1>3 DEF History, ToSet

-----------------------------------------------------------------------------
(* Types.  The main goroutine logs at most MainEntries times: the proxy's  *)
(* goroutines leave room for what it has not logged yet.                   *)

MainLogged ==
  IF main = "starting" THEN 0
  ELSE IF main \in {"subscribing", "reading", "listening"} THEN 1
  ELSE IF main \in {"running", "unsubscribing", "stopping", "waiting"} THEN 2
  ELSE 3

RoomIsLeft == count <= MaxEntries - MainEntries + MainLogged

SendersHaveEntries == \A t \in Threads : sends[t] # {} => entry[t] \in Entries

USE DEF MainEntries, Mine

LEMMA LogKeepsTypes ==
  ASSUME BusTypeOK, SendersHaveEntries, RingIsRecent,
         NEW t \in Threads, NEW level \in Levels, Log(t, level), count < MaxEntries
  PROVE  BusTypeOK' /\ SendersHaveEntries' /\ RingIsRecent'
<1>1. count \in Nat /\ count + 1 \in Entries /\ ring \in Seq(Entries)
  BY BusSizes DEF BusTypeOK, Entries
<1>2. count' = count + 1 /\ ring' = Pushed(count + 1)
  BY DEF Log
<1>3. RingIsRecent' /\ ring' \in Seq(Entries) /\ Len(ring') <= RingSize
  BY <1>1, <1>2, PushedIsRecent
<1>4. BusTypeOK'
  BY <1>1, <1>3, BusSizes DEF BusTypeOK, Log, Entries
<1>5. SendersHaveEntries'
  BY <1>1 DEF BusTypeOK, SendersHaveEntries, Log
<1> QED
  BY <1>3, <1>4, <1>5

LEMMA SendKeepsTypes ==
  ASSUME BusTypeOK, SendersHaveEntries,
         NEW t \in Threads, NEW id \in sends[t], SendEntry(t, id)
  PROVE  BusTypeOK' /\ SendersHaveEntries'
<1>1. id \in Subscriptions /\ entry[t] \in Entries
  BY DEF BusTypeOK, SendersHaveEntries
<1>2. channel' \in [Subscriptions -> Seq(Entries)]
      /\ \A i \in Subscriptions : Len(channel'[i]) <= QueueSize
  <2>1. CASE UNCHANGED channel
    BY <2>1 DEF BusTypeOK
  <2>2. CASE HasRoom(id) /\ channel' = [channel EXCEPT ![id] = Append(@, entry[t])]
    <3>1. channel[id] \in Seq(Entries) /\ Len(channel[id]) < QueueSize
      BY <2>2, <1>1 DEF BusTypeOK, HasRoom
    <3>2. /\ Append(channel[id], entry[t]) \in Seq(Entries)
          /\ Len(Append(channel[id], entry[t])) <= QueueSize
      BY <3>1, <1>1, AppendAddsOne, BusSizes
    <3> QED
      BY <2>2, <3>2 DEF BusTypeOK
  <2> QED
    BY <2>1, <2>2 DEF SendEntry
<1>3. missed' \in [Subscriptions -> SUBSET Entries]
  <2>1. missed \in [Subscriptions -> SUBSET Entries]
    BY DEF BusTypeOK
  <2>2. CASE UNCHANGED missed
    BY <2>1, <2>2
  <2>3. CASE missed' = [missed EXCEPT ![id] = @ \cup {entry[t]}]
    <3>1. missed[id] \cup {entry[t]} \in SUBSET Entries
      BY <2>1, <1>1
    <3> QED
      BY <2>1, <2>3, <3>1
  <2> QED
    BY <2>2, <2>3 DEF SendEntry
<1>4. sends' \in [Threads -> SUBSET Subscriptions] /\ (\A u \in Threads : sends'[u] \subseteq sends[u])
  BY DEF BusTypeOK, SendEntry
<1>5. panicked' \in BOOLEAN
  BY DEF BusTypeOK, SendEntry
<1> QED
  BY <1>2, <1>3, <1>4, <1>5 DEF BusTypeOK, SendersHaveEntries, SendEntry

BusInv == BusTypeOK /\ SendersHaveEntries /\ RingIsRecent

LEMMA BusStandsStill ==
  ASSUME BusInv, UNCHANGED busVars
  PROVE  BusInv' /\ count' = count
BY DEF BusInv, BusTypeOK, SendersHaveEntries, RingIsRecent, IsClosed, busVars

LEMMA MainLogsKeepsTypes ==
  ASSUME BusInv, Main \in Threads, NEW level \in Levels, MainLogs(level), count < MaxEntries
  PROVE  BusInv' /\ count' <= count + 1
<1> count \in Nat
  BY BusSizes DEF BusInv, BusTypeOK
<1>1. CASE Log(Main, level)
  <2>1. count' = count + 1
    BY <1>1 DEF Log
  <2>2. BusInv'
    BY <1>1, LogKeepsTypes DEF BusInv
  <2> QED
    BY <2>1, <2>2
<1>2. CASE UNCHANGED busVars
  BY <1>2, BusStandsStill
<1> QED
  BY <1>1, <1>2 DEF MainLogs

\* The console's own variables.
ConsoleTypeOK ==
  /\ headless \in BOOLEAN /\ quit \in BOOLEAN /\ signalled \in BOOLEAN /\ leaving \in BOOLEAN
  /\ busy \in BOOLEAN
  /\ main \in {"starting", "subscribing", "reading", "listening", "running",
               "unsubscribing", "stopping", "waiting", "forced", "ended"}
  /\ closer \in [{"signals", "operator"} -> {"waiting", "looked", "done"}]
  /\ closing \in {"none", "running", "returned"}
  /\ shown \subseteq Entries
  /\ seen \in 0..MaxEntries

ProcessInv == BusInv /\ ConsoleTypeOK /\ RoomIsLeft

LEMMA InitProcessInv == Init => ProcessInv
<1> SUFFICES ASSUME Init PROVE ProcessInv
  OBVIOUS
<1>1. BusTypeOK
  BY BusSizes, RoomForMain DEF Init, NewBus, BusTypeOK, Entries
<1>2. RingIsRecent /\ SendersHaveEntries
  BY BusSizes DEF Init, NewBus, RingIsRecent, SendersHaveEntries
<1>3. ConsoleTypeOK
  <2>1. shown \subseteq Entries /\ seen \in 0..MaxEntries
    BY BusSizes DEF Init
  <2>2. closer \in [{"signals", "operator"} -> {"waiting", "looked", "done"}]
    BY DEF Init
  <2>3. /\ headless \in BOOLEAN /\ quit \in BOOLEAN /\ signalled \in BOOLEAN /\ leaving \in BOOLEAN
        /\ busy \in BOOLEAN
        /\ main = "starting" /\ closing = "none"
    BY DEF Init
  <2> QED
    BY <2>1, <2>2, <2>3 DEF ConsoleTypeOK
<1>4. RoomIsLeft
  BY RoomForMain, BusSizes DEF Init, NewBus, RoomIsLeft, MainLogged
<1> QED
  BY <1>1, <1>2, <1>3, <1>4 DEF ProcessInv, BusInv

LEMMA MainKeepsTypes ==
  ASSUME ProcessInv, NEW level \in Levels, MainStep(level)
  PROVE  ProcessInv'
<1> USE DEF ProcessInv
<1> Main \in Threads
  BY MainIsAThread
<1>1. count \in 0..MaxEntries /\ MaxEntries \in Nat /\ MaxEntries >= 3
  BY BusSizes, RoomForMain DEF BusInv, BusTypeOK
<1>2. CASE StartUp(level)
  <2>1. count < MaxEntries
    BY <1>1, <1>2 DEF RoomIsLeft, MainLogged, StartUp, At
  <2>2. BusInv' /\ count' <= count + 1
    BY <1>2, <2>1, MainLogsKeepsTypes DEF StartUp
  <2>3. RoomIsLeft'
    BY <1>1, <1>2, <2>2 DEF RoomIsLeft, MainLogged, StartUp, At, BusInv, BusTypeOK
  <2> QED
    BY <1>2, <2>2, <2>3 DEF ConsoleTypeOK, StartUp
<1>3. CASE SubscribeToBus
  <2>1. BusInv' /\ count' = count
    BY <1>3 DEF BusInv, BusTypeOK, SendersHaveEntries, RingIsRecent, SubscribeToBus, Subscribe
  <2>2. RoomIsLeft'
    BY <1>1, <1>3, <2>1 DEF RoomIsLeft, MainLogged, SubscribeToBus, At
  <2> QED
    BY <1>3, <2>1, <2>2 DEF ConsoleTypeOK, SubscribeToBus
<1>4. CASE ReadHistory
  <2>1. BusInv' /\ count' = count
    BY <1>4, BusStandsStill DEF ReadHistory
  <2>2. RoomIsLeft'
    BY <1>1, <1>4, <2>1 DEF RoomIsLeft, MainLogged, ReadHistory, At
  <2>3. History \subseteq Entries
    BY DEF History, ToSet, BusInv, BusTypeOK
  <2> QED
    BY <1>1, <1>4, <2>1, <2>2, <2>3 DEF ConsoleTypeOK, ReadHistory
<1>5. CASE SayListening(level)
  <2>1. count < MaxEntries
    BY <1>1, <1>5 DEF RoomIsLeft, MainLogged, SayListening, At
  <2>2. BusInv' /\ count' <= count + 1
    BY <1>5, <2>1, MainLogsKeepsTypes DEF SayListening
  <2>3. RoomIsLeft'
    BY <1>1, <1>5, <2>2 DEF RoomIsLeft, MainLogged, SayListening, At, BusInv, BusTypeOK
  <2> QED
    BY <1>5, <2>2, <2>3 DEF ConsoleTypeOK, SayListening
<1>6. CASE GraceEnds(level)
  <2>1. count < MaxEntries
    BY <1>1, <1>6 DEF RoomIsLeft, MainLogged, GraceEnds, At
  <2>2. BusInv' /\ count' <= count + 1
    BY <1>6, <2>1, MainLogsKeepsTypes DEF GraceEnds
  <2>3. RoomIsLeft'
    BY <1>1, <1>6, <2>2 DEF RoomIsLeft, MainLogged, GraceEnds, At, BusInv, BusTypeOK
  <2> QED
    BY <1>6, <2>2, <2>3 DEF ConsoleTypeOK, GraceEnds
<1>7. CASE UnsubscribeFromBus
  <2>1. BusInv' /\ count' = count
    BY <1>7 DEF BusInv, BusTypeOK, SendersHaveEntries, RingIsRecent, UnsubscribeFromBus, Unsubscribe
  <2>2. RoomIsLeft'
    BY <1>1, <1>7, <2>1 DEF RoomIsLeft, MainLogged, UnsubscribeFromBus, At
  <2> QED
    BY <1>7, <2>1, <2>2 DEF ConsoleTypeOK, UnsubscribeFromBus
<1>8. CASE StopRunning \/ StartClosing \/ SeeClosed \/ EndForced
  <2>1. BusInv' /\ count' = count
    BY <1>8, BusStandsStill DEF StopRunning, StartClosing, SeeClosed, EndForced
  <2>2. RoomIsLeft'
    BY <1>1, <1>8, <2>1 DEF RoomIsLeft, MainLogged, StopRunning, StartClosing, SeeClosed, EndForced, At
  <2> QED
    BY <1>8, <2>1, <2>2 DEF ConsoleTypeOK, StopRunning, StartClosing, SeeClosed, EndForced
<1> QED
  BY <1>2, <1>3, <1>4, <1>5, <1>6, <1>7, <1>8 DEF MainStep

\* Those who ask for the end, and the goroutine of Proxy.Close.
QuitStep ==
  \/ DashboardFails \/ ProxyCloses \/ Signal \/ CloserStep
  \/ OperatorLooks \/ DashboardQuits \/ OperatorCommands \/ CommandReturns
  \/ \E level \in Levels : OperatorSetsLevel(level)

LEMMA QuitKeepsTypes ==
  ASSUME ProcessInv, QuitStep
  PROVE  ProcessInv'
<1> USE DEF ProcessInv, QuitStep, DashboardFails, ProxyCloses, Signal, CloserStep, SignalLooks,
     SignalCloses, SignalsEnd, OperatorLooks, OperatorCloses, CloseQuit, DashboardQuits,
     OperatorCommands, CommandReturns, OperatorSetsLevel
<1>1. count \in 0..MaxEntries /\ MaxEntries \in Nat /\ MaxEntries >= 3
  BY BusSizes, RoomForMain DEF BusInv, BusTypeOK
<1>2. BusInv' /\ count' = count
  <2>1. CASE UNCHANGED busVars
    BY <2>1, BusStandsStill
  <2>2. CASE SignalCloses \/ OperatorCloses
    <3>1. panicked' = quit \/ panicked' = panicked
      BY <2>2
    <3>2. panicked' \in BOOLEAN
      BY <3>1 DEF BusInv, BusTypeOK, ConsoleTypeOK
    <3>3. UNCHANGED <<min, ring, subs, next, channel, sends, entry, count, missed>>
      BY <2>2
    <3> QED
      BY <3>2, <3>3 DEF BusInv, BusTypeOK, SendersHaveEntries, RingIsRecent
  <2>3. ASSUME NEW level \in Levels, SetLevel(level)
        PROVE  BusInv' /\ count' = count
    BY <2>3 DEF BusInv, BusTypeOK, SendersHaveEntries, RingIsRecent, SetLevel
  <2> QED
    BY <2>1, <2>2, <2>3
<1>3. RoomIsLeft'
  <2>1. main' = main \/ main' = "ended"
    BY DEF consoleVars
  <2> QED
    BY <1>1, <1>2, <2>1 DEF RoomIsLeft, MainLogged
<1>4. ConsoleTypeOK'
  <2>1. closer' \in [{"signals", "operator"} -> {"waiting", "looked", "done"}]
    BY DEF ConsoleTypeOK, Look, consoleVars
  <2>2. /\ quit' \in BOOLEAN /\ leaving' \in BOOLEAN /\ signalled' \in BOOLEAN
        /\ headless' \in BOOLEAN /\ busy' \in BOOLEAN
    BY DEF ConsoleTypeOK, consoleVars
  <2> QED
    BY <2>1, <2>2 DEF ConsoleTypeOK, consoleVars
<1> QED
  BY <1>2, <1>3, <1>4

LEMMA EntriesKeepTypes ==
  ASSUME ProcessInv,
         \/ \E level \in Levels, t \in ProxyThreads : ProxyLogs(t, level)
         \/ \E t \in Threads : SendOn(t)
         \/ ShowEntry
  PROVE  ProcessInv'
<1> USE DEF ProcessInv
<1>1. count \in 0..MaxEntries /\ MaxEntries \in Nat /\ MaxEntries >= 3
  BY BusSizes, RoomForMain DEF BusInv, BusTypeOK
<1>2. ASSUME NEW level \in Levels, NEW t \in ProxyThreads, ProxyLogs(t, level)
      PROVE  ProcessInv'
  <2>1. t \in Threads /\ count < MaxEntries /\ Log(t, level)
    BY <1>1, <1>2, MainIsAThread DEF ProxyLogs
  <2>2. BusInv' /\ count' = count + 1
    BY <2>1, LogKeepsTypes DEF BusInv, Log
  <2>3. RoomIsLeft'
    BY <1>1, <1>2, <2>2 DEF RoomIsLeft, MainLogged, ProxyLogs, consoleVars
  <2> QED
    BY <1>2, <2>2, <2>3 DEF ConsoleTypeOK, ProxyLogs, consoleVars
<1>3. ASSUME NEW t \in Threads, SendOn(t)
      PROVE  ProcessInv'
  <2>1. PICK id \in sends[t] : SendEntry(t, id)
    BY <1>3 DEF SendOn
  <2>2. BusTypeOK' /\ SendersHaveEntries' /\ RingIsRecent'
    BY <2>1, SendKeepsTypes DEF BusInv, RingIsRecent, SendEntry
  <2> QED
    BY <1>3, <2>1, <2>2 DEF BusInv, ConsoleTypeOK, RoomIsLeft, MainLogged, SendOn, SendEntry, consoleVars
<1>4. CASE ShowEntry
  <2>1. /\ channel[Mine] \in Seq(Entries) /\ channel[Mine] # <<>>
        /\ Mine \in Subscriptions
    BY <1>4, RoomForMain DEF ShowEntry, Receive, BusInv, BusTypeOK
  <2>2. /\ Head(channel[Mine]) \in Entries /\ Tail(channel[Mine]) \in Seq(Entries)
        /\ Len(Tail(channel[Mine])) <= QueueSize
    BY <2>1, TailLosesHead, BusSizes DEF BusInv, BusTypeOK
  <2>3. BusTypeOK'
    BY <1>4, <2>1, <2>2 DEF BusInv, BusTypeOK, ShowEntry, Receive
  <2>4. SendersHaveEntries' /\ RingIsRecent'
    BY <1>4 DEF BusInv, SendersHaveEntries, RingIsRecent, ShowEntry, Receive
  <2> QED
    BY <1>4, <2>2, <2>3, <2>4 DEF BusInv, ConsoleTypeOK, RoomIsLeft, MainLogged, ShowEntry, Receive
<1> QED
  BY <1>2, <1>3, <1>4

LEMMA NextKeepsTypes == ProcessInv /\ [Next]_vars => ProcessInv'
<1> SUFFICES ASSUME ProcessInv, [Next]_vars PROVE ProcessInv'
  OBVIOUS
<1>1. CASE UNCHANGED vars
  BY <1>1, BusStandsStill DEF ProcessInv, ConsoleTypeOK, RoomIsLeft, MainLogged, vars, consoleVars
<1>2. ASSUME NEW level \in Levels, MainStep(level)
      PROVE  ProcessInv'
  BY <1>2, MainKeepsTypes
<1>3. CASE QuitStep
  BY <1>3, QuitKeepsTypes
<1>4. CASE \/ \E level \in Levels, t \in ProxyThreads : ProxyLogs(t, level)
           \/ \E t \in Threads : SendOn(t)
           \/ ShowEntry
  BY <1>4, EntriesKeepTypes
<1> QED
  BY <1>1, <1>2, <1>3, <1>4 DEF Next, QuitStep

\* The bus keeps its types and the process is where its code can be: the
\* invariant the theorems below rest on.
THEOREM ProcessInvariant == Spec => []ProcessInv
BY InitProcessInv, NextKeepsTypes, PTL DEF Spec

\* The ring and every channel stay within their sizes, and the process is in a
\* state its code can be in.
THEOREM TypeCorrect == Spec => []TypeOK
<1>1. ProcessInv => TypeOK
  BY DEF ProcessInv, BusInv, ConsoleTypeOK, TypeOK
<1> QED
  BY <1>1, ProcessInvariant, PTL

-----------------------------------------------------------------------------
(* Entries.  From SubscribeToBus to UnsubscribeFromBus main's channel is   *)
(* among the subscribers, so that Log's copy has it and no send panics.    *)

Subscribed ==
  /\ main \in {"starting", "subscribing"} => next = Mine
  /\ main \in {"reading", "listening", "running"} => Mine \in subs

LEMMA InitSubscribed == Init => Subscribed
BY DEF Init, NewBus, Subscribed

LEMMA NextKeepsSubscribed == ProcessInv /\ Subscribed /\ [Next]_vars => Subscribed'
<1> SUFFICES ASSUME ProcessInv, Subscribed, [Next]_vars PROVE Subscribed'
  OBVIOUS
<1> USE DEF Subscribed
<1>1. CASE UNCHANGED <<next, subs, main>>
  BY <1>1
<1>2. CASE SubscribeToBus
  BY <1>2 DEF SubscribeToBus, Subscribe, At
<1>3. CASE UnsubscribeFromBus
  BY <1>3 DEF UnsubscribeFromBus
<1>4. CASE \E level \in Levels : StartUp(level) \/ SayListening(level) \/ GraceEnds(level)
  BY <1>4 DEF StartUp, SayListening, GraceEnds, At, MainLogs, Log, busVars
<1>5. CASE ReadHistory \/ StopRunning \/ StartClosing \/ SeeClosed \/ EndForced \/ DashboardFails
  BY <1>5 DEF ReadHistory, StopRunning, StartClosing, SeeClosed, EndForced, DashboardFails, At, busVars
<1>6. CASE SignalCloses \/ OperatorCloses
  BY <1>1, <1>6 DEF SignalCloses, OperatorCloses, CloseQuit
<1>7. CASE \/ ProxyCloses \/ Signal \/ SignalLooks \/ SignalsEnd \/ OperatorLooks \/ ShowEntry \/ DashboardQuits
           \/ OperatorCommands \/ CommandReturns
           \/ \E level \in Levels : OperatorSetsLevel(level) \/ \E t \in ProxyThreads : ProxyLogs(t, level)
           \/ \E t \in Threads : SendOn(t)
  BY <1>1, <1>7 DEF ProxyCloses, Signal, SignalLooks, SignalsEnd, OperatorLooks, ShowEntry, DashboardQuits,
     OperatorCommands, CommandReturns, OperatorSetsLevel, ProxyLogs, SendOn, SendEntry,
     SetLevel, Log, Receive, busVars, consoleVars
<1> QED
  BY <1>1, <1>2, <1>3, <1>4, <1>5, <1>6, <1>7 DEF Next, MainStep, CloserStep, vars, busVars, consoleVars

Accounted(e) == e \in shown \cup missed[Mine] \/ Underway(e, Mine)

\* Log leaves earlier entries where they are and has the new one under way to
\* every subscriber.
LEMMA LogAccounts ==
  ASSUME ProcessInv, Mine \in subs, NEW t \in Threads, NEW level, Log(t, level), UNCHANGED shown
  PROVE  \A e \in Entries : Accounted(e) \/ e = count + 1 => Accounted(e)'
<1>1. t \in DOMAIN sends /\ t \in DOMAIN entry /\ sends[t] = {}
  BY DEF ProcessInv, BusInv, BusTypeOK, Log, Logging
<1>2. /\ sends' = [sends EXCEPT ![t] = subs]
      /\ entry' = [entry EXCEPT ![t] = count + 1]
      /\ UNCHANGED <<channel, missed>>
  BY DEF Log
<1>3. ASSUME NEW e \in Entries, e = count + 1
      PROVE  Accounted(e)'
  BY <1>1, <1>2, <1>3 DEF Accounted, Underway
<1>4. ASSUME NEW e \in Entries, Accounted(e)
      PROVE  Accounted(e)'
  <2>1. CASE e \in shown \cup missed[Mine] \/ e \in ToSet(channel[Mine])
    BY <1>2, <2>1 DEF Accounted, Underway
  <2>2. CASE \E u \in Threads : Mine \in sends[u] /\ entry[u] = e
    <3>1. PICK u \in Threads : Mine \in sends[u] /\ entry[u] = e
      BY <2>2
    <3>2. u # t /\ sends'[u] = sends[u] /\ entry'[u] = entry[u]
      BY <1>1, <1>2, <3>1 DEF ProcessInv, BusInv, BusTypeOK
    <3> QED
      BY <3>1, <3>2 DEF Accounted, Underway
  <2> QED
    BY <1>4, <2>1, <2>2 DEF Accounted, Underway
<1> QED
  BY <1>3, <1>4

\* A send puts its entry into the channel or finds it full.
LEMMA SendAccounts ==
  ASSUME ProcessInv, Mine \in subs, NEW t \in Threads, NEW id \in sends[t], SendEntry(t, id),
         UNCHANGED shown, NEW e \in Entries, Accounted(e)
  PROVE  Accounted(e)'
<1>1. /\ id \in Subscriptions /\ entry[t] \in Entries /\ Mine \in Subscriptions
      /\ channel \in [Subscriptions -> Seq(Entries)]
      /\ missed \in [Subscriptions -> SUBSET Entries]
      /\ sends \in [Threads -> SUBSET Subscriptions]
  BY RoomForMain DEF ProcessInv, BusInv, BusTypeOK, SendersHaveEntries
<1>2. sends' = [sends EXCEPT ![t] = @ \ {id}] /\ UNCHANGED entry
  BY DEF SendEntry
<1>3. missed[Mine] \subseteq missed'[Mine]
  BY <1>1 DEF SendEntry
<1>4. ToSet(channel[Mine]) \subseteq ToSet(channel'[Mine])
  <2>1. CASE UNCHANGED channel
    BY <2>1
  <2>2. CASE channel' = [channel EXCEPT ![id] = Append(@, entry[t])]
    <3>1. channel'[Mine] = channel[Mine] \/ channel'[Mine] = Append(channel[Mine], entry[t])
      BY <1>1, <2>2
    <3>2. channel[Mine] \in Seq(Entries)
      BY <1>1
    <3>3. ToSet(Append(channel[Mine], entry[t])) = ToSet(channel[Mine]) \cup {entry[t]}
      BY <1>1, <3>2, AppendAddsOne
    <3> QED
      BY <3>1, <3>3
  <2> QED
    BY <2>1, <2>2 DEF SendEntry
<1>5. CASE e \in shown \cup missed[Mine] \/ e \in ToSet(channel[Mine])
  BY <1>3, <1>4, <1>5 DEF Accounted, Underway
<1>6. CASE \E u \in Threads : Mine \in sends[u] /\ entry[u] = e
  <2>1. PICK u \in Threads : Mine \in sends[u] /\ entry[u] = e
    BY <1>6
  <2>2. CASE u # t \/ id # Mine
    <3>1. Mine \in sends'[u]
      BY <1>1, <1>2, <2>1, <2>2
    <3> QED
      BY <1>2, <2>1, <3>1 DEF Accounted, Underway
  <2>3. CASE u = t /\ id = Mine
    <3>1. ~IsClosed(id)
      BY <2>3 DEF IsClosed
    <3>2. CASE missed' = [missed EXCEPT ![id] = @ \cup {entry[t]}]
      BY <1>1, <2>1, <2>3, <3>2 DEF Accounted
    <3>3. CASE channel' = [channel EXCEPT ![id] = Append(@, entry[t])]
      <4>1. channel'[Mine] = Append(channel[Mine], e) /\ channel[Mine] \in Seq(Entries)
        BY <1>1, <2>1, <2>3, <3>3
      <4>2. e \in ToSet(channel'[Mine])
        BY <4>1, AppendAddsOne
      <4> QED
        BY <4>2 DEF Accounted, Underway
    <3> QED
      BY <3>1, <3>2, <3>3 DEF SendEntry
  <2> QED
    BY <2>2, <2>3
<1> QED
  BY <1>5, <1>6 DEF Accounted, Underway

LEMMA ShowAccounts ==
  ASSUME ProcessInv, ShowEntry, NEW e \in Entries, Accounted(e)
  PROVE  Accounted(e)'
<1>1. /\ Mine \in Subscriptions
      /\ channel[Mine] \in Seq(Entries) /\ channel[Mine] # <<>>
      /\ channel'[Mine] = Tail(channel[Mine])
      /\ shown' = shown \cup {Head(channel[Mine])}
      /\ UNCHANGED <<sends, entry, missed>>
  BY RoomForMain DEF ShowEntry, Receive, ProcessInv, BusInv, BusTypeOK
<1>2. ToSet(channel[Mine]) \subseteq ToSet(channel'[Mine]) \cup {Head(channel[Mine])}
  BY <1>1, TailLosesHead
<1> QED
  BY <1>1, <1>2 DEF Accounted, Underway

\* Nothing else touches what is shown, missed or under way.
LEMMA StandsStill ==
  ASSUME UNCHANGED <<shown, missed, channel, sends, entry>>
  PROVE  \A e \in Entries : Accounted(e) => Accounted(e)'
BY DEF Accounted, Underway

\* Nothing is lost while main listens: what Accounted loses no step takes, and
\* what is new is under way.
LEMMA ListeningKeepsAll ==
  ASSUME ProcessInv, Subscribed, Listens, NothingLost, Next, Listens'
  PROVE  NothingLost'
<1> DEFINE Recent(e) == seen - RingSize < e /\ e <= count
<1>1. Mine \in subs /\ count \in Nat /\ seen \in Nat
  BY BusSizes DEF Subscribed, Listens, ProcessInv, BusInv, BusTypeOK, ConsoleTypeOK
<1>2. \A e \in Entries : Recent(e) => Accounted(e)
  BY DEF NothingLost, Accounted
<1>3. ASSUME UNCHANGED <<seen, count>>, \A e \in Entries : Accounted(e) => Accounted(e)'
      PROVE  NothingLost'
  BY <1>2, <1>3 DEF NothingLost, Accounted
<1>4. ASSUME NEW t \in Threads, NEW level, Log(t, level), UNCHANGED <<shown, seen>>
      PROVE  NothingLost'
  <2>1. count' = count + 1
    BY <1>4 DEF Log
  <2>2. \A e \in Entries : seen' - RingSize < e /\ e <= count' => Recent(e) \/ e = count + 1
    BY <1>1, <1>4, <2>1 DEF Entries
  <2>3. \A e \in Entries : Recent(e) \/ e = count + 1 => Accounted(e)'
    BY <1>1, <1>2, <1>4, LogAccounts
  <2> QED
    BY <2>2, <2>3 DEF NothingLost, Accounted
<1>5. ASSUME NEW t \in Threads, SendOn(t)
      PROVE  NothingLost'
  <2>1. PICK id \in sends[t] : SendEntry(t, id)
    BY <1>5 DEF SendOn
  <2>2. UNCHANGED <<shown, seen, count>>
    BY <1>5, <2>1 DEF SendOn, SendEntry, consoleVars
  <2>3. \A e \in Entries : Accounted(e) => Accounted(e)'
    BY <1>1, <2>1, <2>2, SendAccounts
  <2> QED
    BY <1>3, <2>2, <2>3
<1>6. CASE ShowEntry
  BY <1>3, <1>6, ShowAccounts DEF ShowEntry, Receive
<1>7. CASE \E level \in Levels : SayListening(level)
  <2>1. CASE UNCHANGED busVars
    BY <1>3, <1>7, <2>1, StandsStill DEF SayListening, busVars
  <2> QED
    BY <1>4, <1>7, <2>1, MainIsAThread DEF SayListening, MainLogs
<1>8. CASE \E level \in Levels, t \in ProxyThreads : ProxyLogs(t, level)
  BY <1>4, <1>8, MainIsAThread DEF ProxyLogs, consoleVars
<1>9. CASE \/ ProxyCloses \/ Signal \/ CloserStep \/ OperatorLooks \/ DashboardQuits
           \/ OperatorCommands \/ CommandReturns
           \/ \E level \in Levels : OperatorSetsLevel(level)
  <2>1. UNCHANGED <<shown, seen, missed, channel, sends, entry, count>>
    BY <1>9 DEF ProxyCloses, Signal, CloserStep, SignalLooks, SignalCloses, SignalsEnd, OperatorCloses,
       CloseQuit, OperatorLooks, DashboardQuits, OperatorCommands, CommandReturns,
       OperatorSetsLevel, SetLevel, busVars, consoleVars
  <2> QED
    BY <1>3, <2>1, StandsStill
<1>10. ~(StopRunning \/ DashboardFails \/ UnsubscribeFromBus \/ StartClosing \/ SeeClosed \/ EndForced
         \/ SubscribeToBus \/ ReadHistory \/ \E level \in Levels : StartUp(level) \/ GraceEnds(level))
  BY DEF Listens, StopRunning, DashboardFails, UnsubscribeFromBus, StartClosing, SeeClosed, EndForced,
     SubscribeToBus, ReadHistory, StartUp, GraceEnds, At
<1> QED
  BY <1>5, <1>6, <1>7, <1>8, <1>9, <1>10 DEF Next, MainStep

\* The history has all entries that are recent.
LEMMA HistoryShowsAll ==
  ASSUME ProcessInv, ReadHistory
  PROVE  NothingLost'
<1>1. /\ ring \in Seq(Entries) /\ count \in Nat /\ RingIsRecent
      /\ seen' = count /\ count' = count /\ History \subseteq shown'
  BY BusSizes DEF ProcessInv, BusInv, BusTypeOK, ReadHistory, busVars
<1>2. ASSUME NEW e \in Entries, seen' - RingSize < e, e <= count'
      PROVE  e \in shown'
  <2>1. e \in Nat \ {0} /\ count - RingSize < e /\ e <= count
    BY <1>1, <1>2, BusSizes DEF Entries
  <2> QED
    BY <1>1, <2>1, HistoryIsRecent
<1> QED
  BY <1>2 DEF NothingLost

\* Nobody else starts to listen.
LEMMA StartsByReading ==
  ASSUME Next, ~Listens, Listens'
  PROVE  ReadHistory
BY DEF Listens, Next, MainStep, CloserStep, StartUp, SubscribeToBus, SayListening, StopRunning,
   UnsubscribeFromBus, StartClosing, SeeClosed, GraceEnds, EndForced, DashboardFails, ProxyCloses,
   Signal, SignalLooks, SignalCloses, SignalsEnd, OperatorCloses, CloseQuit, OperatorLooks,
   DashboardQuits, OperatorCommands, CommandReturns, OperatorSetsLevel, ProxyLogs, SendOn, ShowEntry,
   At, consoleVars

LEMMA NextKeepsAll ==
  ProcessInv /\ Subscribed /\ NothingLost /\ [Next]_vars => NothingLost'
<1> SUFFICES ASSUME ProcessInv, Subscribed, NothingLost, [Next]_vars PROVE NothingLost'
  OBVIOUS
<1>1. CASE UNCHANGED vars
  BY <1>1 DEF NothingLost, Listens, Underway, vars, busVars, consoleVars
<1>2. CASE Next /\ ~Listens'
  BY <1>2 DEF NothingLost
<1>3. CASE Next /\ Listens' /\ Listens
  BY <1>3, ListeningKeepsAll
<1>4. CASE Next /\ Listens' /\ ~Listens
  BY <1>4, StartsByReading, HistoryShowsAll
<1> QED
  BY <1>1, <1>2, <1>3, <1>4

\* No entry falls between the history and the channel, although Log sends
\* after it has let go of the mutex: Subscribe comes first, and Log copies the
\* subscribers where it writes the ring (bus.go:117-155, app.go:79-89,
\* tui.go:62-71).
THEOREM NothingIsLost == Spec => []NothingLost
<1>1. Init => NothingLost
  BY DEF Init, NothingLost, Listens
<1> QED
  BY <1>1, InitSubscribed, NextKeepsSubscribed, NextKeepsAll, ProcessInvariant, PTL DEF Spec
===============================================================================
