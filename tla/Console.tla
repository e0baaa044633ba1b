-------------------------------- MODULE Console --------------------------------
(***************************************************************************)
(* internal/cli and the start of cmd/scpxy: the process from its first log *)
(* entry to its end, with the event bus in between.                        *)
(*                                                                         *)
(* The main goroutine subscribes to the bus, shows its history, waits for  *)
(* quit, and shuts the proxy down.  Entries are printed by a goroutine     *)
(* (headless) or by the dashboard's Update.  quit is closed by a goroutine *)
(* that waits for signals and by what the operator types; both use the     *)
(* same closeOnce, which looks at quit and then closes it.                 *)
(*                                                                         *)
(* The goroutines of the proxy log when they like.  Proxy.Close is a       *)
(* goroutine that returns or does not.  The dashboard may fail, which ends *)
(* the process there and then; it ends on a signal by itself, as it keeps  *)
(* bubbletea's handler; and it runs commands inside Update, where one that *)
(* posts to a full queue of the proxy holds it up for as long as it takes. *)
(***************************************************************************)
EXTENDS EventBus

CONSTANTS Main, ProxyThreads

\* The subscription of the one caller of Subscribe.
Mine == 0
\* The entries that the main goroutine may log.
MainEntries == 3

ASSUME MainIsAThread == Main \notin ProxyThreads /\ Threads = ProxyThreads \cup {Main}
ASSUME RoomForMain   == Mine \in Subscriptions /\ MaxEntries >= MainEntries

VARIABLES
  headless,
  main,       \* where the main goroutine is
  quit,       \* the channel quit is closed
  signalled,
  closer,     \* goroutine that may close quit -> where it is
  leaving,    \* the dashboard has been told to end
  busy,       \* Update of the dashboard is in a command that posts to the proxy
  closing,    \* the goroutine of Proxy.Close
  shown,      \* entries printed, or appended to the dashboard's lines
  seen        \* entries the ring had taken when main read the history

consoleVars == <<headless, main, quit, signalled, closer, leaving, busy, closing, shown, seen>>
vars == <<busVars, consoleVars>>

TypeOK ==
  /\ BusTypeOK
  /\ headless \in BOOLEAN /\ quit \in BOOLEAN /\ signalled \in BOOLEAN /\ leaving \in BOOLEAN
  /\ busy \in BOOLEAN
  /\ main \in {"starting", "subscribing", "reading", "listening", "running",
               "unsubscribing", "stopping", "waiting", "forced", "ended"}
  /\ closer \in [{"signals", "operator"} -> {"waiting", "looked", "done"}]
  /\ closing \in {"none", "running", "returned"}
  /\ shown \subseteq Entries
  /\ seen \in 0..MaxEntries

Init ==
  /\ NewBus
  /\ headless \in BOOLEAN
  /\ main = "starting"
  /\ quit = FALSE /\ signalled = FALSE /\ leaving = FALSE /\ busy = FALSE
  /\ closer = [c \in {"signals", "operator"} |-> "waiting"]
  /\ closing = "none"
  /\ shown = {} /\ seen = 0

Alive == main # "ended" /\ ~panicked

-----------------------------------------------------------------------------
(* The main goroutine. *)

At(pc) == Alive /\ main = pc /\ ~Logging(Main)

\* Main logs, unless the level is below the minimum.
MainLogs(level) ==
  \/ Log(Main, level)
  \/ level < min /\ UNCHANGED busVars

\* cmd/scpxy start.
StartUp(level) ==
  /\ At("starting")
  /\ MainLogs(level)
  /\ main' = "subscribing"
  /\ UNCHANGED <<headless, quit, signalled, closer, leaving, busy, closing, shown, seen>>

SubscribeToBus ==
  /\ At("subscribing")
  /\ Subscribe
  /\ main' = "reading"
  /\ UNCHANGED <<headless, quit, signalled, closer, leaving, busy, closing, shown, seen>>

ReadHistory ==
  /\ At("reading")
  /\ shown' = shown \cup History
  /\ seen' = count
  /\ main' = IF headless THEN "listening" ELSE "running"
  /\ UNCHANGED <<busVars, headless, quit, signalled, closer, leaving, busy, closing>>

\* runHeadless says where it listens, and starts readStdin.
SayListening(level) ==
  /\ At("listening")
  /\ MainLogs(level)
  /\ main' = "running"
  /\ UNCHANGED <<headless, quit, signalled, closer, leaving, busy, closing, shown, seen>>

\* No call of Update is under way.
Responsive == ~busy /\ closer["operator"] # "looked"

\* Headless, quit has been closed; else Program.Run returns, which it does
\* between two calls of Update.
StopRunning ==
  /\ At("running")
  /\ IF headless THEN quit ELSE leaving /\ Responsive
  /\ main' = "unsubscribing"
  /\ UNCHANGED <<busVars, headless, quit, signalled, closer, leaving, busy, closing, shown, seen>>

\* Program.Run returns an error: the process ends as it is.
DashboardFails ==
  /\ At("running") /\ ~headless /\ Responsive
  /\ main' = "ended"
  /\ UNCHANGED <<busVars, headless, quit, signalled, closer, leaving, busy, closing, shown, seen>>

UnsubscribeFromBus ==
  /\ At("unsubscribing")
  /\ Unsubscribe(Mine)
  /\ main' = "stopping"
  /\ UNCHANGED <<headless, quit, signalled, closer, leaving, busy, closing, shown, seen>>

\* shutdown starts the goroutine that calls Proxy.Close.
StartClosing ==
  /\ At("stopping")
  /\ closing' = "running"
  /\ main' = "waiting"
  /\ UNCHANGED <<busVars, headless, quit, signalled, closer, leaving, busy, shown, seen>>

\* Proxy.Close returns, which nothing here says it must.
ProxyCloses ==
  /\ Alive /\ closing = "running"
  /\ closing' = "returned"
  /\ UNCHANGED <<busVars, headless, main, quit, signalled, closer, leaving, busy, shown, seen>>

SeeClosed ==
  /\ At("waiting") /\ closing = "returned"
  /\ main' = "ended"
  /\ UNCHANGED <<busVars, headless, quit, signalled, closer, leaving, busy, closing, shown, seen>>

\* Slip: shutdown waits for the proxy however long it takes.
GraceEnds_Slip(level) == FALSE

GraceEnds(level) ==
  /\ At("waiting")
  /\ MainLogs(level)
  /\ main' = "forced"
  /\ UNCHANGED <<headless, quit, signalled, closer, leaving, busy, closing, shown, seen>>

EndForced ==
  /\ At("forced")
  /\ main' = "ended"
  /\ UNCHANGED <<busVars, headless, quit, signalled, closer, leaving, busy, closing, shown, seen>>

-----------------------------------------------------------------------------
(* Whoever asks for the end. *)

\* A signal goes to NotifyContext, and to the dashboard once it runs.
Signal ==
  /\ Alive /\ main # "starting" /\ ~signalled
  /\ signalled' = TRUE
  /\ leaving' \in IF headless \/ main # "running" THEN {leaving} ELSE {leaving, TRUE}
  /\ UNCHANGED <<busVars, headless, main, quit, closer, busy, closing, shown, seen>>

\* closeOnce: the select ...
Look(c) ==
  /\ closer[c] = "waiting"
  /\ closer' = [closer EXCEPT ![c] = IF quit THEN "done" ELSE "looked"]

\* ... and the close, which panics where another has been faster.
CloseQuit(c) ==
  /\ Alive /\ closer[c] = "looked"
  /\ closer' = [closer EXCEPT ![c] = "done"]
  /\ quit' = TRUE
  /\ UNCHANGED <<min, ring, subs, next, channel, sends, entry, count, missed,
                 headless, main, signalled, busy, closing, shown, seen>>

SignalLooks ==
  /\ Alive /\ signalled
  /\ Look("signals")
  /\ UNCHANGED <<busVars, headless, main, quit, signalled, leaving, busy, closing, shown, seen>>

SignalCloses == CloseQuit("signals") /\ panicked' = quit /\ UNCHANGED leaving

\* The goroutine that waits for signals ends with quit.
SignalsEnd ==
  /\ Alive /\ quit /\ closer["signals"] = "waiting"
  /\ closer' = [closer EXCEPT !["signals"] = "done"]
  /\ UNCHANGED <<busVars, headless, main, quit, signalled, leaving, busy, closing, shown, seen>>

\* readStdin is a goroutine of its own; the dashboard takes keys while it runs.
OperatorCanType ==
  /\ Alive /\ Responsive
  /\ main \in {"running"} \cup
       IF headless THEN {"unsubscribing", "stopping", "waiting", "forced"} ELSE {}

\* The command quit, or in the dashboard Ctrl+C or Esc.
OperatorLooks ==
  /\ OperatorCanType
  /\ Look("operator")
  /\ UNCHANGED <<busVars, headless, main, quit, signalled, leaving, busy, closing, shown, seen>>

\* A key, and not the command, also tells the dashboard to end.  Where Update
\* panics, Program.Run may recover and return.
OperatorCloses ==
  /\ CloseQuit("operator")
  /\ \/ panicked' = quit /\ leaving' \in IF headless THEN {FALSE} ELSE {leaving, TRUE}
     \/ quit /\ ~headless /\ leaving' = TRUE /\ UNCHANGED panicked

\* The command log level.
OperatorSetsLevel(level) ==
  /\ OperatorCanType
  /\ SetLevel(level)
  /\ UNCHANGED consoleVars

\* kick, move or ban: the proxy's part of it is Proxy's.
OperatorCommands ==
  /\ OperatorCanType /\ ~headless
  /\ busy' = TRUE
  /\ UNCHANGED <<busVars, headless, main, quit, signalled, closer, leaving, closing, shown, seen>>

\* What it posts has found room, which nothing here says it must.
CommandReturns ==
  /\ Alive /\ busy
  /\ busy' = FALSE
  /\ UNCHANGED <<busVars, headless, main, quit, signalled, closer, leaving, closing, shown, seen>>

\* The goroutine of runTUI that waits for quit.
DashboardQuits ==
  /\ Alive /\ main = "running" /\ ~headless /\ quit /\ ~leaving
  /\ leaving' = TRUE
  /\ UNCHANGED <<busVars, headless, main, quit, signalled, closer, busy, closing, shown, seen>>

-----------------------------------------------------------------------------
(* Entries. *)

ProxyLogs(t, level) ==
  /\ Alive /\ t \in ProxyThreads
  /\ count < MaxEntries - MainEntries
  /\ Log(t, level)
  /\ UNCHANGED consoleVars

SendOn(t) ==
  /\ Alive
  /\ \E id \in sends[t] : SendEntry(t, id)
  /\ UNCHANGED consoleVars

\* Slip: the dashboard waits for one entry and not for the next.
CanShow_Slip ==
  next > Mine /\ (headless \/ (main = "running" /\ Responsive /\ shown \subseteq 1..seen))

\* The printing goroutine runs to the end; waitForLog is a command of the
\* dashboard, issued again by Update for each entry.
CanShow == next > Mine /\ (headless \/ (main = "running" /\ Responsive))

ShowEntry ==
  /\ Alive /\ CanShow
  /\ Receive(Mine)
  /\ shown' = shown \cup {Head(channel[Mine])}
  /\ UNCHANGED <<headless, main, quit, signalled, closer, leaving, busy, closing, seen>>

MainStep(level) ==
  \/ StartUp(level) \/ SubscribeToBus \/ ReadHistory \/ SayListening(level)
  \/ StopRunning \/ UnsubscribeFromBus \/ StartClosing \/ SeeClosed
  \/ GraceEnds(level) \/ EndForced

CloserStep == SignalLooks \/ SignalCloses \/ SignalsEnd \/ OperatorCloses

Next ==
  \/ \E level \in Levels :
       MainStep(level) \/ OperatorSetsLevel(level) \/ \E t \in ProxyThreads : ProxyLogs(t, level)
  \/ DashboardFails \/ ProxyCloses
  \/ Signal \/ CloserStep \/ OperatorLooks \/ DashboardQuits
  \/ OperatorCommands \/ CommandReturns
  \/ \E t \in Threads : SendOn(t)
  \/ ShowEntry

Spec == Init /\ [][Next]_vars

\* Every goroutine runs on and the grace period ends; Proxy.Close and a command
\* need not return, and nobody has to log, to type or to send a signal.  What
\* the dashboard is told waits in one channel with what is typed, and gets its
\* turn between two commands.
Fairness ==
  /\ WF_vars(\E level \in Levels : MainStep(level)) /\ SF_vars(StopRunning)
  /\ WF_vars(CloserStep) /\ WF_vars(DashboardQuits)
  /\ \A t \in Threads : WF_vars(SendOn(t))
  /\ SF_vars(ShowEntry)

FairSpec == Spec /\ Fairness

-----------------------------------------------------------------------------
(* Properties. *)

Listens == main \in {"listening", "running"}

\* Once the history has been read and until main unsubscribes, nothing falls
\* between history and channel: an entry is shown, on its way, or found the
\* channel full; older ones have only been pushed out of the ring.
\* (runHeadless and newModel, Bus.Subscribe, History and Log.)
NothingLost ==
  Listens =>
    \A e \in Entries :
      seen - RingSize < e /\ e <= count =>
        e \in shown \cup missed[Mine] \/ Underway(e, Mine)

Over == main \notin {"reading", "listening", "running"} \/ panicked

\* An entry on its way to the printer or the dashboard gets there, or finds the
\* channel full, while they listen, unless a command never returns to the
\* dashboard.  (Bus.Log, waitForLog and Update.)
EntriesShown ==
  \A e \in Entries :
    Underway(e, Mine) ~> (e \in shown \/ e \in missed[Mine] \/ Over \/ []busy)

Stopped == ~Alive

\* A signal, a key or the command ends the process, even where Proxy.Close
\* does not return, unless the dashboard is in a command that never does: the
\* grace period only begins once Update has returned.  (Run, closeOnce,
\* runTUI, handleKey, shutdown.)
QuitEnds == (signalled \/ quit) ~> (Stopped \/ []busy)

\* The shutdown that README.md:31 calls graceful panics nowhere.  It does: two
\* may close quit (app.go:27-33), and Log may send on the channel that
\* Unsubscribe has closed meanwhile (bus.go:93-104, 143-154).
NoPanic == ~panicked
===============================================================================
