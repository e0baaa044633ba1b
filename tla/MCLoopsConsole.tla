---------------------------- MODULE MCLoopsConsole ----------------------------
(***************************************************************************)
(* How goroutines come to an end, in two places in one run, each on its    *)
(* own: the event loops and those who stop them, or the process from its   *)
(* first log entry on.  What the run is about is chosen at the start, and  *)
(* the other stands still.                                                 *)
(***************************************************************************)
EXTENDS CommandLoops, Console

VARIABLE part

MCInit ==
  /\ part \in {"loops", "console"}
  /\ LoopsInit
  /\ Init /\ (part = "loops" => headless /\ \A level \in Levels : min <= level)

MCNext ==
  /\ UNCHANGED part
  /\ \/ part = "loops" /\ LoopsNext /\ UNCHANGED vars
     \/ part = "console" /\ Next /\ UNCHANGED loopVars

Served(m) == (TakeCommand(m) \/ EndLoop(m)) /\ UNCHANGED vars
Stops     == StopRunning /\ UNCHANGED loopVars
Shows     == ShowEntry /\ UNCHANGED loopVars

\* LoopsFairness and Fairness, of the half the run is about.  What is strongly
\* fair in one half shares a conjunct with what is so in the other.
MCFairness ==
  /\ \A m \in Managers : WF_loopVars(part = "loops" /\ Finish(m))
  /\ \A p \in Posters : WF_loopVars(part = "loops" /\ PostEnds(p))
  /\ \A s \in Stoppers : WF_loopVars(part = "loops" /\ StopStep(s))
  /\ WF_vars(part = "console" /\ \E level \in Levels : MainStep(level))
  /\ WF_vars(part = "console" /\ CloserStep) /\ WF_vars(part = "console" /\ DashboardQuits)
  /\ \A t \in Threads : WF_vars(part = "console" /\ SendOn(t))
  /\ SF_<<loopVars, vars>>(IF part = "loops" THEN Served(Listening) ELSE Stops)
  /\ SF_<<loopVars, vars>>(IF part = "loops" THEN Served(Link) ELSE Shows)

MCSpec == MCInit /\ [][MCNext]_<<part, loopVars, vars>> /\ MCFairness
=============================================================================
