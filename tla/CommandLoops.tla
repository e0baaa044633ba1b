----------------------------- MODULE CommandLoops -----------------------------
(***************************************************************************)
(* The event loops of the managers of internal/litenetlib, the queues of   *)
(* commands they serve, and Manager.Stop as internal/proxy calls it.       *)
(*                                                                         *)
(* A loop runs one handler at a time: for a command, a packet or a tick.   *)
(* Handlers of the listening manager post commands to it and to the link's *)
(* (Reject, Connect, Disconnect), those of the link to it and to the       *)
(* listening one's (Disconnect, Accept), and other goroutines to either    *)
(* (Send and Disconnect, from the pumps and the console).  A post waits    *)
(* while the queue is full, also where it is the loop's own.               *)
(*                                                                         *)
(* Stoppers call Stop: Proxy.Close for the listening manager and then the  *)
(* links, sweepLinks and acquireLink for a link on its own.                *)
(*                                                                         *)
(* What a command does is left out, but for Stop's own, which shuts the    *)
(* peers down and says so.                                                 *)
(*                                                                         *)
(* The names of the specification begin with Loops, so that it can stand   *)
(* beside Connection, the other side of the manager, in one module.        *)
(***************************************************************************)
EXTENDS Integers, Sequences

CONSTANTS
  Listening, Link,
  Others,         \* goroutines that post and are not loops
  Closer, Sweeper,
  CommandQueueSize,
  MaxPosts        \* bound on the commands posted

ASSUME QueuesHoldSomething == CommandQueueSize \in Nat \ {0} /\ MaxPosts \in Nat
ASSUME AllDiffer ==
  Listening # Link /\ Closer # Sweeper /\ Others \cap {Listening, Link} = {}

Managers == {Listening, Link}
Posters  == Managers \cup Others
Stoppers == {Closer, Sweeper}

VARIABLES
  commands,    \* manager -> its queue of commands, "work" or "stop"
  loop,        \* manager -> its event loop: "idle", "handling" or "ended"
  posting,     \* poster -> the manager it is posting to, or "nobody"
  posts,       \* commands posted so far
  done,        \* managers whose channel done is closed
  saidGoodbye, \* managers whose Stop command has been run
  stop         \* stopper -> the manager it stops, and how far it is

loopVars == <<commands, loop, posting, posts, done, saidGoodbye, stop>>

Nobody == "nobody"

Steps == {"starting", "offering", "awaiting", "closing", "joining", "returned"}

LoopsTypeOK ==
  /\ commands \in [Managers -> Seq({"work", "stop"})]
  /\ \A m \in Managers : Len(commands[m]) <= CommandQueueSize
  /\ loop \in [Managers -> {"idle", "handling", "ended"}]
  /\ posting \in [Posters -> Managers \cup {Nobody}]
  /\ posts \in 0..MaxPosts
  /\ done \subseteq Managers /\ saidGoodbye \subseteq Managers
  /\ stop \in [Stoppers -> [of : Managers, at : Steps \cup {"none"}]]

LoopsInit ==
  /\ commands = [m \in Managers |-> <<>>]
  /\ loop = [m \in Managers |-> "idle"]
  /\ posting = [p \in Posters |-> Nobody]
  /\ posts = 0
  /\ done = {} /\ saidGoodbye = {}
  /\ stop = [s \in Stoppers |-> [of |-> IF s = Closer THEN Listening ELSE Link, at |-> "none"]]

CommandFits(m) == Len(commands[m]) < CommandQueueSize

-----------------------------------------------------------------------------
(* The loops and those who post. *)

\* eventLoop takes a packet or the ticker.
TakeEvent(m) ==
  /\ loop[m] = "idle"
  /\ loop' = [loop EXCEPT ![m] = "handling"]
  /\ UNCHANGED <<commands, posting, posts, done, saidGoodbye, stop>>

\* eventLoop takes a command and runs it.
TakeCommand(m) ==
  /\ loop[m] = "idle" /\ commands[m] # <<>>
  /\ commands' = [commands EXCEPT ![m] = Tail(@)]
  /\ loop' = [loop EXCEPT ![m] = "handling"]
  /\ saidGoodbye' = IF Head(commands[m]) = "stop" THEN saidGoodbye \cup {m} ELSE saidGoodbye
  /\ UNCHANGED <<posting, posts, done, stop>>

Finish(m) ==
  /\ loop[m] = "handling" /\ posting[m] = Nobody
  /\ loop' = [loop EXCEPT ![m] = "idle"]
  /\ UNCHANGED <<commands, posting, posts, done, saidGoodbye, stop>>

EndLoop(m) ==
  /\ loop[m] = "idle" /\ m \in done
  /\ loop' = [loop EXCEPT ![m] = "ended"]
  /\ UNCHANGED <<commands, posting, posts, done, saidGoodbye, stop>>

\* A loop posts from a handler only.
Post(p, m) ==
  /\ posting[p] = Nobody /\ posts < MaxPosts
  /\ p \in Managers => loop[p] = "handling"
  /\ posting' = [posting EXCEPT ![p] = m]
  /\ posts' = posts + 1
  /\ UNCHANGED <<commands, loop, done, saidGoodbye, stop>>

\* Slip: post waits for the queue alone.
PostIsMoot_Slip(m) == FALSE

PostIsMoot(m) == m \in done

\* The select of Manager.post, either way.
PostEnds(p) ==
  /\ posting[p] # Nobody
  /\ LET m == posting[p]
     IN \/ /\ CommandFits(m)
           /\ commands' = [commands EXCEPT ![m] = Append(@, "work")]
        \/ PostIsMoot(m) /\ UNCHANGED commands
  /\ posting' = [posting EXCEPT ![p] = Nobody]
  /\ UNCHANGED <<loop, posts, done, saidGoodbye, stop>>

-----------------------------------------------------------------------------
(* Manager.Stop. *)

Reaches(s, at) ==
  /\ stop' = [stop EXCEPT ![s].at = at]
  /\ UNCHANGED <<loop, posting, posts, saidGoodbye>>

Stopping(s, at) == stop[s].at = at

\* stopOnce: the first caller stops the manager, others wait until it has.
Taken(s) ==
  \E r \in Stoppers \ {s} :
    /\ stop[r].of = stop[s].of
    /\ stop[r].at \notin {"none", "starting"}

CallStop(s) ==
  /\ Stopping(s, "none")
  /\ Reaches(s, "starting")
  /\ UNCHANGED <<commands, done>>

EnterOnce(s) ==
  /\ Stopping(s, "starting") /\ ~Taken(s)
  /\ Reaches(s, "offering")
  /\ UNCHANGED <<commands, done>>

\* Slip: the second caller does not wait for the first.
OnceIsOver_Slip(s) == Taken(s)

OnceIsOver(s) ==
  \E r \in Stoppers \ {s} :
    stop[r].of = stop[s].of /\ stop[r].at = "returned"

PassOnce(s) ==
  /\ Stopping(s, "starting") /\ OnceIsOver(s)
  /\ Reaches(s, "returned")
  /\ UNCHANGED <<commands, done>>

Offer(s) ==
  /\ Stopping(s, "offering") /\ CommandFits(stop[s].of)
  /\ commands' = [commands EXCEPT ![stop[s].of] = Append(@, "stop")]
  /\ Reaches(s, "awaiting")
  /\ UNCHANGED done

\* Slip: Stop waits for its command to be taken and run.
TimesOut_Slip(s) == FALSE

\* One second has passed.
TimesOut(s) == stop[s].at \in {"offering", "awaiting"}

GiveUp(s) ==
  /\ TimesOut(s)
  /\ Reaches(s, "closing")
  /\ UNCHANGED <<commands, done>>

SeeGoodbye(s) ==
  /\ Stopping(s, "awaiting") /\ stop[s].of \in saidGoodbye
  /\ Reaches(s, "closing")
  /\ UNCHANGED <<commands, done>>

CloseDone(s) ==
  /\ Stopping(s, "closing")
  /\ done' = done \cup {stop[s].of}
  /\ Reaches(s, "joining")
  /\ UNCHANGED commands

Join(s) ==
  /\ Stopping(s, "joining") /\ loop[stop[s].of] = "ended"
  /\ Reaches(s, "returned")
  /\ UNCHANGED <<commands, done>>

\* Proxy.Close goes on to the links.
NextStop ==
  /\ Stopping(Closer, "returned") /\ stop[Closer].of = Listening
  /\ stop' = [stop EXCEPT ![Closer] = [of |-> Link, at |-> "starting"]]
  /\ UNCHANGED <<commands, loop, posting, posts, done, saidGoodbye>>

StopStep(s) ==
  \/ EnterOnce(s) \/ PassOnce(s) \/ Offer(s) \/ GiveUp(s)
  \/ SeeGoodbye(s) \/ CloseDone(s) \/ Join(s)
  \/ s = Closer /\ NextStop

LoopsNext ==
  \/ \E m \in Managers : TakeEvent(m) \/ TakeCommand(m) \/ Finish(m) \/ EndLoop(m)
  \/ \E p \in Posters : PostEnds(p) \/ \E m \in Managers : Post(p, m)
  \/ \E s \in Stoppers : CallStop(s) \/ StopStep(s)

LoopsSpec == LoopsInit /\ [][LoopsNext]_loopVars

\* Handlers end but for their posts, and Stop's timers run.  What a select finds
\* ready again and again it takes some time, as it chooses at random.
LoopsFairness ==
  /\ \A m \in Managers :
       WF_loopVars(Finish(m)) /\ SF_loopVars(TakeCommand(m) \/ EndLoop(m))
  /\ \A p \in Posters : WF_loopVars(PostEnds(p))
  /\ \A s \in Stoppers : WF_loopVars(StopStep(s))

LoopsFairSpec == LoopsSpec /\ LoopsFairness

-----------------------------------------------------------------------------
(* Properties. *)

HasReturned(s, m) ==
  \/ stop[s].of = m /\ stop[s].at = "returned"
  \/ s = Closer /\ m = Listening /\ stop[s].of = Link

\* Once Stop has returned, to whichever caller, no handler of that manager
\* runs any more.  (Manager.Stop: stopOnce, closed.)
NoHandlerAfterStop ==
  \A s \in Stoppers, m \in Managers : HasReturned(s, m) => loop[m] = "ended"

\* A loop that waits for itself: it posts to its own full queue.
WaitsForItself(m) == posting[m] = m /\ ~CommandFits(m) /\ m \notin done

\* Stop returns, however full the queues are and even if the two loops wait
\* for each other or the manager's own for itself: it may only be kept waiting
\* by a loop that posts to the other manager while that waits for itself, and
\* as long as nobody stops the other.  (Manager.Stop, eventLoop and post.)
StopReturns ==
  \A s \in Stoppers, m \in Managers :
    (stop[s].of = m /\ stop[s].at # "none") ~>
      (HasReturned(s, m) \/ [](\E n \in Managers \ {m} : posting[m] = n /\ WaitsForItself(n)))

\* Once both managers are stopped nobody is left in a post.  (Manager.post.)
PostsEnd ==
  [](done = Managers => <>(\A p \in Posters : posting[p] = Nobody))
===============================================================================
