----------------------------- MODULE Connections -----------------------------
(***************************************************************************)
(* What the managers of internal/litenetlib at the two ends of a pair of   *)
(* addresses promise their handlers: OnPeerConnected and                   *)
(* OnPeerDisconnected alternate, the client hears of a connection only     *)
(* after the server has, and if the two ends disagree for long, those that *)
(* believe in a connection hear of its end.                                *)
(***************************************************************************)
CONSTANTS Client, Server, Attempts, NoAttempt

Ends     == {Client, Server}
Other(e) == IF e = Client THEN Server ELSE Client

VARIABLES
  open,      \* end -> the attempt whose connection it has been told of
  accepted   \* attempts the server has been told of

vars == <<open, accepted>>

Init ==
  /\ open = [e \in Ends |-> NoAttempt]
  /\ accepted = {}

Accept(t) ==
  /\ open[Server] = NoAttempt
  /\ open' = [open EXCEPT ![Server] = t]
  /\ accepted' = accepted \cup {t}

Establish(t) ==
  /\ open[Client] = NoAttempt
  /\ t \in accepted
  /\ open' = [open EXCEPT ![Client] = t]
  /\ UNCHANGED accepted

Close(e) ==
  /\ open[e] # NoAttempt
  /\ open' = [open EXCEPT ![e] = NoAttempt]
  /\ UNCHANGED accepted

Next ==
  \/ \E t \in Attempts : Accept(t) \/ Establish(t)
  \/ \E e \in Ends : Close(e)

HalfOpen(e) == open[e] # NoAttempt /\ open[Other(e)] # open[e]

Spec == Init /\ [][Next]_vars /\ \A e \in Ends : WF_vars(HalfOpen(e) /\ Close(e))
=============================================================================
