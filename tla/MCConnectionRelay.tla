-------------------------- MODULE MCConnectionRelay --------------------------
(***************************************************************************)
(* What must end, in two places in one run, each on its own: a connection  *)
(* whose other end is gone, or the pumps of a session that is closed.      *)
(* What the run is about is chosen at the start, and the other stands      *)
(* still.                                                                  *)
(***************************************************************************)
EXTENDS Connection, Relay

CONSTANTS ToClient, ToServer

InFlight == [e \in Ends |-> IF e = Client THEN ToClient ELSE ToServer]

VARIABLE part

MCInit ==
  /\ part \in {"connection", "relay"}
  /\ Init /\ (part = "relay" => compatible)
  /\ RelayInit

MCNext ==
  /\ UNCHANGED part
  /\ \/ part = "connection" /\ Next /\ UNCHANGED relayVars
     \/ part = "relay" /\ RelayNext /\ UNCHANGED vars

\* Fairness and RelayFairness, of the half the run is about.
MCFairness ==
  /\ \A e \in Ends :
       /\ WF_vars(part = "connection" /\ Update(e))
       /\ SF_vars(part = "connection" /\ HearOfEnd(e))
       /\ WF_vars(part = "connection" /\ Lose(e, Plain("Traffic")))
  /\ \A d \in Dir : WF_relayVars(part = "relay" /\ PumpStep(d))
  /\ \A g \in Closer : WF_relayVars(part = "relay" /\ ClosingStep(g))

MCSpec == MCInit /\ [][MCNext]_<<part, vars, relayVars>> /\ MCFairness
=============================================================================
