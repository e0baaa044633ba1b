-------------------------- MODULE MCGateConnection ---------------------------
(***************************************************************************)
(* Who gets in, at two places in one run, each on its own: one address     *)
(* against the bucket, the block and the cap of the gate, or two ends that *)
(* set up a connection.  What the run is about is chosen at the start, and *)
(* the other place stands still.                                           *)
(***************************************************************************)
EXTENDS Gate_proofs, Connection

CONSTANTS i1, ToClient, ToServer

OneAddress == {i1}
InFlight   == [e \in Ends |-> IF e = Client THEN ToClient ELSE ToServer]

VARIABLE part

MCInit ==
  /\ part \in {"gate", "connection"}
  /\ GateInit /\ (part = "connection" => since = 0)
  /\ Init /\ (part = "gate" => compatible)

MCNext ==
  /\ UNCHANGED part
  /\ \/ part = "gate" /\ GateNext /\ UNCHANGED vars
     \/ part = "connection" /\ Next /\ UNCHANGED gateVars

MCSpec == MCInit /\ [][MCNext]_<<part, gateVars, vars>>
=============================================================================
