-------------------------- MODULE ReliableDelivery --------------------------
(***************************************************************************)
(* What a reliable channel of internal/litenetlib promises the user of     *)
(* Peer.send: every message handed in is handed out once, in order if the  *)
(* channel is ordered.  A message is named by its place among those        *)
(* handed in.                                                              *)
(***************************************************************************)
EXTENDS Integers, Sequences, Functions

CONSTANT MaxMessages   \* bound on the messages handed in

VARIABLES ordered, sent, delivered

vars == <<ordered, sent, delivered>>

Init ==
  /\ ordered \in BOOLEAN
  /\ sent = 0
  /\ delivered = <<>>

Send ==
  /\ sent < MaxMessages
  /\ sent' = sent + 1
  /\ UNCHANGED <<ordered, delivered>>

Outstanding == (1..sent) \ Range(delivered)

\* One message that fills a gap may bring others with it.
DeliverOrdered ==
  /\ ordered
  /\ \E n \in Len(delivered) + 1 .. sent : delivered' = [i \in 1..n |-> i]
  /\ UNCHANGED <<ordered, sent>>

DeliverUnordered ==
  /\ ~ordered
  /\ \E m \in Outstanding : delivered' = Append(delivered, m)
  /\ UNCHANGED <<ordered, sent>>

Deliver == DeliverOrdered \/ DeliverUnordered

Next == Send \/ Deliver

Spec == Init /\ [][Next]_vars /\ WF_vars(Deliver)
=============================================================================
