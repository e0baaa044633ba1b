---------------------------- MODULE NewestDelivery ----------------------------
(***************************************************************************)
(* What a sequenced channel of internal/litenetlib promises the user of    *)
(* Peer.send: what is handed out is always newer than everything handed    *)
(* out before, and a reliable one does not keep the newest message back.   *)
(* A message is named by its place among those handed in.                  *)
(***************************************************************************)
EXTENDS Integers

CONSTANT MaxMessages   \* bound on the messages handed in

VARIABLES
  reliable,
  sent,     \* messages handed in
  newest,   \* the message handed out last, 0 before the first
  handed    \* how many have been handed out

vars == <<reliable, sent, newest, handed>>

Init ==
  /\ reliable \in BOOLEAN
  /\ sent = 0
  /\ newest = 0
  /\ handed = 0

Send ==
  /\ sent < MaxMessages
  /\ sent' = sent + 1
  /\ UNCHANGED <<reliable, newest, handed>>

\* Messages in between are skipped for good.
Deliver ==
  /\ newest' \in newest + 1 .. sent
  /\ handed' = handed + 1
  /\ UNCHANGED <<reliable, sent>>

Next == Send \/ Deliver

Spec == Init /\ [][Next]_vars /\ WF_vars(reliable /\ Deliver)
=============================================================================
