------------------------------- MODULE MCProxy -------------------------------
(***************************************************************************)
(* Instances of Proxy: one or two clients, always behind one IP address,   *)
(* and one or two backends.                                                *)
(***************************************************************************)
EXTENDS Proxy, TLC

CONSTANTS c1, c2, i1, main, events

OneClient  == {c1}
TwoClients == {c1, c2}
Neighbours == Permutations(TwoClients)   \* clients behind one address are alike
OneIP      == {i1}
HomeOfOne  == [c \in OneClient |-> i1]
HomeOfTwo  == [c \in TwoClients |-> i1]
OneBackend  == {main}
TwoBackends == {main, events}
MainOnly    == <<main>>
MainFirst   == <<main, events>>
=============================================================================
