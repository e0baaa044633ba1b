------------------------------ MODULE Backends ------------------------------
(***************************************************************************)
(* The backend pool of internal/proxy/backend.go as operators on a value:  *)
(* a function from backends to their state.  Every method of the pool runs *)
(* under its mutex, so a caller applies one operator in one step.          *)
(* rested says that nextProbe lies in the past.                            *)
(* Definitions named ..._Slip are plausible mistakes; nothing uses them.   *)
(***************************************************************************)
EXTENDS Integers, Sequences

CONSTANTS
  Backend, NoBackend,
  BackendOrder,     \* the backends by ascending priority
  HealthFailures    \* failures in a row that mark a backend as down

ASSUME OrderListsBackends ==
  /\ BackendOrder \in Seq(Backend)
  /\ \A b \in Backend : \E i \in 1..Len(BackendOrder) : BackendOrder[i] = b
  /\ NoBackend \notin Backend
ASSUME ThresholdIsPositive == HealthFailures \in Nat \ {0}

BackendState ==
  [enabled : BOOLEAN, healthy : BOOLEAN, rested : BOOLEAN, failures : Nat, players : Nat]

NewPool ==
  [b \in Backend |->
     [enabled |-> TRUE, healthy |-> TRUE, rested |-> TRUE, failures |-> 0, players |-> 0]]

Usable(pool, b) == pool[b].enabled /\ (pool[b].healthy \/ pool[b].rested)

FirstUsable(pool) ==
  LET usable == {i \in 1..Len(BackendOrder) : Usable(pool, BackendOrder[i])}
  IN  IF usable = {} THEN NoBackend
      ELSE BackendOrder[CHOOSE i \in usable : \A j \in usable : i <= j]

\* A preferred backend is taken even when it is down, unless it is disabled.
Pick(pool, preferred) ==
  IF preferred = NoBackend THEN FirstUsable(pool)
  ELSE IF pool[preferred].enabled THEN preferred
  ELSE NoBackend

\* Slip: the failures in a row are not forgotten.
MarkSuccess_Slip(pool, b) == [pool EXCEPT ![b].healthy = TRUE]

MarkSuccess(pool, b) ==
  [pool EXCEPT ![b].failures = 0, ![b].healthy = TRUE]

MarkFailure(pool, b) ==
  [pool EXCEPT ![b].failures = @ + 1,
               ![b].rested   = FALSE,
               ![b].healthy  = @ /\ pool[b].failures + 1 < HealthFailures]

AddPlayer(pool, b) == [pool EXCEPT ![b].players = @ + 1]

\* The count is clamped at zero.
RemovePlayer(pool, b) == [pool EXCEPT ![b].players = IF @ > 0 THEN @ - 1 ELSE 0]

SetEnabled(pool, b, on) == [pool EXCEPT ![b].enabled = on]

ProbeDue(pool, b) == [pool EXCEPT ![b].rested = TRUE]
=============================================================================
