--------------------------- MODULE SessionCounts ---------------------------
(***************************************************************************)
(* The admission counters of internal/security/gate.go, as operators on    *)
(* values: sessions is a function from addresses to counts (an address     *)
(* absent from the Go map reads as 0) and total is a number.  Gate and     *)
(* Proxy share them.  Definitions named ..._Slip are plausible mistakes,   *)
(* kept beside what they would replace; nothing uses them.                 *)
(***************************************************************************)
EXTENDS Integers

CONSTANTS MaxSessionsPerIP, MaxSessions   \* 0 means unlimited

ASSUME CapsAreNaturals == MaxSessionsPerIP \in Nat /\ MaxSessions \in Nat

\* Slip: one session too many.
PerIPFull_Slip(sessions, ip) == MaxSessionsPerIP > 0 /\ sessions[ip] > MaxSessionsPerIP

PerIPFull(sessions, ip) == MaxSessionsPerIP > 0 /\ sessions[ip] >= MaxSessionsPerIP

\* Slip: one session too many.
ServerFull_Slip(total) == MaxSessions > 0 /\ total > MaxSessions

ServerFull(total) == MaxSessions > 0 /\ total >= MaxSessions

Acquired(sessions, ip) == [sessions EXCEPT ![ip] = @ + 1]

\* Release deletes an entry of 0 or 1 and never goes below zero.
Released(sessions, ip) == [sessions EXCEPT ![ip] = IF @ <= 1 THEN 0 ELSE @ - 1]

\* Slip: no clamp at zero.
ReleasedTotal_Slip(total) == total - 1

ReleasedTotal(total) == IF total > 0 THEN total - 1 ELSE 0
=============================================================================
