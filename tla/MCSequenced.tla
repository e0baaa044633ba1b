----------------------------- MODULE MCSequenced -----------------------------
(* An instance of SequencedChannel; the invariant of the proofs can be      *)
(* checked here too.                                                        *)
EXTENDS SequencedChannel_proofs
=============================================================================
