---------------------------- MODULE SequenceNumbers ----------------------------
(***************************************************************************)
(* Sequence numbers of internal/litenetlib: they are counted modulo        *)
(* MaxSequence and compared by their signed distance (const.go).           *)
(***************************************************************************)
EXTENDS Integers

CONSTANT MaxSequence   \* 32768 in the code

ASSUME NumbersHalve == MaxSequence \in Nat \ {0} /\ MaxSequence % 2 = 0

HalfMaxSequence == MaxSequence \div 2

Seqs == 0..MaxSequence - 1

Plus(seq, n) == (seq + n) % MaxSequence

\* relativeSequence: the signed distance from expected to number.
Relative(number, expected) ==
  ((number - expected + MaxSequence + HalfMaxSequence) % MaxSequence) - HalfMaxSequence
=============================================================================
