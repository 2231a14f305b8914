----------------------------- MODULE MCFileSync -----------------------------
(* Instances of FileSync for TLC: three bodies, two of them of one size.     *)
EXTENDS FileSync, TLC

CONSTANTS b1, b2, b3

MCSize == [b \in Body |-> IF b = b3 THEN 2 ELSE 1]

\* The two bodies of one size are interchangeable; only safety runs use this.
SameSize == Permutations({b1, b2})
=============================================================================
