----------------------------- MODULE MCLifecycle -----------------------------
(***************************************************************************)
(* Small instances of Lifecycle: connections c1, c2 and c3 of client A, b  *)
(* of client B, and n of a client without an id.                           *)
(***************************************************************************)
EXTENDS Lifecycle, TLC

CONSTANTS A, B, b, n

MCClientOf == [c \in Conns |-> IF c = n THEN Anonymous ELSE IF c = b THEN B ELSE A]

MCSymmetry == Permutations(Conns \ {b, n})
=============================================================================
