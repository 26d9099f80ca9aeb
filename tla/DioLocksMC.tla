----------------------------- MODULE DioLocksMC -----------------------------
(* A small instance of DioLocks: a process with two resources on the file,    *)
(* and another one.  The two are alike, and so are descriptions.              *)
EXTENDS DioLocks, TLC

CONSTANTS a, b, c, p, q, d, e

OwnerDef == [h \in Handle |-> IF h = c THEN q ELSE p]

PositionsDef == {-1, 0, 1}

LengthsDef == {-1, 0, 1}

Symmetry == Permutations({a, b}) \union Permutations(Desc)
=============================================================================
