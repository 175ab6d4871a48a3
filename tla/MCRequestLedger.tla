--------------------------- MODULE MCRequestLedger ---------------------------
(* Instances of RequestLedger for TLC: a Run's scope, the same Run rotated *)
(* to a new Browser session epoch, its human epoch, and the scope of the   *)
(* Run that follows.                                                       *)
EXTENDS RequestLedger, TLC

CONSTANTS a1, a2, a3, b1, ra, rb, n1, n2, i1, i2, i3

MCRunOf == [s \in Scopes |-> IF s = b1 THEN rb ELSE ra]
MCNavigationOf == [s \in Scopes |-> IF s = a1 \/ s = a3 THEN n1 ELSE n2]

\* Request ids are only compared for equality.
IdSymmetry == Permutations(Ids)
=============================================================================
