----------------------------- MODULE MCPtlTask -----------------------------
(***************************************************************************)
(* Instances of PtlTask for TLC.                                           *)
(***************************************************************************)
EXTENDS PtlTask

CONSTANTS t1, t2, r1, r2, s1, s2, g1, u1, u2

\* Two rows of one SKU in two locations; one user looks for the SKU, the other for
\* what lies in the second location.
TwoSpots == [r \in Stocked |-> IF r = r1 THEN s1 ELSE s2]
OneGood == [r \in Stocked |-> g1]
Overlapping ==
  [t \in Task |-> IF t = t1 THEN [user |-> u1, good |-> g1, spots |-> {}, filed |-> g1]
                  ELSE [user |-> u2, good |-> NoStock, spots |-> {s2}, filed |-> g1]]
=============================================================================
