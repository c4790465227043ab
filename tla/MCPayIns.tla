------------------------------ MODULE MCPayIns ------------------------------
(***************************************************************************)
(* Small instances of PayIns for TLC.  The overlap of 30 blocks is scaled  *)
(* down to 1 or 2, with chains a few times as high.                        *)
(***************************************************************************)
EXTENDS PayIns, TLC

CONSTANTS r1, r2, t1, t2

TwoReqs == {r1, r2}
OneReq == {r1}
TwoTxs == {t1, t2}
OneEach == [t \in Tx |-> 1]
NoneAndTwo == [t \in Tx |-> IF t = t1 THEN 0 ELSE 2]
OneIndex == {1}
TwoIndexes == {1, 2}

Symmetry == Permutations(Req)

=============================================================================
