----------------------------- MODULE MCPayouts -----------------------------
(***************************************************************************)
(* Small instances of Payouts for TLC.  One hash more than payouts leaves  *)
(* room for a double broadcast to happen.                                  *)
(***************************************************************************)
EXTENDS Payouts, TLC

CONSTANTS p1, p2, r1, r2, h1, h2, h3

TwoPayouts == {p1, p2}
OneReq == {r1}
TwoReqs == {r1, r2}
TwoHashes == {h1, h2}
ThreeHashes == {h1, h2, h3}

Symmetry == Permutations(Payout) \cup Permutations(Req) \cup Permutations(Hash)

=============================================================================
