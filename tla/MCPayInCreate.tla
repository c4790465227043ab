--------------------------- MODULE MCPayInCreate ---------------------------
(***************************************************************************)
(* Small instances of PayInCreate for TLC.  There are as many UUIDs as     *)
(* requests, so that every request could make a pay-in of its own.         *)
(***************************************************************************)
EXTENDS PayInCreate, TLC

CONSTANTS c1, c2, x1, x2, k1, s1, s2, i1, i2, i3

TwoClients == {c1, c2}
TwoExternalIds == {x1, x2}
OneKey == {k1}
TwoSlots == {s1, s2}
ThreeIds == {i1, i2, i3}

Symmetry == Permutations(Client) \cup Permutations(ExternalId)
              \cup Permutations(Slot) \cup Permutations(Id)

=============================================================================
