--------------------------- MODULE MCSettlements ---------------------------
(***************************************************************************)
(* Small instances of Settlements for TLC.  One externalId is enough: it   *)
(* is the only thing that requests and clients can share.                  *)
(***************************************************************************)
EXTENDS Settlements

CONSTANTS c1, c2, x1, s1, s2

TwoClients == {c1, c2}
OneExternalId == {x1}
BothModes == {TRUE, FALSE}
TwoSlots == {s1, s2}

=============================================================================
