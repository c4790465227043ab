---------------------------- MODULE MCPayInSweep ----------------------------
(***************************************************************************)
(* A small instance of PayInSweep for TLC: a request against two ticks of  *)
(* the job, a payment in two parts, and two sweep transactions.            *)
(***************************************************************************)
EXTENDS PayInSweep, TLC

CONSTANTS r1, t1, t2, h1, h2

OneReq == {r1}
TwoTicks == {t1, t2}
TwoHashes == {h1, h2}
BothModes == {"derived-address", "payment-router"}
OnePart == {1}

=============================================================================
