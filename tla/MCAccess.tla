------------------------------ MODULE MCAccess ------------------------------
(***************************************************************************)
(* A small instance of Access for TLC.  The throttle is followed for one   *)
(* key on one instance; buckets do not touch each other.  One lookup at a *)
(* time is enough: requests that hit the cache need no slot.               *)
(***************************************************************************)
EXTENDS Access

CONSTANTS i1, i2, c1, k1, k2, s1

TwoInstances == {i1, i2}
OneClient == {c1}
TwoKeys == {k1, k2}
OneSlot == {s1}
OneBucket == {<<i1, k1>>}

=============================================================================
