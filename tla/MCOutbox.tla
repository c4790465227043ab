------------------------------ MODULE MCOutbox ------------------------------
(***************************************************************************)
(* Small instances of Outbox for TLC.  The batch size of 10 is scaled down *)
(* to the number of events, so that a dispatcher can hold several rows.    *)
(***************************************************************************)
EXTENDS Outbox, TLC

CONSTANTS e1, e2, d1, d2

OneEvent == {e1}
TwoEvents == {e1, e2}
TwoDispatchers == {d1, d2}

Symmetry == Permutations(Event) \cup Permutations(Dispatcher)

=============================================================================
