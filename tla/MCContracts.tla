---------------------------- MODULE MCContracts ----------------------------
(***************************************************************************)
(* A small instance of Contracts for TLC: one payer, two accounts that     *)
(* take turns as treasury and as funder, and a beneficiary.                *)
(***************************************************************************)
EXTENDS Contracts

CONSTANTS p1, t1, t2, o1, router, vault, r1, b1

Accounts == {p1, t1, t2, router, vault}
Treasuries == {t1, t2}
OneFunds == [a \in Accounts |-> CASE a = p1 -> 2 [] a = t1 -> 3 [] OTHER -> 0]
OneRef == {r1}
OneBatch == {b1}
Amounts == 0 .. 2
FunderAllowances == {1, 3}
Deadlines == {0, 1}
OnePayer == {p1}
OneOperator == {o1}
ToPayer == {p1}

\* No legs, two legs that are the same, another batch, and one too large.
Batches ==
  {<< >>,
   <<[to |-> p1, amount |-> 1], [to |-> p1, amount |-> 1]>>,
   <<[to |-> t2, amount |-> 1]>>,
   <<[to |-> p1, amount |-> 1], [to |-> p1, amount |-> 1], [to |-> p1, amount |-> 1]>>}

=============================================================================
