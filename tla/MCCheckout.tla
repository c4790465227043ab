---------------------------- MODULE MCCheckout -----------------------------
(***************************************************************************)
(* A small instance of Checkout for TLC: one session in two tabs.          *)
(***************************************************************************)
EXTENDS Checkout

CONSTANTS payer, treasuryAccount, router, s1, tab1, tab2

Accounts == {payer, treasuryAccount, router}
OneTreasury == {treasuryAccount}
OneSession == {s1}
TwoTabs == {tab1, tab2}
\* A minimum may be more than the price, and what is spent elsewhere too.
Amounts == {1, 2}
NoDeadline == {}

=============================================================================
