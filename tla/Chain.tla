------------------------------- MODULE Chain -------------------------------
(***************************************************************************)
(* What the contracts of AvaSettle find on the chain: one ERC-20 token, a  *)
(* whitelisted stablecoin that moves exactly the amount it is told to, the *)
(* log of events, and the time of the block.  The token is not part of the *)
(* repository; it is modelled from the calls the contracts make.           *)
(***************************************************************************)
EXTENDS Naturals, Bags, FiniteSetsExt

CONSTANTS
  Account  \* addresses that hold the token or spend it for others

VARIABLES
  ledger,  \* the token's balances and allowances
  logs,    \* the bag of the events that were emitted
  now      \* block.timestamp

chainVars == <<ledger, logs, now>>

Ledger == [balance: [Account -> Nat], allowance: [Account \X Account -> Nat]]

\* The ledger after a transfer.
Transferred(l, from, to, amount) ==
  LET taken == [l.balance EXCEPT ![from] = @ - amount]
  IN [l EXCEPT !.balance = [taken EXCEPT ![to] = @ + amount]]

\* transferFrom does not revert.
CanPull(l, spender, from, amount) ==
  /\ l.balance[from] >= amount
  /\ l.allowance[<<from, spender>>] >= amount

\* The ledger after transferFrom.
Pulled(l, spender, from, to, amount) ==
  [Transferred(l, from, to, amount) EXCEPT
     !.allowance = [l.allowance EXCEPT ![<<from, spender>>] = @ - amount]]

\* The ledger after approve, or after a permit of the owner.
Approved(l, owner, spender, amount) ==
  [l EXCEPT !.allowance[<<owner, spender>>] = amount]

\* Every kind of event has these fields; batch is null where there is none.
Emits(events) == logs' = logs (+) events
EmitsOne(event) == Emits(SetToBag({event}))

\* What the events of a set of logs add up to.
SumOf(events) == MapThenSumSet(LAMBDA e : e.amount * logs[e], events)

=============================================================================
