--------------------------- MODULE PaymentRouter ---------------------------
(***************************************************************************)
(* The contract PaymentRouter.  A call that reverts changes nothing and is *)
(* no step.  nonReentrant adds nothing: a call is one step.                *)
(***************************************************************************)
EXTENDS Chain

CONSTANTS
  Router,    \* the address of the contract
  Treasury,  \* addresses the owner may make the treasury
  Ref,       \* invoice references, none of them zero
  Amount,    \* amounts of calls, zero may be among them
  Deadline,  \* deadlines of calls, zero may be among them
  None

ASSUME RouterAssumption ==
  /\ Router \in Account
  /\ Treasury \subseteq Account \ {Router}
  /\ Amount \subseteq Nat
  /\ Deadline \subseteq Nat
  /\ None \notin Deadline

VARIABLES
  treasury,
  tokenSupported,  \* supportedTokens[token]
  minAmount,       \* minAmount[token]
  routerPaused,    \* Pausable
  invoicePaid

routerVars == <<treasury, tokenSupported, minAmount, routerPaused, invoicePaid>>

\* computeInvoiceId and computeInvoiceIdWithExpiry: hashes of three and of
\* four values, and so never the same.
InvoiceId(ref, amount, deadline) ==
  [ref |-> ref, amount |-> amount, deadline |-> deadline]

Invoices ==
  [ref: Ref, amount: Amount, deadline: Deadline \cup {None}]

RouterTypeOK ==
  /\ treasury \in Treasury
  /\ tokenSupported \in BOOLEAN
  /\ minAmount \in Nat
  /\ routerPaused \in BOOLEAN
  /\ invoicePaid \in SUBSET Invoices

RouterInit ==
  /\ treasury \in Treasury
  /\ tokenSupported = TRUE
  /\ minAmount = 0
  /\ routerPaused = FALSE
  /\ invoicePaid = {}

---------------------------------------------------------------------------
(* Payments *)

\* The checks of _settle.
PayableAgain(id) ==
  /\ tokenSupported
  /\ id.amount # 0
  /\ minAmount > 0 => id.amount >= minAmount
Payable(id) ==
  /\ PayableAgain(id)
  /\ id \notin invoicePaid

\* The payer's tokens go to the treasury, and do not rest here.
CollectedHere(l, payer, amount) == Pulled(l, Router, payer, Router, amount)
Collected(l, payer, amount) == Pulled(l, Router, payer, treasury, amount)

\* _settle, from the ledger that the permit has left.
Settle(l, payer, id) ==
  /\ ~routerPaused
  /\ Payable(id)
  /\ CanPull(l, Router, payer, id.amount)
  /\ invoicePaid' = invoicePaid \cup {id}
  /\ ledger' = Collected(l, payer, id.amount)
  /\ EmitsOne([event |-> "InvoicePaid", id |-> id, batch |-> None,
               from |-> payer, to |-> treasury, amount |-> id.amount])
  /\ UNCHANGED <<treasury, tokenSupported, minAmount, routerPaused, now>>

PayInvoice(payer, ref, amount) ==
  Settle(ledger, payer, InvoiceId(ref, amount, None))

\* The permit is in a try block: a signature that is used up, forged or late
\* is passed over, and the payment goes on with the allowance there is.
AfterPermitRequired(payer, amount, valid) ==
  Approved(ledger, payer, Router, IF valid THEN amount ELSE 0)
AfterPermit(payer, amount, valid) ==
  IF valid THEN Approved(ledger, payer, Router, amount) ELSE ledger

PayInvoiceWithPermit(payer, ref, amount, valid) ==
  Settle(AfterPermit(payer, amount, valid), payer, InvoiceId(ref, amount, None))

\* The deadline is part of the id and is checked; zero is no deadline.
InTime(deadline) == deadline = 0 \/ now <= deadline

PayInvoiceWithExpiry(payer, ref, amount, deadline) ==
  /\ InTime(deadline)
  /\ Settle(ledger, payer, InvoiceId(ref, amount, deadline))

---------------------------------------------------------------------------
(* The owner *)

SetTreasury(t) ==
  /\ treasury' = t
  /\ UNCHANGED <<chainVars, tokenSupported, minAmount, routerPaused, invoicePaid>>

SetTokenSupported(supported, minimum) ==
  /\ tokenSupported' = supported
  /\ minAmount' = minimum
  /\ UNCHANGED <<chainVars, treasury, routerPaused, invoicePaid>>

PauseRouter ==
  /\ ~routerPaused
  /\ routerPaused' = TRUE
  /\ UNCHANGED <<chainVars, treasury, tokenSupported, minAmount, invoicePaid>>

UnpauseRouter ==
  /\ routerPaused
  /\ routerPaused' = FALSE
  /\ UNCHANGED <<chainVars, treasury, tokenSupported, minAmount, invoicePaid>>

\* Also while the contract is paused.
EmergencyWithdraw(to, amount) ==
  /\ ledger.balance[Router] >= amount
  /\ ledger' = Transferred(ledger, Router, to, amount)
  /\ EmitsOne([event |-> "EmergencyWithdraw", id |-> None, batch |-> None,
               from |-> Router, to |-> to, amount |-> amount])
  /\ UNCHANGED <<now, routerVars>>

=============================================================================
