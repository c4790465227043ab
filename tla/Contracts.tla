----------------------------- MODULE Contracts -----------------------------
(***************************************************************************)
(* PaymentRouter and SettlementVault on one chain: what invoices bring to  *)
(* the treasury, payouts take from it.  Payers, operators, owners and the  *)
(* funder call the contracts in any order.                                 *)
(***************************************************************************)
EXTENDS PaymentRouter, SettlementVault

CONSTANTS
  Payer,       \* accounts that pay invoices
  Recipient,   \* beneficiaries of single payouts
  Allowances,  \* allowances that a funder grants
  Funds,       \* the balances in the beginning
  MaxTime,     \* bound: the last timestamp
  MaxGrants,   \* bound: allowances granted
  MaxChanges   \* bound: calls of the owners

ASSUME ContractsAssumption ==
  /\ Router # Vault
  /\ Payer \cup Recipient \subseteq Account
  /\ Allowances \subseteq Nat
  /\ Funds \in [Account -> Nat]
  /\ {MaxTime, MaxGrants, MaxChanges} \subseteq Nat
  /\ MaxTime >= 1

VARIABLES
  grants,   \* number of allowances granted
  changes   \* number of calls of the owners

vars == <<chainVars, routerVars, vaultVars, grants, changes>>

TypeOK ==
  /\ ledger \in Ledger
  /\ IsABag(logs)
  /\ now \in 1 .. MaxTime
  /\ RouterTypeOK
  /\ VaultTypeOK
  /\ grants \in 0 .. MaxGrants
  /\ changes \in 0 .. MaxChanges

Init ==
  /\ ledger = [balance |-> Funds, allowance |-> [a \in Account \X Account |-> 0]]
  /\ logs = EmptyBag
  /\ now = 1
  /\ RouterInit
  /\ VaultInit
  /\ grants = 0
  /\ changes = 0

---------------------------------------------------------------------------
(* Callers *)

Grants ==
  /\ grants < MaxGrants
  /\ grants' = grants + 1

\* approve; also a permit that someone hands in before the payer's call.
Approve(a, spender, amount) ==
  /\ Grants
  /\ ledger' = Approved(ledger, a, spender, amount)
  /\ UNCHANGED <<logs, now, routerVars, vaultVars, changes>>

\* A transfer to the router by mistake.
StrayTransfer(a, amount) ==
  /\ ledger.balance[a] >= amount
  /\ ledger' = Transferred(ledger, a, Router, amount)
  /\ EmitsOne([event |-> "Transfer", id |-> None, batch |-> None,
               from |-> a, to |-> Router, amount |-> amount])
  /\ UNCHANGED <<now, routerVars, vaultVars, grants, changes>>

Payment(p) ==
  /\ \E ref \in Ref, amount \in Amount :
       \/ PayInvoice(p, ref, amount) /\ UNCHANGED grants
       \/ PayInvoiceWithPermit(p, ref, amount, FALSE) /\ UNCHANGED grants
       \/ PayInvoiceWithPermit(p, ref, amount, TRUE) /\ Grants
       \/ \E deadline \in Deadline :
            PayInvoiceWithExpiry(p, ref, amount, deadline) /\ UNCHANGED grants
  /\ UNCHANGED <<vaultVars, changes>>

Operation(o) ==
  /\ \E ref \in PayoutRef :
       \/ \E to \in Recipient, amount \in Amount : Payout(o, ref, to, amount)
       \/ \E legs \in Legs : PayoutBatch(o, ref, legs)
  /\ UNCHANGED <<routerVars, grants, changes>>

RouterChange ==
  /\ changes < MaxChanges
  /\ changes' = changes + 1
  /\ \/ \E t \in Treasury : SetTreasury(t)
     \/ \E supported \in BOOLEAN, minimum \in Amount :
          SetTokenSupported(supported, minimum)
     \/ PauseRouter
     \/ UnpauseRouter
     \/ \E t \in Treasury, amount \in Amount \ {0} : EmergencyWithdraw(t, amount)
  /\ UNCHANGED <<vaultVars, grants>>

VaultChange ==
  /\ changes < MaxChanges
  /\ changes' = changes + 1
  /\ \/ \E f \in Funder : SetFunder(f)
     \/ \E o \in Operator, allowed \in BOOLEAN : SetOperator(o, allowed)
     \/ \E supported \in BOOLEAN : SetVaultTokenSupported(supported)
     \/ PauseVault
     \/ UnpauseVault
  /\ UNCHANGED <<routerVars, grants>>

Tick ==
  /\ now < MaxTime
  /\ now' = now + 1
  /\ UNCHANGED <<ledger, logs, routerVars, vaultVars, grants, changes>>

Next ==
  \/ \E p \in Payer : Payment(p)
  \/ \E o \in Operator : Operation(o)
  \/ \E p \in Payer, amount \in Amount \ {0} :
       Approve(p, Router, amount) \/ StrayTransfer(p, amount)
  \/ \E f \in Funder, amount \in Allowances : Approve(f, Vault, amount)
  \/ RouterChange
  \/ VaultChange
  \/ Tick

Spec == Init /\ [][Next]_vars

---------------------------------------------------------------------------
(* Properties *)

Emitted == BagToSet(logs)
Copies(events) == MapThenSumSet(LAMBDA e : logs[e], events)

\* The logs account for every unit: what an account holds is what it began
\* with, and what InvoicePaid, PayoutExecuted, EmergencyWithdraw and stray
\* transfers say it got and gave.  Reconciliation reads nothing but the logs;
\* so the treasury of the event is the one that was paid, also around
\* setTreasury, and the router itself holds strays only.
LogsAccountForFunds ==
  \A a \in Account :
    ledger.balance[a] + SumOf({e \in Emitted : e.from = a})
      = Funds[a] + SumOf({e \in Emitted : e.to = a})

\* An invoice is paid once and a payout is executed once, whichever of the
\* entry points is called and however often: a single payout, a leg of a
\* batch, with a permit, with an expiry.
EachOnce ==
  /\ \A id \in Invoices :
       Copies({e \in Emitted : e.event = "InvoicePaid" /\ e.id = id})
         = IF id \in invoicePaid THEN 1 ELSE 0
  /\ \A id \in payoutExecuted :
       Copies({e \in Emitted : e.event = "PayoutExecuted" /\ e.id = id}) = 1

\* A batch pays all of its legs or none, and a reference pays one batch only,
\* whatever legs a later call comes with.
BatchAllOrNothing ==
  \A ref \in PayoutRef :
    LET paid == {e \in Emitted : e.event = "PayoutExecuted" /\ e.batch = ref}
    IN IF ref \in batchExecuted
         THEN \E legs \in Legs :
                /\ Copies(paid) = Len(legs)
                /\ {[to |-> e.to, amount |-> e.amount] : e \in paid} = ToSet(legs)
         ELSE paid = {}

\* An invoice with an expiry that is not paid when its deadline has passed is
\* never paid, nor can a payment of another invoice stand in for it.
ExpiryHolds ==
  [][\A id \in Invoices :
       id.deadline \notin {None, 0} /\ now > id.deadline /\ id \notin invoicePaid
         => id \notin invoicePaid']_vars

=============================================================================
