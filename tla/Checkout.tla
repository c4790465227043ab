------------------------------ MODULE Checkout ------------------------------
(***************************************************************************)
(* The hosted checkout: the page (checkout.ts) in several tabs of one      *)
(* payer, the public API behind it, the payer's wallet, and the            *)
(* PaymentRouter contract that is paid.  A page runs pay() and poll() at   *)
(* the same time, a step for each await, and may be loaded again whenever  *)
(* the payer likes.  Meanwhile time passes, the owner changes the router,  *)
(* and the payer uses the token elsewhere.                                 *)
(***************************************************************************)
EXTENDS PaymentRouter, Sequences

CONSTANTS
  Customer,          \* the payer's account
  Tab,               \* pages that the payer has open
  Session,           \* ids of checkout sessions, which name their invoice too
  Price,             \* session.amountAtomic
  Purse,             \* what the payer has in the beginning
  PermitTTL,         \* how long a permit is good for, an hour in the code
  HasPermit,         \* the token supports EIP-2612 and EIP-5267
  DemoEnabled,       \* config.demoEnabled
  MinConfirmations,
  MaxPolls,          \* the cap of the loop in poll(), 60 in the code
  MaxBoots,          \* bound: how often pages are loaded
  MaxMishaps,        \* bound: failed calls, refused prompts and time-outs, calls
                     \* of the owner, and of the payer elsewhere
  MaxClock           \* bound: the last timestamp

ASSUME CheckoutAssumption ==
  /\ Customer \in Account \ ({Router} \cup Treasury)
  /\ Session \subseteq Ref
  /\ Price \in Amount \ {0}
  /\ {HasPermit, DemoEnabled} \subseteq BOOLEAN
  /\ {Purse, PermitTTL, MinConfirmations} \subseteq Nat
  /\ {MaxPolls, MaxBoots, MaxMishaps, MaxClock} \subseteq Nat
  /\ MaxPolls > 0 /\ MaxClock > 0

VARIABLES
  server,  \* the status of each session's pay-in
  depth,   \* blocks on top of the one that pays a session, up to what counts
  nonce,   \* the token's permit nonce of the payer
  txs,     \* the payer's transactions, in the order of their nonces
  page,    \* the state of each page
  boots, mishaps,
  outside  \* what the payer spent elsewhere, and whether the allowance or the
           \* permit nonce was touched there

pageVars == <<boots, mishaps, outside>>
checkoutVars == <<chainVars, routerVars, server, depth, nonce, txs, page, pageVars>>

---------------------------------------------------------------------------
(* Types *)

Status == {"pending", "detected", "confirmed"}
Permit == [nonce: Nat, deadline: Nat]

ASSUME NullAssumption == None \notin Session \cup Nat \cup Status \cup Permit

\* A page: where pay() is, the session it shows and its status, the button,
\* the flag polling, the iterations of poll() so far, the permit and the
\* transaction pay() is about.
Page == [pc: {"blank", "form", "shown", "connect", "allowance", "approve",
              "approving", "pay", "receipt", "unavailable"},
         session: Session \cup {None}, view: Status \cup {None},
         button: {"hidden", "enabled", "disabled"},
         polling: BOOLEAN, loop: BOOLEAN, polls: 0 .. MaxPolls,
         signed: Permit \cup {None}, hash: Nat \cup {None}]

Blank == [pc |-> "blank", session |-> None, view |-> None, button |-> "hidden",
          polling |-> FALSE, loop |-> FALSE, polls |-> 0, signed |-> None,
          hash |-> None]

\* A payment carries its permit, if any.
Tx == [kind: {"approve", "pay"}, session: Session, signed: Permit \cup {None},
       state: {"pending", "success", "reverted"}]

\* enoughConfirmations: there is a block on top, whatever minConfirmations is.
Needed == IF MinConfirmations = 0 THEN 1 ELSE MinConfirmations

CheckoutTypeOK ==
  /\ ledger \in Ledger
  /\ now \in 1 .. MaxClock
  /\ RouterTypeOK
  /\ server \in [Session -> Status \cup {None}]
  /\ depth \in [Session -> 0 .. Needed]
  /\ nonce \in Nat
  /\ txs \in Seq(Tx)
  /\ page \in [Tab -> Page]
  /\ boots \in 0 .. MaxBoots
  /\ mishaps \in 0 .. MaxMishaps
  /\ outside \in [spent: Nat, meddled: BOOLEAN]

CheckoutInit ==
  /\ ledger = [balance |-> [a \in Account |-> IF a = Customer THEN Purse ELSE 0],
               allowance |-> [a \in Account \X Account |-> 0]]
  /\ logs = EmptyBag
  /\ now = 1
  /\ RouterInit
  /\ server = [s \in Session |-> None]
  /\ depth = [s \in Session |-> 0]
  /\ nonce = 0
  /\ txs = << >>
  /\ page = [t \in Tab |-> Blank]
  /\ boots = 0
  /\ mishaps = 0
  /\ outside = [spent |-> 0, meddled |-> FALSE]

Become(t, p) == page' = [page EXCEPT ![t] = p]
Goto(t, pc) == Become(t, [page[t] EXCEPT !.pc = pc])
Mishap == mishaps < MaxMishaps /\ mishaps' = mishaps + 1
OnlyPage == UNCHANGED <<chainVars, routerVars, server, depth, nonce, txs, pageVars>>

Invoice(s) == InvoiceId(s, Price, None)
Paid(s) == Invoice(s) \in invoicePaid
Settled(s) == Paid(s) /\ depth[s] = Needed

---------------------------------------------------------------------------
(* poll() starts, unless it runs, or has run to a confirmation *)

StartPoll(p) ==
  IF p.polling THEN p
  ELSE [p EXCEPT !.polling = TRUE, !.loop = TRUE]

---------------------------------------------------------------------------
(* boot(), renderInvoice() and the form *)

\* renderInvoice: the button, unless the session is confirmed, and poll() when
\* there are transactions to show.
Shown(s) ==
  LET p == [Blank EXCEPT !.pc = "shown", !.session = s, !.view = server[s]]
      payable == [p EXCEPT !.button = "enabled"]
  IN CASE server[s] = "confirmed" -> p
       [] server[s] = "detected"  -> StartPoll(payable)
       [] server[s] = "pending"   -> payable

\* The page is opened, with a link to a session or without, or loaded again.
\* What pay() and poll() were doing is gone, but not their transactions.
Load(t) ==
  /\ boots < MaxBoots
  /\ boots' = boots + 1
  /\ \/ Become(t, [Blank EXCEPT !.pc = IF DemoEnabled THEN "form" ELSE "unavailable"])
     \/ \E s \in Session : server[s] # None /\ Become(t, Shown(s))
  /\ UNCHANGED <<chainVars, routerVars, server, depth, nonce, txs, mishaps, outside>>

\* The config or the session cannot be read.
LoadFails(t) ==
  /\ boots < MaxBoots
  /\ boots' = boots + 1
  /\ Mishap
  /\ Become(t, [Blank EXCEPT !.pc = "unavailable"])
  /\ UNCHANGED <<chainVars, routerVars, server, depth, nonce, txs, outside>>

\* createSession: a new pay-in.
CreateSession(s) ==
  /\ server[s] = None
  /\ server' = [server EXCEPT ![s] = "pending"]

\* The form: the page goes to the link of the new session.  When the answer is
\* lost the session is there, and the form for another one.
Create(t) ==
  /\ page[t].pc = "form"
  /\ \E s \in Session :
       /\ CreateSession(s)
       /\ \/ /\ Become(t, [Blank EXCEPT !.pc = "shown", !.session = s,
                             !.view = "pending", !.button = "enabled"])
             /\ UNCHANGED mishaps
          \/ /\ Mishap
             /\ UNCHANGED page
  /\ UNCHANGED <<chainVars, routerVars, depth, nonce, txs, boots, outside>>

---------------------------------------------------------------------------
(* pay() *)

Click(t) ==
  /\ page[t].pc = "shown"
  /\ page[t].button = "enabled"
  /\ Become(t, [page[t] EXCEPT !.pc = "connect", !.button = "disabled"])
  /\ OnlyPage

\* The chain is switched and the account known, which changes nothing here.
\* tryPermitSignature: the payer signs for the nonce that the token has now and
\* a deadline; or null, for any error, and the page goes on without.
TryPermitSignature(t) ==
  /\ page[t].pc = "connect"
  /\ \/ /\ HasPermit
        /\ Become(t, [page[t] EXCEPT !.pc = "pay",
                        !.signed = [nonce |-> nonce, deadline |-> now + PermitTTL]])
     \/ Goto(t, "allowance")
  /\ OnlyPage

ReadAllowance(t) ==
  /\ page[t].pc = "allowance"
  /\ Goto(t, IF ledger.allowance[<<Customer, Router>>] < Price THEN "approve" ELSE "pay")
  /\ OnlyPage

\* The wallet sends an approve or a payment.
Send(t, kind, next) ==
  /\ txs' = Append(txs, [kind |-> kind, session |-> page[t].session,
                         signed |-> page[t].signed, state |-> "pending"])
  /\ Become(t, [page[t] EXCEPT !.pc = next, !.hash = Len(txs) + 1])
  /\ UNCHANGED <<chainVars, routerVars, server, depth, nonce, pageVars>>

SendApprove(t) == page[t].pc = "approve" /\ Send(t, "approve", "approving")
SendPayment(t) == page[t].pc = "pay" /\ Send(t, "pay", "receipt")

Mined(t) == txs[page[t].hash].state # "pending"

ApproveMined(t) ==
  /\ page[t].pc = "approving"
  /\ Mined(t)
  /\ Goto(t, "pay")
  /\ OnlyPage

\* pay() ends.
AfterPay(p, button) ==
  [p EXCEPT !.pc = "shown", !.button = button, !.signed = None, !.hash = None]

\* The receipt is there, of a payment that went through or that reverted: the
\* button goes, and poll() starts.
PaymentMined(t) ==
  /\ page[t].pc = "receipt"
  /\ Mined(t)
  /\ Become(t, StartPoll(AfterPay(page[t], "hidden")))
  /\ OnlyPage

\* The catch of pay(): a prompt is refused, a call fails or a receipt is
\* waited for too long.  The button is back, also after a payment was sent.
ButtonLeft(p) == p.button
ButtonAfterError(p) == "enabled"

PayFails(t) ==
  /\ page[t].pc \in {"connect", "allowance", "approve", "approving", "pay", "receipt"}
  /\ Mishap
  /\ Become(t, AfterPay(page[t], ButtonAfterError(page[t])))
  /\ UNCHANGED <<chainVars, routerVars, server, depth, nonce, txs, boots, outside>>

---------------------------------------------------------------------------
(* poll() and the API's reconcileSession *)

\* What reconcilePayIn, whose steps are those of module PayIns, may write and
\* answer: what the chain has, or had when a run began that writes late, over
\* whatever the row says by then.
ReconciledEarly(s) == {"pending"} \cup {st \in {"detected", "confirmed"} : Paid(s)}
Reconciled(s) ==
  {"pending"} \cup {st \in {"detected"} : Paid(s)}
    \cup {st \in {"confirmed"} : Settled(s)}

\* The loop goes on until the session is confirmed, or to its cap.
AfterIteration(p) ==
  IF p.view = "confirmed" THEN [p EXCEPT !.loop = FALSE, !.polls = 0]
  ELSE IF p.polls + 1 < MaxPolls THEN [p EXCEPT !.polls = @ + 1]
  ELSE [p EXCEPT !.loop = FALSE, !.polling = FALSE, !.polls = 0]

Poll(t) ==
  /\ page[t].loop
  /\ \E status \in Reconciled(page[t].session) :
       /\ server' = [server EXCEPT ![page[t].session] = status]
       /\ Become(t, AfterIteration([page[t] EXCEPT !.view = status]))
  /\ UNCHANGED <<chainVars, routerVars, depth, nonce, txs, pageVars>>

\* An error of the API is passed over, whether it reconciled or not.
PollFails(t) ==
  /\ page[t].loop
  /\ page[t].view # "confirmed"
  /\ Mishap
  /\ \/ UNCHANGED server
     \/ \E status \in Reconciled(page[t].session) :
          server' = [server EXCEPT ![page[t].session] = status]
  /\ Become(t, AfterIteration(page[t]))
  /\ UNCHANGED <<chainVars, routerVars, depth, nonce, txs, boots, outside>>

---------------------------------------------------------------------------
(* The chain *)

\* The first pending transaction of the payer is mined.
IsNext(h) ==
  /\ txs[h].state = "pending"
  /\ \A g \in 1 .. h - 1 : txs[g].state # "pending"

\* Its permit is for the nonce that the token expects, and not too late.
Expired(tx) == tx.signed # None /\ now > tx.signed.deadline
PermitValid(tx) == tx.signed # None /\ tx.signed.nonce = nonce /\ ~Expired(tx)

\* What the router finds when the permit, if there is one, has been tried.
LedgerFor(tx) ==
  IF tx.signed = None THEN ledger ELSE AfterPermit(Customer, Price, PermitValid(tx))

PaymentSucceeds(tx) ==
  /\ ~routerPaused
  /\ Payable(Invoice(tx.session))
  /\ CanPull(LedgerFor(tx), Router, Customer, Price)

MineApprove(h) ==
  /\ IsNext(h)
  /\ txs[h].kind = "approve"
  /\ ledger' = Approved(ledger, Customer, Router, Price)
  /\ txs' = [txs EXCEPT ![h].state = "success"]
  /\ UNCHANGED <<logs, now, routerVars, server, depth, nonce, page, pageVars>>

MinePayment(h) ==
  /\ IsNext(h)
  /\ txs[h].kind = "pay"
  /\ \/ PayInvoice(Customer, txs[h].session, Price) /\ txs[h].signed = None
     \/ /\ PayInvoiceWithPermit(Customer, txs[h].session, Price, PermitValid(txs[h]))
        /\ txs[h].signed # None
  /\ nonce' = IF PermitValid(txs[h]) THEN nonce + 1 ELSE nonce
  /\ txs' = [txs EXCEPT ![h].state = "success"]
  /\ UNCHANGED <<server, depth, page, pageVars>>

\* A call that reverts leaves nothing behind, its permit included.
MineRevert(h) ==
  /\ IsNext(h)
  /\ txs[h].kind = "pay"
  /\ ~PaymentSucceeds(txs[h])
  /\ txs' = [txs EXCEPT ![h].state = "reverted"]
  /\ UNCHANGED <<chainVars, routerVars, server, depth, nonce, page, pageVars>>

\* Someone else hands in the permit of a payment that is still in the pool.
HandInPermit(h) ==
  /\ txs[h].state = "pending"
  /\ txs[h].kind = "pay"
  /\ PermitValid(txs[h])
  /\ nonce' = nonce + 1
  /\ ledger' = Approved(ledger, Customer, Router, Price)
  /\ UNCHANGED <<logs, now, routerVars, server, depth, txs, page, pageVars>>

\* Another block on top of those that pay.
Block ==
  /\ \E s \in Session : Paid(s) /\ depth[s] < Needed
  /\ depth' = [s \in Session |->
                 IF Paid(s) /\ depth[s] < Needed THEN depth[s] + 1
                 ELSE depth[s]]
  /\ UNCHANGED <<chainVars, routerVars, server, nonce, txs, page, pageVars>>

TimePasses ==
  /\ now < MaxClock
  /\ now' = now + 1
  /\ UNCHANGED <<ledger, logs, routerVars, server, depth, nonce, txs, page, pageVars>>

---------------------------------------------------------------------------
(* Calls from outside the checkout *)

CallOutside(spent, meddled) ==
  /\ Mishap
  /\ outside' = [spent |-> outside.spent + spent, meddled |-> outside.meddled \/ meddled]
  /\ UNCHANGED <<server, depth, txs, page, boots>>

OwnerChanges ==
  /\ CallOutside(0, FALSE)
  /\ \/ PauseRouter
     \/ \E t \in Treasury : SetTreasury(t)
     \/ \E supported \in BOOLEAN, minimum \in Amount :
          SetTokenSupported(supported, minimum)
  /\ UNCHANGED nonce

OwnerUnpauses ==
  /\ UnpauseRouter
  /\ UNCHANGED <<server, depth, nonce, txs, page, pageVars>>

\* The payer spends tokens elsewhere, in accounts that are none of these.
PayerSpends(amount) ==
  /\ CallOutside(amount, FALSE)
  /\ ledger.balance[Customer] >= amount
  /\ ledger' = [ledger EXCEPT !.balance[Customer] = @ - amount]
  /\ UNCHANGED <<logs, now, routerVars, nonce>>

\* The payer takes the router's allowance back, or uses a permit elsewhere.
PayerMeddles ==
  /\ CallOutside(0, TRUE)
  /\ \/ ledger' = Approved(ledger, Customer, Router, 0) /\ UNCHANGED nonce
     \/ nonce' = nonce + 1 /\ UNCHANGED ledger
  /\ UNCHANGED <<logs, now, routerVars>>

---------------------------------------------------------------------------
(* The specification *)

\* The steps of a page that the payer has started, and the wallet's answers.
Runs(t) ==
  \/ TryPermitSignature(t)
  \/ ReadAllowance(t)
  \/ SendApprove(t)
  \/ ApproveMined(t)
  \/ SendPayment(t)
  \/ PaymentMined(t)

Mining ==
  \E h \in 1 .. Len(txs) : MineApprove(h) \/ MinePayment(h) \/ MineRevert(h)

CheckoutNext ==
  \/ \E t \in Tab :
       \/ Load(t)
       \/ LoadFails(t)
       \/ Create(t)
       \/ Click(t)
       \/ Runs(t)
       \/ PayFails(t)
       \/ Poll(t)
       \/ PollFails(t)
  \/ Mining
  \/ \E h \in 1 .. Len(txs) : HandInPermit(h)
  \/ Block
  \/ TimePasses
  \/ OwnerChanges
  \/ OwnerUnpauses
  \/ \E amount \in Amount : PayerSpends(amount)
  \/ PayerMeddles

CheckoutSpec == CheckoutInit /\ [][CheckoutNext]_checkoutVars

\* pay() goes on when it can, the wallet and the payer in front of it answer its
\* prompts or refuse (an error), and the chain takes what is in its pool.
\* Nothing makes the payer load or click, and nothing is asked of poll().
FairSpec ==
  /\ CheckoutSpec
  /\ \A t \in Tab : WF_checkoutVars(Runs(t))
  /\ WF_checkoutVars(Mining)

---------------------------------------------------------------------------
(* Properties *)

\* A payer pays a session once.  The button comes back after a payment was
\* sent, is there while poll() sees the payment, and is in every tab; each
\* click is another transaction, with a permit or without.
ChargedOnce ==
  ledger.balance[Customer] + outside.spent
    + Price * Cardinality({s \in Session : Paid(s)}) = Purse

\* A page that shows a session as confirmed has its payment in the treasury
\* under as many blocks as count, whichever tab or error brought it there.
ShownIsSettled ==
  \A t \in Tab : page[t].view = "confirmed" => Settled(page[t].session)

\* What the payer or the owner can do about: the router is paused or does not
\* take the token or as little of it, the tokens are not there, the permit was
\* not mined in its time, or the payer took back the allowance or used the
\* permit's nonce elsewhere.
Refused(tx) ==
  \/ routerPaused
  \/ ~tokenSupported
  \/ minAmount > Price
  \/ ledger.balance[Customer] < Price
  \/ Expired(tx)
  \/ outside.meddled

\* A payment reverts only because the invoice is paid already, for one of the
\* reasons above, or because another session was paid from the same allowance
\* or with the same nonce: never because someone handed in its permit first, or
\* because another tab that pays this session took the nonce or the allowance.
RevertsExplained ==
  [][\A h \in 1 .. Len(txs) :
       txs[h].state = "pending" /\ txs'[h].state = "reverted"
         => \/ Paid(txs[h].session)
            \/ Refused(txs[h])
            \/ \E s \in Session \ {txs[h].session} : Paid(s)]_checkoutVars

\* The button never stays disabled: pay() ends with a receipt or with an error,
\* and neither leaves the payer in front of a dead page.
ButtonComesBack == \A t \in Tab : []<>(page[t].button # "disabled")

---------------------------------------------------------------------------
(* What the docs say, and the code does not keep *)

\* "the caller then falls back to approve + payInvoice, so this never blocks a
\* payment" (checkout.ts): a payment that reverts is of an invoice that is
\* paid, or is refused.
NeverBlocked ==
  [][\A h \in 1 .. Len(txs) :
       txs[h].state = "pending" /\ txs'[h].state = "reverted"
         => Paid(txs[h].session) \/ Refused(txs[h])]_checkoutVars

=============================================================================
