----------------------------- MODULE PayInSweep -----------------------------
(***************************************************************************)
(* How the tokens of a derived-address pay-in get to the treasury:         *)
(* PayinsService.sweepPayIn, topUpPayIn, topUpAndSweep and                 *)
(* retryPendingSweeps, with BlockchainService.sweepDerivedPayIn and        *)
(* sendNativeTransfer.  Handlers of one pay-in run at once: HTTP requests, *)
(* the automatic sweep after a confirmation, and ticks of the              *)
(* reconciliation job, which are not kept from overlapping.                *)
(*                                                                         *)
(* No lock is taken before the broadcast.  The row is guarded only when    *)
(* the outcome is written, so that several sweeps can be on their way.     *)
(***************************************************************************)
EXTENDS Naturals, FiniteSets

CONSTANTS
  Req,             \* slots for HTTP requests and automatic sweeps
  Tick,            \* slots for ticks of the job, of any instance
  Hash,            \* hashes of sweep transactions
  None,            \* null, and the missing optional amount
  Payment,         \* what the payer sends to the deposit address
  Modes,           \* the collection modes of the pay-in to look at
  PartAmounts,     \* amounts that a sweep request may name
  WaitForReceipt,  \* AVASETTLE_WAIT_FOR_RECEIPT
  AutoSweep,       \* AVASETTLE_AUTO_SWEEP
  MaxPending,      \* bound: top-ups in the mempool that nobody waits for
  MaxGas,          \* bound: AVAX of the deposit address is counted up to this
  MaxRequests,     \* bound: HTTP requests and automatic sweeps
  MaxErrors        \* bound: calls that throw, handlers that die

ASSUME SweepAssumption ==
  /\ Req \cap Tick = {}
  /\ IsFiniteSet(Tick)
  /\ None \notin Hash /\ None \notin Nat
  /\ Payment \in Nat \ {0}
  /\ Modes \subseteq {"derived-address", "payment-router"}
  /\ PartAmounts \subseteq Nat \ {0}
  /\ WaitForReceipt \in BOOLEAN
  /\ AutoSweep \in BOOLEAN
  /\ MaxPending \in Nat
  /\ MaxGas \in Nat \ {0}
  /\ MaxRequests \in Nat
  /\ MaxErrors \in Nat

VARIABLES
  mode,      \* collectionMode of the pay-in
  row,       \* status and sweep columns of the pay-in
  cool,      \* updated_at is older than the cool-down
  req,       \* local state of every handler
  tx,        \* sweep transactions, by hash
  token,     \* token balance of the deposit address and of the treasury
  gas,       \* AVAX of the deposit address, in sweeps it pays for
  topUps,    \* top-ups in the mempool that no handler waits for
  window,    \* retries of the job since updated_at was set, and those cut short
  requests,  \* how many have started
  errors

vars == <<mode, row, cool, req, tx, token, gas, topUps, window, requests, errors>>

Handler == Req \cup Tick

---------------------------------------------------------------------------
(* Types *)

SweepStatus ==
  {"pending", "not_required", "broadcasted", "confirmed", "failed"}

Row == [confirmed: BOOLEAN,            \* status = confirmed
        sweepStatus: SweepStatus,
        hash: Hash \cup {None},
        sweptAmount: Nat]

Pc == {"idle", "topUp", "landed", "sweep", "notRequired", "gas", "balance",
       "send", "receipt", "record", "catch"}

Local == [pc: Pc,
          thenSweep: BOOLEAN,          \* topUpAndSweep, not topUpPayIn
          amount: Nat \cup {None},     \* dto.amount, then the amount to send
          hash: Hash \cup {None},
          result: SweepStatus]

Idle == [pc |-> "idle", thenSweep |-> FALSE, amount |-> None, hash |-> None,
         result |-> "pending"]

TypeOK ==
  /\ mode \in Modes
  /\ row \in Row
  /\ cool \in BOOLEAN
  /\ req \in [Handler -> Local]
  /\ tx \in [Hash -> [state: {"unused", "mempool", "success", "reverted"},
                      amount: Nat]]
  /\ token \in [deposit: Nat, treasury: Nat]
  /\ gas \in 0 .. MaxGas
  /\ topUps \in 0 .. MaxPending
  /\ window \in [retries: Nat, lost: Nat]
  /\ requests \in 0 .. MaxRequests
  /\ errors \in 0 .. MaxErrors

NewWindow == [retries |-> 0, lost |-> 0]

\* The address is known and nothing has been paid yet.
Init ==
  /\ mode \in Modes
  /\ row = [confirmed |-> FALSE,
            sweepStatus |-> IF mode = "payment-router" THEN "not_required"
                                                       ELSE "pending",
            hash |-> None, sweptAmount |-> 0]
  /\ cool = FALSE
  /\ req = [h \in Handler |-> Idle]
  /\ tx = [x \in Hash |-> [state |-> "unused", amount |-> 0]]
  /\ token = [deposit |-> 0, treasury |-> 0]
  /\ gas = 0
  /\ topUps = 0
  /\ window = NewWindow
  /\ requests = 0
  /\ errors = 0

Become(h, l) == req' = [req EXCEPT ![h] = l]
Goto(h, pc) == Become(h, [req[h] EXCEPT !.pc = pc])
\* Into the catch block, which needs nothing of what the handler knew.
Fail(h) == Become(h, [Idle EXCEPT !.pc = "catch"])
Error == errors < MaxErrors /\ errors' = errors + 1

\* Every UPDATE of the row sets updated_at.
Touch == cool' = FALSE /\ window' = NewWindow

---------------------------------------------------------------------------
(* Requests and the job *)

Request == requests < MaxRequests /\ requests' = requests + 1

\* POST sweep, with or without an amount.  The pay-in may be in any status.
StartSweep(r) ==
  /\ req[r].pc = "idle"
  /\ Request
  /\ \E a \in PartAmounts \cup {None} :
       Become(r, [Idle EXCEPT !.pc = "sweep", !.amount = a])
  /\ UNCHANGED <<mode, row, cool, tx, token, gas, topUps, window, errors>>

\* POST topup.  A PaymentRouter pay-in is refused.
StartTopUp(r) ==
  /\ req[r].pc = "idle"
  /\ Request
  /\ mode = "derived-address"
  /\ Become(r, [Idle EXCEPT !.pc = "topUp"])
  /\ UNCHANGED <<mode, row, cool, tx, token, gas, topUps, window, errors>>

\* POST topup-and-sweep, or the automatic sweep of a new confirmation.
StartTopUpAndSweep(r) ==
  /\ req[r].pc = "idle"
  /\ Request
  /\ mode = "derived-address"
  /\ Become(r, [Idle EXCEPT !.pc = "topUp", !.thenSweep = TRUE])
  /\ UNCHANGED <<mode, row, cool, tx, token, gas, topUps, window, errors>>

\* Ticks that are at the pay-in.
Running == {t \in Tick : req[t].pc # "idle"}

\* listSweepRetryCandidates.
RetryCandidatePending ==
  row.confirmed /\ row.sweepStatus = "pending" /\ cool
RetryCandidate ==
  row.confirmed /\ row.sweepStatus \in {"pending", "failed"} /\ cool

\* retryPendingSweeps, for this pay-in.  The list is not looked at again.
RetryPendingSweeps(t) ==
  /\ AutoSweep
  /\ req[t].pc = "idle"
  /\ RetryCandidate
  /\ mode = "derived-address"
  /\ Become(t, [Idle EXCEPT !.pc = "topUp", !.thenSweep = TRUE])
  /\ window' = [window EXCEPT !.retries = @ + 1]
  /\ UNCHANGED <<mode, row, cool, tx, token, gas, topUps, requests, errors>>

---------------------------------------------------------------------------
(* sendNativeTransfer, awaited by both top-ups *)

\* The treasury sends AVAX.  topUpPayIn is done then; topUpAndSweep waits until
\* its top-up has landed.  A treasury that is short of AVAX is an Abort: the
\* call throws outside of any try block.
TopUp(h) ==
  /\ req[h].pc = "topUp"
  /\ \/ req[h].thenSweep /\ Goto(h, "landed") /\ UNCHANGED topUps
     \/ /\ ~req[h].thenSweep
        /\ topUps < MaxPending
        /\ topUps' = topUps + 1
        /\ Become(h, Idle)
  /\ UNCHANGED <<mode, row, cool, tx, token, gas, window, requests, errors>>

MoreGas == gas' = IF gas < MaxGas THEN gas + 1 ELSE gas

\* waitForTransaction: the top-up of this handler is included.
TopUpLanded(h) ==
  /\ req[h].pc = "landed"
  /\ MoreGas
  /\ Become(h, [Idle EXCEPT !.pc = "sweep"])
  /\ UNCHANGED <<mode, row, cool, tx, token, topUps, window, requests, errors>>

---------------------------------------------------------------------------
(* sweepPayIn, a step for each await *)

Recorded(status) == status \in {"broadcasted", "confirmed"}

\* Read the row.  A recorded sweep is answered at once.
SweepRead(h) ==
  /\ req[h].pc = "sweep"
  /\ CASE mode = "payment-router"      -> Goto(h, "notRequired")
       [] Recorded(row.sweepStatus)    -> Become(h, Idle)
       [] OTHER                        -> Goto(h, "gas")
  /\ UNCHANGED <<mode, row, cool, tx, token, gas, topUps, window, requests, errors>>

WriteNotRequired(h) ==
  /\ req[h].pc = "notRequired"
  /\ row' = [row EXCEPT !.sweepStatus = "not_required"]
  /\ Touch
  /\ Become(h, Idle)
  /\ UNCHANGED <<mode, tx, token, gas, topUps, requests, errors>>

\* sweepDerivedPayIn: without AVAX it throws, into the catch block.
SweepGas(h) ==
  /\ req[h].pc = "gas"
  /\ IF gas = 0 THEN Fail(h) ELSE Goto(h, "balance")
  /\ UNCHANGED <<mode, row, cool, tx, token, gas, topUps, window, requests, errors>>

\* The amount is the whole balance as it is read, unless one was named.
SweepBalance(h) ==
  LET amount == IF req[h].amount = None THEN token.deposit ELSE req[h].amount
  IN
  /\ req[h].pc = "balance"
  /\ IF amount = 0 \/ amount > token.deposit
       THEN Fail(h)
       ELSE Become(h, [req[h] EXCEPT !.pc = "send", !.amount = amount])
  /\ UNCHANGED <<mode, row, cool, tx, token, gas, topUps, window, requests, errors>>

Unused == {x \in Hash : tx[x].state = "unused"}

\* writeContract.  The estimate of the gas throws when the tokens or the AVAX
\* are gone by now (and, a bound, when no hash is left).
SweepRefused(h) ==
  /\ req[h].pc = "send"
  /\ req[h].amount > token.deposit \/ gas = 0 \/ Unused = {}
  /\ Fail(h)
  /\ UNCHANGED <<mode, row, cool, tx, token, gas, topUps, window, requests, errors>>

\* The transfer reaches the mempool; the answer may be lost.
SweepSend(h) ==
  /\ req[h].pc = "send"
  /\ req[h].amount <= token.deposit
  /\ gas > 0
  /\ \E x \in Unused :
       /\ tx' = [tx EXCEPT ![x] = [state |-> "mempool", amount |-> req[h].amount]]
       /\ \/ /\ Become(h, [req[h] EXCEPT
                             !.pc = IF WaitForReceipt THEN "receipt" ELSE "record",
                             !.hash = x, !.result = "broadcasted"])
             /\ UNCHANGED errors
          \/ Fail(h) /\ Error
  /\ UNCHANGED <<mode, row, cool, token, gas, topUps, window, requests>>

\* A reverted transfer is recorded as broadcasted.
StatusOfReceiptAny(state) == "confirmed"
StatusOfReceipt(state) == IF state = "success" THEN "confirmed" ELSE "broadcasted"

SweepReceipt(h) ==
  /\ req[h].pc = "receipt"
  /\ tx[req[h].hash].state \in {"success", "reverted"}
  /\ Become(h, [req[h] EXCEPT !.pc = "record",
                              !.result = StatusOfReceipt(tx[req[h].hash].state)])
  /\ UNCHANGED <<mode, row, cool, tx, token, gas, topUps, window, requests, errors>>

\* waitForTransactionReceipt gives up on a transaction that is not included.
SweepTimeout(h) ==
  /\ req[h].pc = "receipt"
  /\ tx[req[h].hash].state = "mempool"
  /\ Fail(h)
  /\ UNCHANGED <<mode, row, cool, tx, token, gas, topUps, window, requests, errors>>

\* The guard of both UPDATEs, and the columns of the first.
ExpectedSweepStatus(status) == status \in {"pending", "failed"}

SweepRecord(h) ==
  /\ req[h].pc = "record"
  /\ IF ExpectedSweepStatus(row.sweepStatus)
       THEN /\ row' = [row EXCEPT !.sweepStatus = req[h].result,
                                  !.hash = req[h].hash,
                                  !.sweptAmount = req[h].amount]
            /\ Touch
       ELSE UNCHANGED <<row, cool, window>>
  /\ Become(h, Idle)
  /\ UNCHANGED <<mode, tx, token, gas, topUps, requests, errors>>

\* The catch block, also after an error of the recording UPDATE.
MarkFailedSilently(h) ==
  /\ req[h].pc = "catch"
  /\ Become(h, Idle)
  /\ UNCHANGED <<mode, row, cool, tx, token, gas, topUps, window, requests, errors>>
MarkFailed(h) ==
  /\ req[h].pc = "catch"
  /\ IF ExpectedSweepStatus(row.sweepStatus)
       THEN row' = [row EXCEPT !.sweepStatus = "failed"] /\ Touch
       ELSE UNCHANGED <<row, cool, window>>
  /\ Become(h, Idle)
  /\ UNCHANGED <<mode, tx, token, gas, topUps, requests, errors>>

---------------------------------------------------------------------------
(* The environment *)

\* An RPC or SQL call inside the try block throws.
Throws(h) ==
  /\ req[h].pc \in {"gas", "balance", "send", "receipt", "record"}
  /\ Error
  /\ Fail(h)
  /\ UNCHANGED <<mode, row, cool, tx, token, gas, topUps, window, requests>>

\* An error outside of it, or a process that dies.  A top-up that it waited
\* for still lands.
Abort(h) ==
  /\ req[h].pc # "idle"
  /\ Error
  /\ topUps' = IF req[h].pc = "landed" /\ topUps < MaxPending THEN topUps + 1 ELSE topUps
  /\ window' = IF h \in Tick /\ cool THEN [window EXCEPT !.lost = @ + 1] ELSE window
  /\ Become(h, Idle)
  /\ UNCHANGED <<mode, row, cool, tx, token, gas, requests>>

\* A payer sends tokens to the deposit address.
Deposit ==
  /\ mode = "derived-address"
  /\ token.deposit + token.treasury < Payment
  /\ token' = [token EXCEPT !.deposit = @ + 1]
  /\ UNCHANGED <<mode, row, cool, req, tx, gas, topUps, window, requests, errors>>

\* reconcilePayIn (module PayIns) confirms the pay-in, which updates the row.
Confirm ==
  /\ ~row.confirmed
  /\ mode = "derived-address" => token.deposit + token.treasury = Payment
  /\ row' = [row EXCEPT !.confirmed = TRUE]
  /\ Touch
  /\ UNCHANGED <<mode, req, tx, token, gas, topUps, requests, errors>>

IncludeTopUp ==
  /\ topUps > 0
  /\ topUps' = topUps - 1
  /\ MoreGas
  /\ UNCHANGED <<mode, row, cool, req, tx, token, window, requests, errors>>

\* A sweep is included when the address can pay for it.  It reverts when the
\* tokens are gone.
IncludeSweep(x) ==
  /\ tx[x].state = "mempool"
  /\ gas > 0
  /\ gas' = gas - 1
  /\ IF tx[x].amount <= token.deposit
       THEN /\ tx' = [tx EXCEPT ![x].state = "success"]
            /\ token' = [deposit |-> token.deposit - tx[x].amount,
                         treasury |-> token.treasury + tx[x].amount]
       ELSE /\ tx' = [tx EXCEPT ![x].state = "reverted"]
            /\ UNCHANGED token
  /\ UNCHANGED <<mode, row, cool, req, topUps, window, requests, errors>>

\* SWEEP_RETRY_COOLDOWN_MINUTES pass without an UPDATE of the row.
CoolDown ==
  /\ ~cool
  /\ row.confirmed
  /\ cool' = TRUE
  /\ UNCHANGED <<mode, row, req, tx, token, gas, topUps, window, requests, errors>>

---------------------------------------------------------------------------
(* The specification *)

Continue(h) ==
  \/ TopUp(h)
  \/ TopUpLanded(h)
  \/ SweepRead(h)
  \/ WriteNotRequired(h)
  \/ SweepGas(h)
  \/ SweepBalance(h)
  \/ SweepRefused(h)
  \/ SweepSend(h)
  \/ SweepReceipt(h)
  \/ SweepTimeout(h)
  \/ SweepRecord(h)
  \/ MarkFailed(h)

Next ==
  \/ \E r \in Req : StartSweep(r) \/ StartTopUp(r) \/ StartTopUpAndSweep(r)
  \/ \E t \in Tick : RetryPendingSweeps(t)
  \/ \E h \in Handler : Continue(h) \/ Throws(h) \/ Abort(h)
  \/ Deposit
  \/ Confirm
  \/ IncludeTopUp
  \/ \E x \in Hash : IncludeSweep(x)
  \/ CoolDown

Spec == Init /\ [][Next]_vars

\* An await returns, the chain includes what it can, the job comes round, and
\* a row that nobody writes to cools down.
Fairness ==
  /\ \A h \in Handler : WF_vars(Continue(h))
  /\ WF_vars(\E t \in Tick : RetryPendingSweeps(t))
  /\ WF_vars(IncludeTopUp)
  /\ \A x \in Hash : WF_vars(IncludeSweep(x))
  /\ WF_vars(CoolDown)

FairSpec == Spec /\ Fairness

---------------------------------------------------------------------------
(* Properties *)

\* What sweepPayIn writes in broadcasted or confirmed stays: racing sweeps,
\* late errors and retries change neither the status nor the hash of the sweep
\* that was recorded first.
SweepRecordKept == [][Recorded(row.sweepStatus) =>
                        /\ row'.sweepStatus = row.sweepStatus
                        /\ row'.hash = row.hash
                        /\ row'.sweptAmount = row.sweptAmount]_vars

\* A recorded sweep names a transaction that was sent with the amount in the
\* row, and a confirmed one has moved it to the treasury, although the row may
\* have been written by any of the racing handlers.
RecordedSweepReal ==
  /\ Recorded(row.sweepStatus) =>
       /\ row.hash # None
       /\ tx[row.hash].state # "unused"
       /\ tx[row.hash].amount = row.sweptAmount
  /\ row.sweepStatus = "confirmed" =>
       /\ tx[row.hash].state = "success"
       /\ token.treasury >= row.sweptAmount

\* Every retry since updated_at was last set is still running or was cut short,
\* by a death or a top-up that threw, before it touched the row: one that came
\* to its end, in success or failure, has set updated_at, so that the job leaves
\* the pay-in alone until it has cooled down again, however many ticks overlap.
RetriesAccounted == window.retries <= Cardinality(Running) + window.lost

\* No sweep of a part was ever sent, because a request named an amount or came
\* before the whole payment.
WholeSweeps == \A x \in Hash \ Unused : tx[x].amount = Payment

\* The tokens of a confirmed pay-in reach the treasury and stay there: the job
\* retries until they have, whatever failed before.  It needs the requests to
\* end, for each one that fails puts the retry off, and sweeps of the whole.
PaidReachesTreasury ==
  <>[](/\ row.confirmed /\ mode = "derived-address"
       /\ WholeSweeps
       /\ \A r \in Req : req[r].pc = "idle")
    => <>[](token.treasury = Payment)

---------------------------------------------------------------------------
(* What the docs say, and the code does not keep *)

\* "every attempt (success or failure) touches the row, so a persistently
\* failing sweep is retried at most once per cool-down window".
OneRetryPerWindow == window.retries <= 1

=============================================================================
