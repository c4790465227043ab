------------------------------ MODULE Payouts ------------------------------
(***************************************************************************)
(* The payout lifecycle of the settlement API: PayoutsService (create,     *)
(* authorize, authorize a batch, reconcile), the guarded UPDATEs of        *)
(* PayoutLedgerService, and the transaction rail of BlockchainService they *)
(* call.                                                                   *)
(*                                                                         *)
(* Several HTTP handlers, and the auto-reconcile job, run at once against  *)
(* one PostgreSQL table and one chain.  A handler gives up control at      *)
(* every await, so each await is a step of its own; each SQL statement is  *)
(* one atomic step.  Amounts, addresses and balances are abstracted: the   *)
(* treasury is spent and funded by parties outside the service, so a       *)
(* balance or allowance check may go either way whenever it is made.       *)
(***************************************************************************)
EXTENDS Naturals, FiniteSets

CONSTANTS
  Payout,           \* payouts, i.e. the (client, externalId) pairs
  Req,              \* slots for handlers that run at the same time
  Hash,             \* transaction hashes
  None,             \* SQL null / no hash
  MinConfirmations, \* AVASETTLE_MIN_CONFIRMATIONS
  WaitForReceipt,   \* AVASETTLE_WAIT_FOR_RECEIPT
  VaultConfigured,  \* a SettlementVault address is configured
  MaxFaults,        \* bound: RPC and SQL errors the handlers see
  MaxCrashes        \* bound: handlers that die half way

ASSUME ConstantsAssumption ==
  /\ None \notin Hash
  /\ MinConfirmations \in Nat
  /\ WaitForReceipt \in BOOLEAN
  /\ VaultConfigured \in BOOLEAN
  /\ MaxFaults \in Nat
  /\ MaxCrashes \in Nat

VARIABLES
  row,     \* the table avasettle_payouts
  req,     \* the local state of every running handler
  tx,      \* the chain and its mempool, by transaction hash
  events,  \* how many payout.confirmed webhook events were enqueued
  faults,  \* errors so far
  crashes  \* handlers that died so far

vars == <<row, req, tx, events, faults, crashes>>

---------------------------------------------------------------------------
(* Types *)

PayoutStatus ==
  {"absent", "prepared", "authorized", "broadcasted", "confirmed", "failed"}

\* The columns that the lifecycle reads or writes.  Dates and texts are kept
\* only as null or not null.
Row == [status: PayoutStatus, transactionHash: Hash \cup {None},
        confirmedAt: BOOLEAN, failureReason: BOOLEAN]

NoRow == [status |-> "absent", transactionHash |-> None,
          confirmedAt |-> FALSE, failureReason |-> FALSE]

\* Where a handler is: the await it is suspended at.
Place ==
  {"idle", "authRead", "authClaim", "balance",
   "batchRead", "batchBalance", "batchClaim",
   "send", "receipt", "record", "enqueue", "rollback", "catch",
   "recQuery", "recWrite"}

Handler ==
  [pc: Place,
   legs: SUBSET Payout,       \* the payouts of the request
   todo: SUBSET Payout,       \* legs still to do in the current phase
   stray: SUBSET Payout,      \* record writes a rejected Promise.all left behind
   hash: Hash \cup {None},    \* the transaction it sent
   confirmed: BOOLEAN,        \* TransferExecution.status = 'confirmed'
   goal: {"prepared", "failed"},  \* what its catch block writes
   snap: Row]                 \* the row it read, then the row it will write

Idle == [pc |-> "idle", legs |-> {}, todo |-> {}, stray |-> {}, hash |-> None,
         confirmed |-> FALSE, goal |-> "failed", snap |-> NoRow]

Tx == [state: {"none", "pending", "success", "reverted"},
       legs: SUBSET Payout,
       depth: 0 .. MinConfirmations]  \* blocks on top, saturating

NoTx == [state |-> "none", legs |-> {}, depth |-> 0]

TypeOK ==
  /\ row \in [Payout -> Row]
  /\ req \in [Req -> Handler]
  /\ tx \in [Hash -> Tx]
  /\ events \in [Payout -> Nat]
  /\ faults \in 0 .. MaxFaults
  /\ crashes \in 0 .. MaxCrashes

Init ==
  /\ row = [p \in Payout |-> NoRow]
  /\ req = [r \in Req |-> Idle]
  /\ tx = [h \in Hash |-> NoTx]
  /\ events = [p \in Payout |-> 0]
  /\ faults = 0
  /\ crashes = 0

---------------------------------------------------------------------------
(* Helpers *)

Become(r, h) == req' = [req EXCEPT ![r] = h]
Finish(r)    == Become(r, Idle)
Goto(r, l)   == Become(r, [req[r] EXCEPT !.pc = l])

\* A handler enters its catch block: every leg gets one guarded write.  The
\* record writes that were still in flight go on in the background.
ToCatch(r, goal, stray) ==
  Become(r, [req[r] EXCEPT !.pc = "catch", !.goal = goal,
                           !.todo = req[r].legs, !.stray = stray])

Fault   == faults < MaxFaults /\ faults' = faults + 1
NoFault == UNCHANGED faults

\* UPDATE ... WHERE id = p AND status = ANY(expected): is the row matched?
ClaimMatchesFailedToo(p) == row[p].status \in {"prepared", "failed"}
ClaimMatchesUnguarded(p) == row[p].status # "absent"
ClaimMatches(p)  == row[p].status = "prepared"
CatchMatchesPrepared(p) == row[p].status = "prepared"
CatchMatches(p) == row[p].status = "authorized"
RecordMatches(p) == row[p].status = "authorized"

\* A receipt makes the execution 'confirmed' only when it is a successful one.
ExecutionConfirmedAnyReceipt(h) == tx[h].state \in {"success", "reverted"}
ExecutionConfirmed(h) == tx[h].state = "success"

\* The status that a catch block writes for an error that is not a
\* ConflictException.
ErrorGoalRetry == "prepared"
ErrorGoal == "failed"

\* The row that a successful send leaves behind.
RecordedSwapped(p, h, confirmed) ==
  [status |-> IF confirmed THEN "confirmed" ELSE "broadcasted",
   transactionHash |-> confirmed, confirmedAt |-> h, failureReason |-> FALSE]
Recorded(p, h, confirmed) ==
  [status |-> IF confirmed THEN "confirmed" ELSE "broadcasted",
   transactionHash |-> h, confirmedAt |-> confirmed, failureReason |-> FALSE]

---------------------------------------------------------------------------
(* createPayout *)

\* The INSERT ... ON CONFLICT DO NOTHING.  A replay of an existing externalId
\* changes nothing; a new payout is prepared and, with executeImmediately,
\* the same handler goes on to authorize it.
CreatePayout(r, p) ==
  /\ req[r].pc = "idle"
  /\ row[p].status = "absent"
  /\ row' = [row EXCEPT ![p] = [NoRow EXCEPT !.status = "prepared"]]
  /\ \E executeImmediately \in BOOLEAN :
       IF executeImmediately
         THEN Become(r, [Idle EXCEPT !.pc = "authRead", !.legs = {p}])
         ELSE UNCHANGED req
  /\ UNCHANGED <<tx, events, faults, crashes>>

---------------------------------------------------------------------------
(* authorizePayout, up to the send *)

StartAuthorize(r, p) ==
  /\ req[r].pc = "idle"
  /\ row[p].status # "absent"
  /\ Become(r, [Idle EXCEPT !.pc = "authRead", !.legs = {p}])
  /\ UNCHANGED <<row, tx, events, faults, crashes>>

\* The first read: a payout that is already out is answered as a replay.
AuthorizeRead(r) ==
  /\ req[r].pc = "authRead"
  /\ \E p \in req[r].legs :
       IF row[p].status \in {"broadcasted", "confirmed"}
         THEN Finish(r)
         ELSE Goto(r, "authClaim")
  /\ UNCHANGED <<row, tx, events, faults, crashes>>

\* prepared -> authorized, in one guarded UPDATE.  A handler that loses the
\* claim answers a replay or a conflict and changes nothing.
AuthorizeClaim(r) ==
  /\ req[r].pc = "authClaim"
  /\ \E p \in req[r].legs :
       IF ClaimMatches(p)
         THEN /\ row' = [row EXCEPT ![p].status = "authorized"]
              /\ Goto(r, "balance")
         ELSE /\ UNCHANGED row
              /\ Finish(r)
  /\ UNCHANGED <<tx, events, faults, crashes>>

\* The treasury balance: enough, too little (ConflictException), or the read
\* fails.
AuthorizeBalance(r) ==
  /\ req[r].pc = "balance"
  /\ \/ Goto(r, "send") /\ NoFault
     \/ ToCatch(r, "prepared", {}) /\ NoFault
     \/ ToCatch(r, ErrorGoal, {}) /\ Fault
  /\ UNCHANGED <<row, tx, events, crashes>>

---------------------------------------------------------------------------
(* authorizePayoutBatch, up to the send *)

StartBatch(r, legs) ==
  /\ req[r].pc = "idle"
  /\ VaultConfigured
  /\ legs # {}
  /\ \A p \in legs : row[p].status # "absent"
  /\ Become(r, [Idle EXCEPT !.pc = "batchRead", !.legs = legs, !.todo = legs])
  /\ UNCHANGED <<row, tx, events, faults, crashes>>

\* The rows are read one by one (Promise.all over requirePayout); one that is
\* not prepared rejects the batch.
BatchRead(r, p) ==
  /\ req[r].pc = "batchRead"
  /\ p \in req[r].todo
  /\ IF row[p].status = "prepared"
       THEN Become(r, [req[r] EXCEPT
                         !.pc = IF req[r].todo = {p} THEN "batchBalance" ELSE @,
                         !.todo = @ \ {p}])
       ELSE Finish(r)
  /\ UNCHANGED <<row, tx, events, faults, crashes>>

\* The total against the treasury balance: before any claim, so a shortfall
\* has nothing to undo.
BatchBalance(r) ==
  /\ req[r].pc = "batchBalance"
  /\ \/ Become(r, [req[r] EXCEPT !.pc = "batchClaim", !.todo = req[r].legs])
     \/ Finish(r)
  /\ UNCHANGED <<row, tx, events, faults, crashes>>

\* The legs are claimed in turn, in the order of the request.  The first lost
\* claim rolls the claimed ones back.
BatchClaim(r, p) ==
  /\ req[r].pc = "batchClaim"
  /\ p \in req[r].todo
  /\ IF ClaimMatches(p)
       THEN /\ row' = [row EXCEPT ![p].status = "authorized"]
            /\ Become(r, [req[r] EXCEPT
                            !.pc = IF req[r].todo = {p} THEN "send" ELSE @,
                            !.todo = @ \ {p}])
       ELSE /\ UNCHANGED row
            /\ Become(r, IF req[r].todo = req[r].legs
                           THEN Idle
                           ELSE [req[r] EXCEPT !.pc = "rollback",
                                   !.todo = req[r].legs \ req[r].todo])
  /\ UNCHANGED <<tx, events, faults, crashes>>

\* Undo a claim after a lost race, guarded by authorized.
Rollback(r, p) ==
  /\ req[r].pc = "rollback"
  /\ p \in req[r].todo
  /\ row' = IF CatchMatches(p) THEN [row EXCEPT ![p].status = "prepared"] ELSE row
  /\ Become(r, IF req[r].todo = {p} THEN Idle
                                    ELSE [req[r] EXCEPT !.todo = @ \ {p}])
  /\ UNCHANGED <<tx, events, faults, crashes>>

---------------------------------------------------------------------------
(* The send: sendErc20Transfer, vaultPayout, vaultPayoutBatch *)

\* Nothing left the service: the allowance is too small (ConflictException,
\* vault only), or a read, the gas estimate or the signing fails.
SendFails(r) ==
  /\ req[r].pc = "send"
  /\ \/ VaultConfigured /\ ToCatch(r, "prepared", {}) /\ NoFault
     \/ ToCatch(r, ErrorGoal, {}) /\ Fault
  /\ UNCHANGED <<row, tx, events, crashes>>

\* The transaction reaches the mempool.  The node's answer may be lost, and
\* then the handler sees an error and does not know the hash.
Broadcast(r, h) ==
  /\ req[r].pc = "send"
  /\ tx[h].state = "none"
  /\ tx' = [tx EXCEPT ![h] = [NoTx EXCEPT !.state = "pending",
                                          !.legs = req[r].legs]]
  /\ \/ /\ Become(r, [req[r] EXCEPT
                        !.pc = IF WaitForReceipt THEN "receipt" ELSE "record",
                        !.todo = req[r].legs, !.hash = h])
        /\ NoFault
     \/ ToCatch(r, ErrorGoal, {}) /\ Fault
  /\ UNCHANGED <<row, events, crashes>>

\* waitForTransactionReceipt returns the receipt, or gives up.  A reverted
\* receipt is reported as 'broadcasted' and left to reconciliation.
AwaitReceipt(r) ==
  /\ req[r].pc = "receipt"
  /\ \/ /\ tx[req[r].hash].state \in {"success", "reverted"}
        /\ Become(r, [req[r] EXCEPT !.pc = "record",
                        !.confirmed = ExecutionConfirmed(req[r].hash)])
        /\ NoFault
     \/ ToCatch(r, ErrorGoal, {}) /\ Fault
  /\ UNCHANGED <<row, tx, events, crashes>>

---------------------------------------------------------------------------
(* After the send *)

\* One leg's guarded write of status and hash.  The UPDATE may fail, before
\* or after it took effect, or match no row (the code then dereferences
\* null); both enter the catch block and leave the other legs' writes behind.
RecordLeg(r, p) ==
  LET rest == req[r].todo \ {p}
      write == row' = [row EXCEPT ![p] = Recorded(p, req[r].hash, req[r].confirmed)]
  IN
  /\ req[r].pc = "record"
  /\ p \in req[r].todo
  /\ \/ /\ RecordMatches(p)
        /\ write
        /\ Become(r, IF rest # {}
                       THEN [req[r] EXCEPT !.todo = rest]
                       ELSE IF req[r].confirmed
                              THEN [req[r] EXCEPT !.pc = "enqueue",
                                                  !.todo = req[r].legs]
                              ELSE Idle)
        /\ NoFault
     \/ /\ ~RecordMatches(p)
        /\ UNCHANGED row
        /\ ToCatch(r, ErrorGoal, rest)
        /\ NoFault
     \/ /\ \/ RecordMatches(p) /\ write
           \/ UNCHANGED row
        /\ ToCatch(r, ErrorGoal, rest)
        /\ Fault
  /\ UNCHANGED <<tx, events, crashes>>

\* A record write that outlived its Promise.all.
StrayRecord(r, p) ==
  /\ req[r].pc = "catch"
  /\ p \in req[r].stray
  /\ row' = IF RecordMatches(p)
              THEN [row EXCEPT ![p] = Recorded(p, req[r].hash, req[r].confirmed)]
              ELSE row
  /\ Become(r, IF req[r].todo = {} /\ req[r].stray = {p}
                 THEN Idle
                 ELSE [req[r] EXCEPT !.stray = @ \ {p}])
  /\ UNCHANGED <<tx, events, faults, crashes>>

\* payout.confirmed for one leg.  WebhookService.enqueue swallows its errors.
EnqueueConfirmed(r, p) ==
  /\ req[r].pc = "enqueue"
  /\ p \in req[r].todo
  /\ \/ events' = [events EXCEPT ![p] = @ + 1] /\ NoFault
     \/ UNCHANGED events /\ Fault
  /\ Become(r, IF req[r].todo = {p} THEN Idle
                                    ELSE [req[r] EXCEPT !.todo = @ \ {p}])
  /\ UNCHANGED <<row, tx, crashes>>

\* The catch block: back to prepared after a ConflictException, else failed,
\* only while the row is still authorized.
CatchLeg(r, p) ==
  /\ req[r].pc = "catch"
  /\ p \in req[r].todo
  /\ row' = IF CatchMatches(p)
              THEN [row EXCEPT ![p].status = req[r].goal, ![p].failureReason = TRUE]
              ELSE row
  /\ Become(r, IF req[r].todo = {p} /\ req[r].stray = {}
                 THEN Idle
                 ELSE [req[r] EXCEPT !.todo = @ \ {p}])
  /\ UNCHANGED <<tx, events, faults, crashes>>

---------------------------------------------------------------------------
(* reconcilePayout *)

\* Read the row: without a hash there is nothing to reconcile.
StartReconcile(r, p) ==
  /\ req[r].pc = "idle"
  /\ row[p].transactionHash # None
  /\ Become(r, [Idle EXCEPT !.pc = "recQuery", !.legs = {p}, !.snap = row[p]])
  /\ UNCHANGED <<row, tx, events, faults, crashes>>

Finalized(h) == tx[h].state = "success" /\ tx[h].depth >= MinConfirmations

ReconciledIgnoresRevert(old, h) ==
  IF Finalized(h)
    THEN [old EXCEPT !.status = "confirmed", !.confirmedAt = TRUE,
                     !.failureReason = FALSE]
    ELSE old

\* The new columns, from the row read earlier and the receipt read now.
Reconciled(old, h) ==
  IF Finalized(h)
    THEN [old EXCEPT !.status = "confirmed", !.confirmedAt = TRUE,
                     !.failureReason = FALSE]
  ELSE IF tx[h].state = "reverted"
    THEN [old EXCEPT !.status = "failed", !.failureReason = TRUE]
  ELSE old

\* reconcileTransaction: an RPC error counts as 'pending'.
ReconcileQuery(r) ==
  /\ req[r].pc = "recQuery"
  /\ \/ /\ Become(r, [req[r] EXCEPT !.pc = "recWrite",
                        !.snap = Reconciled(@, req[r].snap.transactionHash)])
        /\ NoFault
     \/ Goto(r, "recWrite") /\ Fault
  /\ UNCHANGED <<row, tx, events, crashes>>

\* The write has no expectedStatus, and enqueues no webhook event.
ReconcileWrite(r) ==
  /\ req[r].pc = "recWrite"
  /\ \E p \in req[r].legs :
       row' = [row EXCEPT ![p].status = req[r].snap.status,
                          ![p].confirmedAt = req[r].snap.confirmedAt,
                          ![p].failureReason = req[r].snap.failureReason]
  /\ Finish(r)
  /\ UNCHANGED <<tx, events, faults, crashes>>

---------------------------------------------------------------------------
(* The environment *)

\* A handler dies: the process is killed, or a SQL error outside a try block
\* ends the request.  Its legs keep the status they have.  (One failed write
\* among those of a Promise.all is the crash after the others were made.)
Crash(r) ==
  /\ req[r].pc # "idle"
  /\ crashes < MaxCrashes
  /\ crashes' = crashes + 1
  /\ Finish(r)
  /\ UNCHANGED <<row, tx, events, faults>>

\* A transaction is included.  It may revert: the treasury was spent in the
\* meantime, the allowance was withdrawn, the vault has seen its reference.
Mine(h) ==
  /\ tx[h].state = "pending"
  /\ \E s \in {"success", "reverted"} : tx' = [tx EXCEPT ![h].state = s]
  /\ UNCHANGED <<row, req, events, faults, crashes>>

\* One more block on top of every included transaction.
NewBlock ==
  /\ \E h \in Hash : /\ tx[h].state \in {"success", "reverted"}
                     /\ tx[h].depth < MinConfirmations
  /\ tx' = [h \in Hash |->
              IF /\ tx[h].state \in {"success", "reverted"}
                 /\ tx[h].depth < MinConfirmations
                THEN [tx[h] EXCEPT !.depth = @ + 1]
                ELSE tx[h]]
  /\ UNCHANGED <<row, req, events, faults, crashes>>

---------------------------------------------------------------------------
(* The specification *)

\* A step of the handler in slot r that is not the start of a request.
Continue(r) ==
  \/ AuthorizeRead(r)
  \/ AuthorizeClaim(r)
  \/ AuthorizeBalance(r)
  \/ BatchBalance(r)
  \/ SendFails(r)
  \/ AwaitReceipt(r)
  \/ ReconcileQuery(r)
  \/ ReconcileWrite(r)
  \/ \E p \in Payout : \/ BatchRead(r, p)
                       \/ BatchClaim(r, p)
                       \/ Rollback(r, p)
                       \/ RecordLeg(r, p)
                       \/ StrayRecord(r, p)
                       \/ EnqueueConfirmed(r, p)
                       \/ CatchLeg(r, p)
  \/ \E h \in Hash : Broadcast(r, h)

Start(r) ==
  \/ \E p \in Payout : \/ CreatePayout(r, p)
                       \/ StartAuthorize(r, p)
                       \/ StartReconcile(r, p)
  \/ \E legs \in SUBSET Payout : StartBatch(r, legs)

Next ==
  \/ \E r \in Req : Start(r) \/ Continue(r) \/ Crash(r)
  \/ \E h \in Hash : Mine(h)
  \/ NewBlock

Spec == Init /\ [][Next]_vars

\* The scheduling that the code relies on: a handler that is waiting gets its
\* answer, the auto-reconcile job keeps visiting broadcasted payouts (it does
\* not compete for a slot in the service, hence strong fairness here), the
\* chain includes transactions and produces blocks.
AutoReconcile(p) ==
  row[p].status = "broadcasted" /\ \E r \in Req : StartReconcile(r, p)

Fairness ==
  /\ \A r \in Req : WF_vars(Continue(r))
  /\ \A p \in Payout : SF_vars(AutoReconcile(p))
  /\ \A h \in Hash : WF_vars(Mine(h))
  /\ WF_vars(NewBlock)

FairSpec == Spec /\ Fairness

---------------------------------------------------------------------------
(* Properties *)

\* The transactions that carry a leg for payout p.
Carrying(p) == {h \in Hash : p \in tx[h].legs}

\* "the ERC-20 transfer below can never be broadcast twice for the same
\* payout": whatever requests race, retry or die, no payout is a leg of two
\* transactions.
AtMostOneBroadcast ==
  \A p \in Payout : \A h, k \in Carrying(p) : h = k

\* A payout that another request may still claim has never been sent: neither
\* a release, a rollback nor a late write makes a sent payout retryable.
RetryableUnsent ==
  \A p \in Payout : row[p].status \in {"absent", "prepared"} => Carrying(p) = {}

\* The status confirmed, however old the read it was written from, means that
\* the transaction on the row pays this payout and succeeded.
ConfirmedMeansPaid ==
  \A p \in Payout :
    row[p].status = "confirmed" =>
      /\ row[p].transactionHash \in Carrying(p)
      /\ tx[row[p].transactionHash].state = "success"

\* The client hears payout.confirmed at most once, and only of a payout that
\* was paid.
EventsTruthful ==
  \A p \in Payout :
    /\ events[p] <= 1
    /\ events[p] > 0 => \E h \in Carrying(p) : tx[h].state = "success"

\* The rail seen from outside: the fate of a payout is that of the transaction
\* that carries it.
Fate(p) ==
  IF Carrying(p) = {} THEN "unsent"
  ELSE IF \E h \in Carrying(p) : tx[h].state = "success" THEN "paid"
  ELSE IF \E h \in Carrying(p) : tx[h].state = "reverted" THEN "bounced"
  ELSE "pending"

Abstract ==
  INSTANCE PayOnce WITH
    fate <- [p \in Payout |-> Fate(p)],
    group <- [p \in Payout |-> {q \in Payout : \E h \in Carrying(p) : q \in tx[h].legs}],
    announced <- {p \in Payout : events[p] > 0}

\* The service implements PayOnce: each step of a handler, of the chain and
\* of a crash sends, settles or announces as PayOnce allows, or changes
\* nothing that can be seen from outside.
ImplementsPayOnce == Abstract!Spec

\* The columns of a row agree with each other, although three handlers write
\* them: confirmedAt is set exactly on a confirmed payout, which carries no
\* failure reason, and a failed one says why.
RowCoherent ==
  \A p \in Payout :
    /\ row[p].confirmedAt <=> row[p].status = "confirmed"
    /\ row[p].status = "confirmed" => ~row[p].failureReason
    /\ row[p].status = "failed" => row[p].failureReason

\* Two handlers never hold the same payout between its claim and the write
\* that ends the claim.
Holds(r, p) ==
  /\ p \in req[r].legs
  /\ \/ req[r].pc \in {"balance", "send", "receipt"}
     \/ req[r].pc = "batchClaim" /\ p \notin req[r].todo
     \/ req[r].pc \in {"rollback", "record"} /\ p \in req[r].todo

ExclusiveClaim ==
  \A r, s \in Req : \A p \in Payout :
    Holds(r, p) => /\ row[p].status = "authorized"
                   /\ Holds(s, p) => r = s

\* The hash of a payout is written once: no later request, reconciliation or
\* retry replaces the transaction a client was told about.
HashWrittenOnce ==
  [][\A p \in Payout :
       row[p].transactionHash # None =>
         row'[p].transactionHash = row[p].transactionHash]_vars

\* A broadcasted payout is confirmed or failed in the end, in spite of the
\* reconciliations that write back what they read before.
EventuallySettled ==
  \A p \in Payout :
    row[p].status = "broadcasted" ~> row[p].status \in {"confirmed", "failed"}

\* Every claim ends: as long as no handler dies, each error path of the two
\* authorize handlers moves the payout out of authorized.
EventuallyUnclaimed ==
  \A p \in Payout :
    row[p].status = "authorized" ~> row[p].status # "authorized"

---------------------------------------------------------------------------
(* What the comments and the docs say, and the code does not keep *)

\* "The vault batch is atomic, so on any failure nothing was paid"
\* (payouts.service.ts): no leg of a batch that went through is marked failed.
FailedBatchUnpaid ==
  \A h \in Hash :
    tx[h].state = "success" /\ Cardinality(tx[h].legs) > 1 =>
      \A p \in tx[h].legs : row[p].status # "failed"

=============================================================================
