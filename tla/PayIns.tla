------------------------------- MODULE PayIns -------------------------------
(***************************************************************************)
(* How a pay-in learns that it was paid: PayinsService.reconcilePayIn with *)
(* its incremental scan of the chain, and acceptPayIn.  Rows do not        *)
(* interact, so one pay-in is modelled, with several handlers (HTTP        *)
(* requests, hosted checkout polls, the auto-reconcile job) that work on   *)
(* it at once.                                                             *)
(*                                                                         *)
(* A handler reads the row, asks for the latest block, reads the logs,     *)
(* and writes every column back in an UPDATE without a guard.  The RPC     *)
(* endpoint is a pool of nodes, each of which may be a few blocks behind.  *)
(***************************************************************************)
EXTENDS Naturals, FiniteSets, FiniteSetsExt

CONSTANTS
  Req,              \* slots for handlers that run at the same time
  Tx,               \* transactions that pay the deposit address or the invoice
  Amount,           \* [Tx -> Nat], the amount of each, which may be zero
  Expected,         \* expectedAmountAtomic
  LogIndex,         \* positions a log can have in its block
  MinConfirmations, \* AVASETTLE_MIN_CONFIRMATIONS
  Overlap,          \* RESCAN_OVERLAP_BLOCKS
  Expires,          \* the pay-in has an expiresAt
  AutoSweep,        \* autoSweep is on, and this is not a PaymentRouter pay-in
  MaxLag,           \* how many blocks a node of the RPC pool may be behind
  ReorgDepth,       \* how many blocks a reorganisation replaces at most
  MaxBlock,         \* bound: height of the chain
  MaxReorgs,        \* bound: reorganisations
  MaxErrors         \* bound: handlers that end in an error, events lost

\* A rescan that starts Overlap blocks back can only catch up with nodes, and
\* replaced blocks, that are not further back than that.
ASSUME PayInAssumption ==
  /\ Expected \in Nat \ {0}
  /\ Amount \in [Tx -> Nat]
  /\ MinConfirmations \in Nat
  /\ Expires \in BOOLEAN
  /\ AutoSweep \in BOOLEAN
  /\ Overlap \in Nat
  /\ MaxLag \in 0 .. Overlap
  /\ ReorgDepth \in 0 .. Overlap
  /\ MaxBlock \in Nat
  /\ MaxReorgs \in Nat
  /\ MaxErrors \in Nat
  /\ IsFiniteSet(Tx)
  /\ LogIndex # {}

VARIABLES
  block,  \* the height of the chain
  chain,  \* where each transaction is: its block (0: not included), its index
  due,    \* expiresAt has passed
  row,    \* the row of the pay-in
  req,    \* the local state of every running handler
  calls,  \* what the handlers asked of the other services, counted up to Many
  reorgs,
  errors

vars == <<block, chain, due, row, req, calls, reorgs, errors>>

---------------------------------------------------------------------------
(* Types *)

\* The pay-in was created, and its address made known, at this block.
StartBlock == 1

\* Counters of calls stop here: the properties tell some from none.
Many == 1

PayInStatus ==
  {"pending", "detected", "confirmed", "expired", "underpaid", "overpaid"}

\* An element of the transfers column.  The key of a transfer is its
\* transaction and log index.
Transfer == [tx: Tx, logIndex: LogIndex, block: Nat]

Row == [status: PayInStatus,
        transfers: SUBSET Transfer,
        lastScanned: Nat,          \* lastScannedBlock, 0 for null
        detectedAt: BOOLEAN, confirmedAt: BOOLEAN, acceptedAt: BOOLEAN]

NewRow == [status |-> "pending", transfers |-> {}, lastScanned |-> 0,
           detectedAt |-> FALSE, confirmedAt |-> FALSE, acceptedAt |-> FALSE]

Handler ==
  [pc: {"idle", "latest", "scan", "write", "detected", "confirmed", "accepted"},
   snap: Row,                 \* the row it read, then the row it will write
   to: Nat,                   \* the latest block it was told
   isFirstDetection: BOOLEAN,
   isNewConfirmation: BOOLEAN]

Idle == [pc |-> "idle", snap |-> NewRow, to |-> 0,
         isFirstDetection |-> FALSE, isNewConfirmation |-> FALSE]

Call == {"payin.detected", "payin.confirmed", "payin.accepted", "topUpAndSweep"}

TypeOK ==
  /\ block \in Nat
  /\ chain \in [Tx -> [block: Nat, logIndex: LogIndex]]
  /\ due \in BOOLEAN
  /\ row \in Row
  /\ req \in [Req -> Handler]
  /\ calls \in [Call -> 0 .. Many]
  /\ reorgs \in 0 .. MaxReorgs
  /\ errors \in 0 .. MaxErrors

Init ==
  /\ block = StartBlock
  /\ chain \in [Tx -> [block: {0}, logIndex: LogIndex]]
  /\ due = FALSE
  /\ row = NewRow
  /\ req = [r \in Req |-> Idle]
  /\ calls = [c \in Call |-> 0]
  /\ reorgs = 0
  /\ errors = 0

---------------------------------------------------------------------------
(* The pure parts of reconcilePayIn *)

Become(r, h) == req' = [req EXCEPT ![r] = h]
Bump(f, c) == [f EXCEPT ![c] = IF @ < Many THEN @ + 1 ELSE @]
Error == errors < MaxErrors /\ errors' = errors + 1

\* scanFromBlock, for a row that was scanned up to lastScanned (0: never).
\* lastScanned - Overlap + 1 > StartBlock is written without a subtraction
\* that would leave the naturals.
ScanFromBlockNoOverlap(lastScanned) == lastScanned + 1
ScanFromBlock(lastScanned) ==
  IF lastScanned + 1 > StartBlock + Overlap THEN lastScanned + 1 - Overlap
                                            ELSE StartBlock

\* The logs of the blocks from .. to, as a node at height head knows them.
FindPayInTransfers(from, to, head) ==
  {[tx |-> t, logIndex |-> chain[t].logIndex, block |-> chain[t].block] :
     t \in {u \in Tx : /\ chain[u].block >= from
                       /\ chain[u].block <= to
                       /\ chain[u].block <= head
                       /\ chain[u].block # 0}}

SameKey(t, u) == t.tx = u.tx /\ t.logIndex = u.logIndex

\* mergeTransfers: a Map by key, in which the later entry wins.
MergeTransfersReplace(existing, incoming) ==
  IF incoming = {} THEN existing ELSE incoming
MergeTransfers(existing, incoming) ==
  {t \in existing : \A u \in incoming : ~SameKey(t, u)} \cup incoming

Total(transfers) == MapThenSumSet(LAMBDA t : Amount[t.tx], transfers)

\* Neither too little nor too much, as the code compares.
Exact(transfers) ==
  ~(Total(transfers) < Expected) /\ ~(Total(transfers) > Expected)

\* The latest transfer has MinConfirmations blocks on top of it.  With
\* MinConfirmations = 0 the code still asks for one.
EnoughConfirmationsAny(transfers, latest) == transfers # {}
EnoughConfirmations(transfers, latest) ==
  /\ transfers # {}
  /\ \A t \in transfers : /\ latest > t.block
                          /\ latest >= t.block + MinConfirmations

\* The status that the total decides.  Transfers of nothing leave it pending.
StatusOf(transfers, latest) ==
  LET total == Total(transfers)
  IN  IF total = 0 THEN IF due THEN "expired" ELSE "pending"
      ELSE IF total < Expected THEN "underpaid"
      ELSE IF total > Expected THEN "overpaid"
      ELSE IF EnoughConfirmations(transfers, latest) THEN "confirmed"
      ELSE "detected"

IsFirstDetection(snap, transfers) == transfers # {} /\ ~snap.detectedAt
IsNewConfirmationOfNew(snap, status) == status = "confirmed" /\ ~snap.detectedAt
IsNewConfirmation(snap, status) == status = "confirmed" /\ ~snap.confirmedAt

---------------------------------------------------------------------------
(* reconcilePayIn, a step for each await *)

\* Read the row.  A confirmed pay-in is answered at once.
ReconcileRead(r) ==
  /\ req[r].pc = "idle"
  /\ row.status # "confirmed"
  /\ Become(r, [Idle EXCEPT !.pc = "latest", !.snap = row])
  /\ UNCHANGED <<block, chain, due, row, calls, reorgs, errors>>

\* The height that some node of the pool reports.
ReconcileLatest(r) ==
  /\ req[r].pc = "latest"
  /\ \E b \in 1 .. block :
       /\ b + MaxLag >= block
       /\ Become(r, [req[r] EXCEPT !.pc = "scan", !.to = b])
  /\ UNCHANGED <<block, chain, due, row, calls, reorgs, errors>>

\* The logs that a node at height head returns, merged with the known ones.
Scanned(h, head) ==
  MergeTransfers(h.snap.transfers,
    FindPayInTransfers(ScanFromBlock(h.snap.lastScanned), h.to, head))

\* The new columns, computed from the row read earlier and these transfers.
Decided(h, transfers, status) ==
  [h EXCEPT
     !.pc = "write",
     !.snap = [status |-> status,
               transfers |-> transfers,
               lastScanned |-> h.to,
               detectedAt |-> h.snap.detectedAt \/ IsFirstDetection(h.snap, transfers),
               confirmedAt |-> h.snap.confirmedAt \/ IsNewConfirmation(h.snap, status),
               acceptedAt |-> h.snap.acceptedAt],
     !.isFirstDetection = IsFirstDetection(h.snap, transfers),
     !.isNewConfirmation = IsNewConfirmation(h.snap, status)]

\* Read the logs, perhaps from another node than the height, and decide.
ReconcileScan(r) ==
  /\ req[r].pc = "scan"
  /\ \E head \in 1 .. block :
       /\ head + MaxLag >= block
       /\ LET transfers == Scanned(req[r], head)
          IN  Become(r, Decided(req[r], transfers, StatusOf(transfers, req[r].to)))
  /\ UNCHANGED <<block, chain, due, row, calls, reorgs, errors>>

\* Every column but acceptedAt is written, whatever the row has become.
WrittenPaid(snap) ==
  [snap EXCEPT !.status = IF @ \in {"confirmed", "overpaid"} THEN "paid" ELSE @]
Written(snap) ==
  [row EXCEPT !.status = snap.status, !.transfers = snap.transfers,
              !.lastScanned = snap.lastScanned,
              !.detectedAt = snap.detectedAt, !.confirmedAt = snap.confirmedAt]

ReconcileWrite(r) ==
  /\ req[r].pc = "write"
  /\ row' = Written(req[r].snap)
  /\ Become(r, IF req[r].isFirstDetection
                 THEN [req[r] EXCEPT !.pc = "detected"]
               ELSE IF req[r].isNewConfirmation
                 THEN [req[r] EXCEPT !.pc = "confirmed"]
               ELSE Idle)
  /\ UNCHANGED <<block, chain, due, calls, reorgs, errors>>

\* WebhookService.enqueue swallows its errors, so the handler goes on.
EnqueueDetected(r) ==
  /\ req[r].pc = "detected"
  /\ \/ calls' = Bump(calls, "payin.detected") /\ UNCHANGED errors
     \/ UNCHANGED calls /\ Error
  /\ Become(r, IF req[r].isNewConfirmation
                 THEN [req[r] EXCEPT !.pc = "confirmed"]
                 ELSE Idle)
  /\ UNCHANGED <<block, chain, due, row, reorgs>>

\* payin.confirmed, and then topUpAndSweep is started and not waited for.
EnqueueConfirmed(r) ==
  LET Swept(f) == IF AutoSweep THEN Bump(f, "topUpAndSweep") ELSE f
  IN
  /\ req[r].pc = "confirmed"
  /\ \/ calls' = Swept(Bump(calls, "payin.confirmed")) /\ UNCHANGED errors
     \/ calls' = Swept(calls) /\ Error
  /\ Become(r, Idle)
  /\ UNCHANGED <<block, chain, due, row, reorgs>>

---------------------------------------------------------------------------
(* acceptPayIn *)

\* The guarded UPDATE.  The row is read before, but what is read decides
\* nothing that is modelled: confirmedAt is set in any case.
AcceptMatches == row.status \in {"underpaid", "overpaid"}

AcceptPayIn(r) ==
  /\ req[r].pc = "idle"
  /\ AcceptMatches
  /\ row' = [row EXCEPT !.status = "confirmed", !.acceptedAt = TRUE,
                        !.confirmedAt = TRUE]
  /\ Become(r, [Idle EXCEPT !.pc = "accepted"])
  /\ UNCHANGED <<block, chain, due, calls, reorgs, errors>>

\* payin.confirmed with acceptedManually.
EnqueueAccepted(r) ==
  /\ req[r].pc = "accepted"
  /\ \/ calls' = Bump(calls, "payin.accepted") /\ UNCHANGED errors
     \/ UNCHANGED calls /\ Error
  /\ Become(r, Idle)
  /\ UNCHANGED <<block, chain, due, row, reorgs>>

---------------------------------------------------------------------------
(* The environment *)

\* A handler ends in an RPC or SQL error, or its process dies.
Abort(r) ==
  /\ req[r].pc # "idle"
  /\ Error
  /\ Become(r, Idle)
  /\ UNCHANGED <<block, chain, due, row, calls, reorgs>>

\* A new block, with some of the payments in it.
NewBlock ==
  /\ block < MaxBlock
  /\ block' = block + 1
  /\ \E S \in SUBSET {t \in Tx : chain[t].block = 0} :
       chain' = [t \in Tx |-> IF t \in S THEN [chain[t] EXCEPT !.block = block + 1]
                                         ELSE chain[t]]
  /\ UNCHANGED <<due, row, req, calls, reorgs, errors>>

\* The last blocks are replaced by as many others.  A transaction in them is
\* dropped, or included again, in another block or at another index.
Reorg ==
  /\ reorgs < MaxReorgs
  /\ reorgs' = reorgs + 1
  /\ chain' \in [Tx -> [block: 0 .. block, logIndex: LogIndex]]
  /\ \A t \in Tx :
       IF chain[t].block + ReorgDepth > block
         THEN chain'[t].block = 0 \/ chain'[t].block + ReorgDepth > block
         ELSE chain'[t] = chain[t]
  /\ UNCHANGED <<block, due, row, req, calls, errors>>

Expire ==
  /\ Expires
  /\ ~due
  /\ due' = TRUE
  /\ UNCHANGED <<block, chain, row, req, calls, reorgs, errors>>

---------------------------------------------------------------------------
(* The specification *)

Continue(r) ==
  \/ ReconcileLatest(r)
  \/ ReconcileScan(r)
  \/ ReconcileWrite(r)
  \/ EnqueueDetected(r)
  \/ EnqueueConfirmed(r)
  \/ EnqueueAccepted(r)

Next ==
  \/ \E r \in Req : ReconcileRead(r) \/ AcceptPayIn(r) \/ Continue(r) \/ Abort(r)
  \/ NewBlock
  \/ Reorg
  \/ Expire

Spec == Init /\ [][Next]_vars

\* The rows that a run of the reconciliation job visits.
CandidateNoUnderpaid ==
  \/ row.status = "pending" /\ ~due
  \/ row.status = "detected"
Candidate ==
  \/ row.status = "pending" /\ ~due
  \/ row.status \in {"detected", "underpaid"}

AutoReconcile == Candidate /\ \E r \in Req : ReconcileRead(r)

\* A handler that waits gets its answer, the job comes round again (it does
\* not compete for a slot in the service, hence strong fairness), the chain
\* grows.
Fairness ==
  /\ \A r \in Req : WF_vars(Continue(r))
  /\ SF_vars(AutoReconcile)
  /\ WF_vars(NewBlock)

FairSpec == Spec /\ Fairness

---------------------------------------------------------------------------
(* Properties *)

\* Every payment in a block that is Overlap blocks or more behind L, and will
\* not be read again, is among the transfers T.
Known(T, L) ==
  \A t \in Tx :
    /\ chain[t].block >= StartBlock
    /\ chain[t].block + Overlap <= L
    => \E u \in T : u.tx = t

\* The incremental scan leaves no gap: what lies further back than the next
\* scan will look is in the transfers column, although nodes lag, blocks are
\* replaced and handlers overwrite each other's rows.
NoTransferMissed == Known(row.transfers, row.lastScanned)

Coherent(rw) ==
  /\ rw.detectedAt <=> rw.transfers # {}
  /\ rw.status \in {"pending", "expired"} <=> Total(rw.transfers) = 0
  /\ rw.status = "underpaid" => Total(rw.transfers) < Expected
  /\ rw.status = "overpaid" => Total(rw.transfers) > Expected
  /\ rw.status = "detected" => Exact(rw.transfers)
  /\ rw.status = "confirmed" => rw.confirmedAt

\* The status and the columns tell one story, whoever wrote them last: what
\* was received decides between pending, underpaid, overpaid and detected,
\* and the dates agree.
RowCoherent == Coherent(row)

\* The transfers T are on the chain where the row says, with MinConfirmations
\* blocks on top of each.
Deep(T) ==
  \A t \in T : /\ chain[t.tx].block = t.block
              /\ t.block + MinConfirmations <= block

\* A confirmed pay-in was accepted by hand, or paid exactly and deep enough,
\* however old the row that the confirming handler started from.
ConfirmedIsPaid ==
  row.status = "confirmed" =>
    \/ row.acceptedAt
    \/ Exact(row.transfers) /\ Deep(row.transfers)

\* payin.confirmed without acceptedManually, and the automatic sweep, follow
\* only from payments that add up to the expected amount and are deep enough.
ConfirmedEventIsPaid ==
  calls["payin.confirmed"] > 0 \/ calls["topUpAndSweep"] > 0 =>
    \E T \in SUBSET FindPayInTransfers(StartBlock, block, block) : Exact(T) /\ Deep(T)

\* What has been paid so deep that every node of the pool sees enough
\* confirmations, and nothing else will come.
PaidInFull ==
  /\ \A t \in Tx : chain[t].block # 0
  /\ \A t \in Tx : chain[t].block + MinConfirmations + MaxLag + 1 <= block
  /\ MapThenSumSet(LAMBDA t : Amount[t], Tx) = Expected

\* A pay-in that is paid in full is confirmed in the end and stays confirmed,
\* in spite of handlers that write back an older row.
EventuallyConfirmed == PaidInFull ~> [](row.status = "confirmed")

\* A confirmed pay-in is announced, by whichever of the racing handlers saw
\* the confirmation as new.
ConfirmedIsAnnounced ==
  row.status = "confirmed" ~>
    calls["payin.confirmed"] + calls["payin.accepted"] > 0

---------------------------------------------------------------------------
(* What the comments and the docs say, and the code does not keep *)

\* "no blockchain scan needed since reconcilePayIn would immediately mark them
\* Expired without any transfer activity" (reconciliation.service.ts): the
\* job notices what was paid before the pay-in expired.
PaymentNoticed == PaidInFull /\ ~due ~> row.status # "pending"

\* "Logs near the tip are re-scanned on the next run in case of a reorg; the
\* dedupe in mergeTransfers makes the overlap harmless" (payins.service.ts):
\* no transaction is counted twice.
CountedOnce ==
  \A t, u \in row.transfers : t.tx = u.tx => t = u

\* "Sets status = confirmed" (docs/api.md on POST /v1/payins/:id/accept), with
\* "the database arbitrates concurrent transitions" (payin-ledger.service.ts):
\* a pay-in that was accepted by hand is confirmed.
AcceptedIsConfirmed == row.acceptedAt => row.status = "confirmed"

=============================================================================
