---------------------------- MODULE PayInsProofs ----------------------------
(***************************************************************************)
(* Proofs about PayIns: the incremental scan leaves no gap, the columns of *)
(* the row agree, and, while the chain is not reorganised, a pay-in that   *)
(* is confirmed, or announced as confirmed, was paid.                      *)
(***************************************************************************)
EXTENDS PayIns, TLAPS

---------------------------------------------------------------------------
(* The inductive invariant *)

\* Known, with the chain as a parameter: a step of the chain is a change of
\* that parameter.
KnownIn(c, T, L) ==
  \A t \in Tx :
    /\ c[t].block >= StartBlock
    /\ c[t].block + Overlap <= L
    => \E u \in T : u.tx = t

\* What is true of a row wherever it is: in the table, or in a handler that
\* read it or is about to write it.
RowIn(c, b, rw) ==
  /\ rw.lastScanned <= b
  /\ KnownIn(c, rw.transfers, rw.lastScanned)
  /\ Coherent(rw)

RowOK(rw) == RowIn(chain, block, rw)

HandlerOK(r) ==
  /\ req[r].pc \in {"latest", "scan", "write"} => RowOK(req[r].snap)
  /\ req[r].pc = "scan" => req[r].to <= block /\ req[r].to # 0

ChainOK == \A t \in Tx : chain[t].block <= block

IInv ==
  /\ TypeOK
  /\ ChainOK
  /\ RowOK(row)
  /\ \A r \in Req : HandlerOK(r)

---------------------------------------------------------------------------
(* Lemmas about the pure parts *)

\* The rescan of a row starts no later than Overlap blocks before its end,
\* and never before the creation of the pay-in.
LEMMA ScanStart ==
  ASSUME NEW L \in Nat
  PROVE  /\ ScanFromBlock(L) \in Nat
         /\ ScanFromBlock(L) >= StartBlock
         /\ \A b \in Nat : b >= StartBlock /\ b < ScanFromBlock(L) => b + Overlap <= L
  BY PayInAssumption DEF ScanFromBlock, StartBlock

\* What a node returns are transfers, one for each transaction it knows in the
\* range.
LEMMA FoundTransfers ==
  ASSUME TypeOK, NEW from \in Nat, NEW to \in Nat, NEW head \in Nat
  PROVE  /\ FindPayInTransfers(from, to, head) \in SUBSET Transfer
         /\ \A t \in Tx : /\ chain[t].block >= from
                          /\ chain[t].block <= to
                          /\ chain[t].block <= head
                          /\ chain[t].block # 0
              => \E u \in FindPayInTransfers(from, to, head) : u.tx = t
         /\ \A u \in FindPayInTransfers(from, to, head) :
              /\ chain[u.tx].block = u.block /\ u.block # 0
              /\ chain[u.tx].logIndex = u.logIndex
  <1> DEFINE Rec(t) == [tx |-> t, logIndex |-> chain[t].logIndex,
                        block |-> chain[t].block]
             In(t) == /\ chain[t].block >= from
                      /\ chain[t].block <= to
                      /\ chain[t].block <= head
                      /\ chain[t].block # 0
  <1>1. FindPayInTransfers(from, to, head) = {Rec(t) : t \in {u \in Tx : In(u)}}
    BY Zenon DEF FindPayInTransfers
  <1>2. \A t \in Tx : /\ Rec(t) \in Transfer
                     /\ Rec(t).tx = t
                     /\ Rec(t).block = chain[t].block
                     /\ Rec(t).logIndex = chain[t].logIndex
    BY DEF TypeOK, Transfer
  <1> HIDE DEF Rec
  <1>3. FindPayInTransfers(from, to, head) \in SUBSET Transfer
    BY <1>1, <1>2
  <1>4. \A t \in Tx : In(t) =>
          \E u \in FindPayInTransfers(from, to, head) : u.tx = t
    BY <1>1, <1>2
  <1>5. \A u \in FindPayInTransfers(from, to, head) :
          /\ chain[u.tx].block = u.block /\ u.block # 0
          /\ chain[u.tx].logIndex = u.logIndex
    BY <1>1, <1>2
  <1> QED BY <1>3, <1>4, <1>5

\* A merge forgets no transaction, and makes up none.
LEMMA MergeKeeps ==
  ASSUME NEW S \in SUBSET Transfer, NEW T \in SUBSET Transfer
  PROVE  /\ MergeTransfers(S, T) \in SUBSET Transfer
         /\ T \subseteq MergeTransfers(S, T)
         /\ MergeTransfers(S, T) \subseteq S \cup T
         /\ \A u \in S : \E v \in MergeTransfers(S, T) : v.tx = u.tx
         /\ S # {} => MergeTransfers(S, T) # {}
  BY DEF MergeTransfers, SameKey, Transfer

\* No transfers are no money.
LEMMA NothingReceived == Total({}) = 0
  <1> DEFINE Sums(s) == [t \in SUBSET {} |->
                          IF t = {} THEN 0
                          ELSE LET x == CHOOSE y \in t : TRUE
                               IN Amount[x.tx] + s[t \ {x}]]
             zero == [t \in SUBSET {} |-> 0]
  <1>1. zero = Sums(zero)
    OBVIOUS
  <1>2. \A s : s = Sums(s) => s[{}] = 0
    OBVIOUS
  <1>3. (CHOOSE s : s = Sums(s))[{}] = 0
    BY <1>1, <1>2
  <1> QED BY <1>3 DEF Total, MapThenSumSet, MapThenFoldSet

\* The status computed from the transfers is a status, and agrees with them.
LEMMA StatusAgrees ==
  ASSUME TypeOK, NEW T, NEW latest
  PROVE  /\ StatusOf(T, latest) \in PayInStatus
         /\ StatusOf(T, latest) \in {"pending", "expired"} <=> Total(T) = 0
         /\ StatusOf(T, latest) = "underpaid" => Total(T) < Expected
         /\ StatusOf(T, latest) = "overpaid" => Total(T) > Expected
         /\ StatusOf(T, latest) \in {"detected", "confirmed"} => Exact(T)
         /\ StatusOf(T, latest) = "confirmed" => EnoughConfirmations(T, latest)
  BY Zenon DEF StatusOf, PayInStatus, TypeOK, Exact

---------------------------------------------------------------------------
(* Types *)

\* A new row is a row, and an idle slot is a handler.
LEMMA IdleTyped == NewRow \in Row /\ Idle \in Handler
  BY DEF NewRow, Row, PayInStatus, Idle, Handler

\* The pay-in starts well typed.
LEMMA InitTyped == Init => TypeOK
  <1> SUFFICES ASSUME Init
               PROVE  TypeOK
    OBVIOUS
  <1>1. chain \in [Tx -> [block: Nat, logIndex: LogIndex]]
    BY DEF Init
  <1>2. row \in Row /\ req \in [Req -> Handler]
    BY IdleTyped DEF Init
  <1>3. calls \in [Call -> 0 .. Many]
    BY DEF Init, Many
  <1>4. block \in Nat /\ reorgs \in 0 .. MaxReorgs
    BY PayInAssumption DEF Init, StartBlock
  <1>6. due \in BOOLEAN
    BY Zenon DEF Init
  <1>5. errors \in 0 .. MaxErrors
    BY PayInAssumption DEF Init
  <1> QED BY <1>1, <1>2, <1>3, <1>4, <1>5, <1>6, Zenon DEF TypeOK

\* Asking another service for something keeps the counters in range.
LEMMA BumpTyped ==
  ASSUME NEW f \in [Call -> 0 .. Many], NEW c \in Call
  PROVE  Bump(f, c) \in [Call -> 0 .. Many]
  BY DEF Bump, Many

\* What a scan knows in the end are transfers.
LEMMA ScannedTyped ==
  ASSUME TypeOK, NEW r \in Req, NEW head \in Nat
  PROVE  Scanned(req[r], head) \in SUBSET Transfer
  <1>1. /\ req[r].snap.lastScanned \in Nat
        /\ req[r].to \in Nat
        /\ req[r].snap.transfers \in SUBSET Transfer
    BY DEF TypeOK, Handler, Row
  <1>2. ScanFromBlock(req[r].snap.lastScanned) \in Nat
    BY <1>1, ScanStart
  <1> QED BY <1>1, <1>2, FoundTransfers, MergeKeeps DEF Scanned

\* The row that a handler decides on is a row.
LEMMA DecidedTyped ==
  ASSUME NEW h \in Handler, NEW T \in SUBSET Transfer, NEW status \in PayInStatus
  PROVE  Decided(h, T, status) \in Handler
  <1>1. /\ IsFirstDetection(h.snap, T) \in BOOLEAN
        /\ IsNewConfirmation(h.snap, status) \in BOOLEAN
    BY DEF IsFirstDetection, IsNewConfirmation
  <1>2. h.snap \in Row /\ h.to \in Nat
    BY DEF Handler
  <1>3. /\ h.snap.detectedAt \in BOOLEAN
        /\ h.snap.confirmedAt \in BOOLEAN
        /\ h.snap.acceptedAt \in BOOLEAN
    BY <1>2 DEF Row
  <1>4. Decided(h, T, status).snap \in Row
    BY <1>1, <1>2, <1>3 DEF Decided, Handler, Row
  <1> QED BY <1>1, <1>4 DEF Decided, Handler

\* Each step of a handler, and of its environment, keeps the types.
LEMMA StepTyped == TypeOK /\ [Next]_vars => TypeOK'
  <1> SUFFICES ASSUME TypeOK, [Next]_vars
               PROVE  TypeOK'
    OBVIOUS
  <1> USE DEF TypeOK
  <1>1. ASSUME NEW r \in Req, ReconcileRead(r)
        PROVE  TypeOK'
    <2>1. [Idle EXCEPT !.pc = "latest", !.snap = row] \in Handler
      BY IdleTyped DEF Handler
    <2> QED BY <1>1, <2>1 DEF ReconcileRead, Become
  <1>2. ASSUME NEW r \in Req, ReconcileLatest(r)
        PROVE  TypeOK'
    <2>1. PICK b \in 1 .. block : Become(r, [req[r] EXCEPT !.pc = "scan", !.to = b])
      BY <1>2 DEF ReconcileLatest
    <2>2. [req[r] EXCEPT !.pc = "scan", !.to = b] \in Handler
      <3>1. b \in Nat /\ req[r] \in Handler
        OBVIOUS
      <3> QED BY <3>1 DEF Handler
    <2> QED BY <1>2, <2>1, <2>2 DEF ReconcileLatest, Become
  <1>3. ASSUME NEW r \in Req, ReconcileScan(r)
        PROVE  TypeOK'
    <2>1. PICK head \in 1 .. block :
            req' = [req EXCEPT ![r] =
                      Decided(req[r], Scanned(req[r], head),
                              StatusOf(Scanned(req[r], head), req[r].to))]
      BY <1>3 DEF ReconcileScan, Become
    <2>2. head \in Nat /\ req[r] \in Handler
      OBVIOUS
    <2>3. Decided(req[r], Scanned(req[r], head),
                  StatusOf(Scanned(req[r], head), req[r].to)) \in Handler
      BY <2>2, ScannedTyped, StatusAgrees, DecidedTyped
    <2> QED BY <1>3, <2>1, <2>3 DEF ReconcileScan
  <1>4. ASSUME NEW r \in Req, ReconcileWrite(r)
        PROVE  TypeOK'
    <2>1. row' \in Row
      BY <1>4 DEF ReconcileWrite, Written, Handler, Row
    <2>2. /\ [req[r] EXCEPT !.pc = "detected"] \in Handler
          /\ [req[r] EXCEPT !.pc = "confirmed"] \in Handler
      BY DEF Handler
    <2> QED BY <1>4, <2>1, <2>2, IdleTyped DEF ReconcileWrite, Become
  <1>5. ASSUME NEW r \in Req, EnqueueDetected(r)
        PROVE  TypeOK'
    <2>1. calls' \in [Call -> 0 .. Many]
      BY <1>5, BumpTyped DEF EnqueueDetected, Call
    <2>2. [req[r] EXCEPT !.pc = "confirmed"] \in Handler
      BY DEF Handler
    <2> QED BY <1>5, <2>1, <2>2, IdleTyped, PayInAssumption
            DEF EnqueueDetected, Become, Error
  <1>6. ASSUME NEW r \in Req, EnqueueConfirmed(r)
        PROVE  TypeOK'
    <2>1. calls' \in [Call -> 0 .. Many]
      BY <1>6, BumpTyped DEF EnqueueConfirmed, Call
    <2> QED BY <1>6, <2>1, IdleTyped, PayInAssumption
            DEF EnqueueConfirmed, Become, Error
  <1>7. ASSUME NEW r \in Req, AcceptPayIn(r)
        PROVE  TypeOK'
    <2>1. [Idle EXCEPT !.pc = "accepted"] \in Handler
      BY IdleTyped DEF Handler
    <2> QED BY <1>7, <2>1 DEF AcceptPayIn, Become, Row, PayInStatus
  <1>8. ASSUME NEW r \in Req, EnqueueAccepted(r)
        PROVE  TypeOK'
    <2>1. calls' \in [Call -> 0 .. Many]
      BY <1>8, BumpTyped DEF EnqueueAccepted, Call
    <2> QED BY <1>8, <2>1, IdleTyped, PayInAssumption
            DEF EnqueueAccepted, Become, Error
  <1>9. ASSUME NEW r \in Req, Abort(r)
        PROVE  TypeOK'
    BY <1>9, IdleTyped, PayInAssumption DEF Abort, Become, Error
  <1>10. CASE NewBlock
    BY <1>10 DEF NewBlock
  <1>11. CASE Reorg
    BY <1>11, PayInAssumption DEF Reorg
  <1>12. CASE Expire
    BY <1>12 DEF Expire
  <1>13. CASE UNCHANGED vars
    BY <1>13 DEF vars
  <1> QED BY <1>1, <1>2, <1>3, <1>4, <1>5, <1>6, <1>7, <1>8, <1>9, <1>10, <1>11,
             <1>12, <1>13 DEF Next, Continue

---------------------------------------------------------------------------
(* The invariant *)

\* A chain that only changes within Overlap blocks of L, or drops
\* transactions, does not make a row miss a payment.
LEMMA KnownStays ==
  ASSUME NEW c, NEW d, NEW T, NEW L \in Nat,
         KnownIn(c, T, L),
         \A t \in Tx : /\ d[t].block \in Nat
                       /\ \/ d[t] = c[t]
                          \/ d[t].block = 0
                          \/ d[t].block + Overlap > L
  PROVE  KnownIn(d, T, L)
  BY PayInAssumption DEF KnownIn, StartBlock

\* The scan closes the gap between what the row knew and the block it will
\* be marked as scanned up to.
LEMMA ScanIsComplete ==
  ASSUME TypeOK, ChainOK, NEW r \in Req, HandlerOK(r), req[r].pc = "scan",
         NEW head \in 1 .. block, head + MaxLag >= block
  PROVE  Known(Scanned(req[r], head), req[r].to)
  <1> DEFINE snap == req[r].snap
             from == ScanFromBlock(snap.lastScanned)
             found == FindPayInTransfers(from, req[r].to, head)
  <1>1. /\ snap.lastScanned \in Nat /\ req[r].to \in Nat
        /\ snap.transfers \in SUBSET Transfer
    BY DEF TypeOK, Handler, Row
  <1>2. /\ from \in Nat
        /\ \A b \in Nat : b >= StartBlock /\ b < from => b + Overlap <= snap.lastScanned
    BY <1>1, ScanStart
  <1>3. req[r].to <= block /\ Known(snap.transfers, snap.lastScanned)
    BY DEF HandlerOK, RowOK, RowIn, KnownIn, Known
  <1>4. SUFFICES ASSUME NEW t \in Tx,
                        chain[t].block >= StartBlock,
                        chain[t].block + Overlap <= req[r].to
                 PROVE  \E u \in Scanned(req[r], head) : u.tx = t
    BY DEF Known
  <1>5. chain[t].block \in Nat
    BY DEF TypeOK
  <1>6. /\ found \in SUBSET Transfer
        /\ Scanned(req[r], head) = MergeTransfers(snap.transfers, found)
    BY <1>1, <1>2, FoundTransfers DEF Scanned
  <1> HIDE DEF found, from, snap
  <1>7. CASE chain[t].block < from
    <2>1. PICK u \in snap.transfers : u.tx = t
      BY <1>2, <1>3, <1>4, <1>5, <1>7 DEF Known
    <2> QED BY <1>1, <1>6, <2>1, MergeKeeps
  <1>8. CASE chain[t].block >= from
    <2>1. chain[t].block <= req[r].to /\ chain[t].block <= head /\ chain[t].block # 0
      BY <1>1, <1>3, <1>4, <1>5, PayInAssumption DEF StartBlock, TypeOK
    <2>2. PICK u \in found : u.tx = t
      BY <1>1, <1>2, <1>8, <2>1, FoundTransfers DEF found
    <2> QED BY <1>1, <1>6, <2>2, MergeKeeps
  <1> QED BY <1>2, <1>5, <1>7, <1>8

\* The columns that a handler decides on agree with each other.
LEMMA DecidedCoherent ==
  ASSUME TypeOK, NEW h \in Handler, Coherent(h.snap),
         NEW T \in SUBSET Transfer, h.snap.transfers # {} => T # {}
  PROVE  Coherent(Decided(h, T, StatusOf(T, h.to)).snap)
  <1> DEFINE status == StatusOf(T, h.to)
             new == Decided(h, T, status).snap
  <1>1. /\ h.snap.detectedAt \in BOOLEAN /\ h.snap.confirmedAt \in BOOLEAN
    BY DEF Handler, Row
  <1>2. /\ new.status = status
        /\ new.transfers = T
        /\ new.detectedAt = (h.snap.detectedAt \/ IsFirstDetection(h.snap, T))
        /\ new.confirmedAt = (h.snap.confirmedAt \/ IsNewConfirmation(h.snap, status))
    BY DEF Decided, Handler
  <1>3. h.snap.detectedAt <=> h.snap.transfers # {}
    BY DEF Coherent
  <1> HIDE DEF status, new
  <1>4. new.detectedAt <=> T # {}
    BY <1>1, <1>2, <1>3, Zenon DEF IsFirstDetection
  <1>5. new.status = "confirmed" => new.confirmedAt
    BY <1>1, <1>2, Zenon DEF IsNewConfirmation
  <1>6. /\ new.status \in {"pending", "expired"} <=> Total(new.transfers) = 0
        /\ new.status = "underpaid" => Total(new.transfers) < Expected
        /\ new.status = "overpaid" => Total(new.transfers) > Expected
        /\ new.status = "detected" => Exact(new.transfers)
    BY <1>2, StatusAgrees, ZenonT(30) DEF status
  <1> QED BY <1>2, <1>4, <1>5, <1>6, Zenon DEF Coherent, new, status

\* A step of the chain within its last blocks leaves every row as complete as
\* it was.
LEMMA RowStays ==
  ASSUME NEW c, NEW d, NEW b \in Nat, NEW e \in Nat, b <= e,
         NEW rw \in Row, RowIn(c, b, rw),
         \A t \in Tx : /\ d[t].block \in Nat
                       /\ \/ d[t] = c[t]
                          \/ d[t].block = 0
                          \/ d[t].block + Overlap > b
  PROVE  RowIn(d, e, rw)
  <1>1. rw.lastScanned \in Nat /\ rw.lastScanned <= b
    BY DEF Row, RowIn
  <1>2. \A t \in Tx : /\ d[t].block \in Nat
                      /\ \/ d[t] = c[t]
                         \/ d[t].block = 0
                         \/ d[t].block + Overlap > rw.lastScanned
    BY <1>1, PayInAssumption
  <1>3. KnownIn(d, rw.transfers, rw.lastScanned)
    BY <1>1, <1>2, KnownStays DEF RowIn
  <1> QED BY <1>1, <1>3 DEF RowIn

\* The invariant holds of a new pay-in.
LEMMA InitIInv == Init => IInv
  <1> SUFFICES ASSUME Init
               PROVE  IInv
    OBVIOUS
  <1>1. TypeOK
    BY InitTyped
  <1>2. \A t \in Tx : chain[t].block = 0
    BY DEF Init
  <1>3. ChainOK
    BY <1>1, <1>2 DEF ChainOK, TypeOK
  <1>4. RowOK(row)
    <2>1. Coherent(NewRow)
      BY NothingReceived DEF Coherent, NewRow
    <2>2. KnownIn(chain, {}, 0)
      BY <1>2 DEF KnownIn, StartBlock
    <2> QED BY <2>1, <2>2 DEF RowOK, RowIn, Init, NewRow, StartBlock
  <1>5. \A r \in Req : HandlerOK(r)
    BY DEF HandlerOK, Init, Idle
  <1> QED BY <1>1, <1>3, <1>4, <1>5 DEF IInv

\* A step that changes neither the chain nor the row, and leaves every handler
\* with what it had or past its write, keeps the invariant.
LEMMA QuietStep ==
  ASSUME IInv, TypeOK', UNCHANGED <<block, chain, row>>,
         NEW r \in Req, NEW h, req' = [req EXCEPT ![r] = h],
         h.pc \notin {"latest", "scan", "write"}
  PROVE  IInv'
  <1>1. \A s \in Req : HandlerOK(s)'
    BY DEF IInv, TypeOK, HandlerOK, RowOK
  <1> QED BY <1>1 DEF IInv, ChainOK, RowOK

\* A step of the chain keeps the invariant.
LEMMA ChainStep ==
  ASSUME IInv, TypeOK', UNCHANGED <<row, req>>, block <= block',
         \A t \in Tx : /\ chain'[t].block <= block'
                       /\ \/ chain'[t] = chain[t]
                          \/ chain'[t].block = 0
                          \/ chain'[t].block + Overlap > block
  PROVE  IInv'
  <1>1. /\ block \in Nat /\ block' \in Nat
        /\ \A t \in Tx : chain'[t].block \in Nat
    BY DEF IInv, TypeOK
  <1>2. ChainOK'
    BY DEF ChainOK
  <1>3. RowOK(row)'
    <2>1. row \in Row /\ RowIn(chain, block, row)
      BY DEF IInv, TypeOK, RowOK
    <2> QED BY <1>1, <2>1, RowStays DEF RowOK
  <1>4. ASSUME NEW r \in Req
        PROVE  HandlerOK(r)'
    <2>1. req[r] \in Handler /\ HandlerOK(r)
      BY DEF IInv, TypeOK
    <2>2. req[r].snap \in Row /\ req[r].to \in Nat
      BY <2>1 DEF Handler
    <2>3. CASE req[r].pc \in {"latest", "scan", "write"}
      <3>1. RowIn(chain, block, req[r].snap)
        BY <2>1, <2>3 DEF HandlerOK, RowOK
      <3>2. RowIn(chain', block', req[r].snap)
        BY <1>1, <2>2, <3>1, RowStays
      <3> QED BY <1>1, <2>1, <2>2, <3>2 DEF HandlerOK, RowOK
    <2>4. CASE req[r].pc \notin {"latest", "scan", "write"}
      BY <2>4 DEF HandlerOK
    <2> QED BY <2>3, <2>4
  <1> QED BY <1>2, <1>3, <1>4 DEF IInv

\* A step of one handler that ends in h keeps the invariant when h is fine.
LEMMA HandlerStep ==
  ASSUME IInv, TypeOK', UNCHANGED <<block, chain, row>>,
         NEW r \in Req, NEW h, req' = [req EXCEPT ![r] = h],
         RowIn(chain, block, h.snap),
         h.pc = "scan" => h.to <= block /\ h.to # 0
  PROVE  IInv'
  <1>1. req'[r] = h /\ \A s \in Req \ {r} : req'[s] = req[s]
    BY DEF IInv, TypeOK
  <1>2. \A s \in Req : HandlerOK(s)'
    BY <1>1 DEF IInv, HandlerOK, RowOK
  <1> QED BY <1>2 DEF IInv, ChainOK, RowOK

\* Every step keeps the invariant.
LEMMA StepIInv == IInv /\ [Next]_vars => IInv'
  <1> SUFFICES ASSUME IInv, [Next]_vars
               PROVE  IInv'
    OBVIOUS
  <1>0. TypeOK /\ TypeOK'
    BY StepTyped DEF IInv
  <1>1. ASSUME NEW r \in Req, ReconcileRead(r)
        PROVE  IInv'
    <2> DEFINE h == [Idle EXCEPT !.pc = "latest", !.snap = row]
    <2>1. h.pc = "latest" /\ h.snap = row
      BY DEF Idle
    <2>2. RowIn(chain, block, h.snap)
      BY <2>1 DEF IInv, RowOK
    <2>3. req' = [req EXCEPT ![r] = h] /\ UNCHANGED <<block, chain, row>>
      BY <1>1 DEF ReconcileRead, Become
    <2> HIDE DEF h
    <2> QED BY <1>0, <2>1, <2>2, <2>3, HandlerStep
  <1>2. ASSUME NEW r \in Req, ReconcileLatest(r)
        PROVE  IInv'
    <2>1. PICK b \in 1 .. block :
            req' = [req EXCEPT ![r] = [req[r] EXCEPT !.pc = "scan", !.to = b]]
      BY <1>2 DEF ReconcileLatest, Become
    <2> DEFINE h == [req[r] EXCEPT !.pc = "scan", !.to = b]
    <2>2. req[r] \in Handler /\ req[r].pc = "latest"
      BY <1>0, <1>2 DEF TypeOK, ReconcileLatest
    <2>3. h.snap = req[r].snap /\ h.to = b
      BY <2>2 DEF Handler
    <2>4. RowIn(chain, block, h.snap)
      BY <2>2, <2>3 DEF IInv, HandlerOK, RowOK
    <2>5. h.to <= block /\ h.to # 0
      BY <1>0, <2>3 DEF TypeOK
    <2>6. UNCHANGED <<block, chain, row>>
      BY <1>2 DEF ReconcileLatest
    <2> HIDE DEF h
    <2> QED BY <1>0, <2>1, <2>4, <2>5, <2>6, HandlerStep DEF h
  <1>3. ASSUME NEW r \in Req, ReconcileScan(r)
        PROVE  IInv'
    <2>1. PICK head \in 1 .. block :
            /\ head + MaxLag >= block
            /\ req' = [req EXCEPT ![r] =
                         Decided(req[r], Scanned(req[r], head),
                                 StatusOf(Scanned(req[r], head), req[r].to))]
      BY <1>3 DEF ReconcileScan, Become
    <2> DEFINE T == Scanned(req[r], head)
               h == Decided(req[r], T, StatusOf(T, req[r].to))
    <2>2. /\ req[r] \in Handler /\ req[r].pc = "scan"
          /\ HandlerOK(r) /\ ChainOK /\ head \in Nat
      BY <1>0, <1>3 DEF TypeOK, ReconcileScan, IInv
    <2>3. Coherent(req[r].snap) /\ req[r].to <= block
      BY <2>2 DEF HandlerOK, RowOK, RowIn
    <2>4. T \in SUBSET Transfer
      BY <1>0, <2>2, ScannedTyped
    <2>5. req[r].snap.transfers # {} => T # {}
      <3>1. /\ req[r].snap.transfers \in SUBSET Transfer
            /\ req[r].snap.lastScanned \in Nat
            /\ req[r].to \in Nat
        BY <2>2 DEF Handler, Row
      <3>2. FindPayInTransfers(ScanFromBlock(req[r].snap.lastScanned), req[r].to, head)
              \in SUBSET Transfer
        BY <1>0, <2>2, <3>1, ScanStart, FoundTransfers
      <3> QED BY <3>1, <3>2, MergeKeeps DEF Scanned
    <2>6. Known(T, req[r].to)
      BY <1>0, <2>1, <2>2, ScanIsComplete
    <2> HIDE DEF T
    <2>7. Coherent(h.snap)
      BY <1>0, <2>2, <2>3, <2>4, <2>5, DecidedCoherent
    <2>8. h.pc = "write" /\ h.snap.transfers = T /\ h.snap.lastScanned = req[r].to
      BY <2>2 DEF Decided, Handler
    <2> HIDE DEF h
    <2>9. RowIn(chain, block, h.snap)
      BY <2>3, <2>6, <2>7, <2>8 DEF RowIn, KnownIn, Known
    <2>10. UNCHANGED <<block, chain, row>>
      BY <1>3 DEF ReconcileScan
    <2>11. req' = [req EXCEPT ![r] = h]
      BY <2>1 DEF h, T
    <2> QED BY <1>0, <2>8, <2>9, <2>10, <2>11, HandlerStep
  <1>4. ASSUME NEW r \in Req, ReconcileWrite(r)
        PROVE  IInv'
    <2>1. /\ req[r] \in Handler /\ row \in Row
          /\ RowIn(chain, block, req[r].snap)
      BY <1>0, <1>4 DEF TypeOK, ReconcileWrite, IInv, HandlerOK, RowOK
    <2>2. /\ row'.status = req[r].snap.status
          /\ row'.transfers = req[r].snap.transfers
          /\ row'.lastScanned = req[r].snap.lastScanned
          /\ row'.detectedAt = req[r].snap.detectedAt
          /\ row'.confirmedAt = req[r].snap.confirmedAt
      BY <1>4, <2>1 DEF ReconcileWrite, Written, Row
    <2>3. Coherent(row')
      BY <2>1, <2>2 DEF RowIn, Coherent
    <2>4. RowOK(row)'
      BY <1>4, <2>1, <2>2, <2>3 DEF RowOK, RowIn, ReconcileWrite
    <2>5. /\ req'[r].pc \in {"detected", "confirmed", "idle"}
          /\ \A s \in Req \ {r} : req'[s] = req[s]
      BY <1>0, <1>4, <2>1 DEF ReconcileWrite, Become, TypeOK, Handler, Idle
    <2>6. \A s \in Req : HandlerOK(s)'
      BY <1>4, <2>5 DEF IInv, HandlerOK, RowOK, ReconcileWrite
    <2> QED BY <1>0, <1>4, <2>4, <2>6 DEF IInv, ChainOK, ReconcileWrite
  <1>5. ASSUME NEW r \in Req, EnqueueDetected(r)
        PROVE  IInv'
    <2>1. req[r] \in Handler
      BY <1>0 DEF TypeOK
    <2> DEFINE h == IF req[r].isNewConfirmation
                      THEN [req[r] EXCEPT !.pc = "confirmed"]
                      ELSE Idle
    <2>2. h.pc \notin {"latest", "scan", "write"}
      BY <2>1 DEF Handler, Idle
    <2>3. req' = [req EXCEPT ![r] = h] /\ UNCHANGED <<block, chain, row>>
      BY <1>5 DEF EnqueueDetected, Become
    <2> HIDE DEF h
    <2> QED BY <1>0, <2>2, <2>3, QuietStep
  <1>6. ASSUME NEW r \in Req,
               EnqueueConfirmed(r) \/ EnqueueAccepted(r) \/ Abort(r)
        PROVE  IInv'
    <2>1. req' = [req EXCEPT ![r] = Idle] /\ UNCHANGED <<block, chain, row>>
      BY <1>6 DEF EnqueueConfirmed, EnqueueAccepted, Abort, Become
    <2>2. Idle.pc \notin {"latest", "scan", "write"}
      BY DEF Idle
    <2> QED BY <1>0, <2>1, <2>2, QuietStep
  <1>7. ASSUME NEW r \in Req, AcceptPayIn(r)
        PROVE  IInv'
    <2>1. row \in Row /\ RowIn(chain, block, row)
      BY <1>0 DEF TypeOK, IInv, RowOK
    <2>2. /\ row'.status = "confirmed"
          /\ row'.transfers = row.transfers
          /\ row'.lastScanned = row.lastScanned
          /\ row'.detectedAt = row.detectedAt
          /\ row'.confirmedAt = TRUE
      BY <1>7, <2>1 DEF AcceptPayIn, Row
    <2>3. row.status \in {"underpaid", "overpaid"}
      BY <1>7 DEF AcceptPayIn, AcceptMatches
    <2>4. Coherent(row')
      BY <2>1, <2>2, <2>3 DEF RowIn, Coherent
    <2>5. RowOK(row)'
      BY <1>7, <2>1, <2>2, <2>4 DEF RowOK, RowIn, AcceptPayIn
    <2>6. /\ req'[r].pc = "accepted"
          /\ \A s \in Req \ {r} : req'[s] = req[s]
      BY <1>0, <1>7 DEF AcceptPayIn, Become, TypeOK, Idle
    <2>7. \A s \in Req : HandlerOK(s)'
      BY <1>7, <2>6 DEF IInv, HandlerOK, RowOK, AcceptPayIn
    <2> QED BY <1>0, <1>7, <2>5, <2>7 DEF IInv, ChainOK, AcceptPayIn
  <1>8. CASE NewBlock
    <2>1. PICK S \in SUBSET {t \in Tx : chain[t].block = 0} :
            chain' = [t \in Tx |->
                        IF t \in S THEN [chain[t] EXCEPT !.block = block + 1]
                                   ELSE chain[t]]
      BY <1>8 DEF NewBlock
    <2>2. block \in Nat /\ block' = block + 1 /\ block <= block'
      BY <1>0, <1>8 DEF TypeOK, NewBlock
    <2>3. \A t \in Tx : chain'[t] = chain[t] \/ chain'[t].block = block + 1
      BY <1>0, <2>1 DEF TypeOK
    <2>4. \A t \in Tx : /\ chain'[t].block <= block'
                        /\ \/ chain'[t] = chain[t]
                           \/ chain'[t].block + Overlap > block
      <3>1. \A t \in Tx : chain[t].block \in Nat /\ chain[t].block <= block
        BY <1>0 DEF TypeOK, IInv, ChainOK
      <3> QED BY <2>2, <2>3, <3>1, PayInAssumption
    <2> QED BY <1>0, <1>8, <2>2, <2>4, ChainStep DEF NewBlock
  <1>9. CASE Reorg
    <2>1. block \in Nat /\ block <= block'
      BY <1>0, <1>9 DEF TypeOK, Reorg
    <2>2. \A t \in Tx : chain'[t].block \in 0 .. block
      BY <1>9 DEF Reorg
    <2>3. \A t \in Tx : \/ chain'[t] = chain[t]
                        \/ chain'[t].block = 0
                        \/ chain'[t].block + ReorgDepth > block
      BY <1>9 DEF Reorg
    <2>4. \A t \in Tx : /\ chain'[t].block <= block'
                        /\ \/ chain'[t] = chain[t]
                           \/ chain'[t].block = 0
                           \/ chain'[t].block + Overlap > block
      BY <1>9, <2>1, <2>2, <2>3, PayInAssumption DEF Reorg
    <2> QED BY <1>0, <1>9, <2>1, <2>4, ChainStep DEF Reorg
  <1>10. CASE Expire \/ UNCHANGED vars
    <2>1. UNCHANGED <<block, chain, row, req>>
      BY <1>10 DEF Expire, vars
    <2>2. \A s \in Req : HandlerOK(s)'
      BY <2>1 DEF IInv, HandlerOK, RowOK
    <2> QED BY <1>0, <2>1, <2>2 DEF IInv, ChainOK, RowOK
  <1> QED BY <1>1, <1>2, <1>3, <1>4, <1>5, <1>6, <1>7, <1>8, <1>9, <1>10
          DEF Next, Continue

---------------------------------------------------------------------------
(* The theorems *)

\* The invariant holds in every reachable state.
LEMMA Invariance == Spec => []IInv
  BY InitIInv, StepIInv, PTL DEF Spec

\* Every variable keeps its type: the handlers write only rows that the
\* schema and the enum of statuses allow.
THEOREM TypeCorrect == Spec => []TypeOK
  <1>1. IInv => TypeOK
    BY DEF IInv
  <1> QED BY <1>1, Invariance, PTL

\* The incremental scan of reconcilePayIn leaves no gap, for every overlap that
\* is at least the lag of the nodes and the depth of a reorganisation.
THEOREM ScanMissesNothing == Spec => []NoTransferMissed
  <1>1. IInv => NoTransferMissed
    BY DEF IInv, RowOK, RowIn, KnownIn, Known, NoTransferMissed
  <1> QED BY <1>1, Invariance, PTL

\* The columns of a pay-in agree, in spite of the unguarded writes of
\* reconcilePayIn and the guarded one of acceptPayIn.
THEOREM ColumnsAgree == Spec => []RowCoherent
  <1>1. IInv => RowCoherent
    BY DEF IInv, RowOK, RowIn, RowCoherent
  <1> QED BY <1>1, Invariance, PTL

---------------------------------------------------------------------------
(* Without reorganisations a confirmed pay-in was paid *)

\* The transfers T are on the chain c where they say they are.
RealIn(c, T) ==
  \A u \in T : /\ c[u.tx].block = u.block /\ u.block # 0
              /\ c[u.tx].logIndex = u.logIndex

\* Deep, with the chain and its height as parameters.
DeepIn(c, b, T) ==
  \A t \in T : c[t.tx].block = t.block /\ t.block + MinConfirmations <= b

HandlerPaid(r) ==
  /\ req[r].pc \in {"latest", "scan", "write"} => RealIn(chain, req[r].snap.transfers)
  /\ req[r].pc = "write" /\ req[r].snap.status = "confirmed" =>
       Exact(req[r].snap.transfers) /\ DeepIn(chain, block, req[r].snap.transfers)

PInv ==
  /\ RealIn(chain, row.transfers)
  /\ row.status = "confirmed" =>
       \/ row.acceptedAt
       \/ Exact(row.transfers) /\ DeepIn(chain, block, row.transfers)
  /\ \A r \in Req : HandlerPaid(r)

\* A chain that grows without moving a transaction keeps what was paid.
LEMMA PaidStays ==
  ASSUME NEW c, NEW d, NEW b \in Nat, NEW e \in Nat, b <= e,
         NEW T \in SUBSET Transfer, RealIn(c, T),
         \A t \in Tx : c[t].block # 0 => d[t] = c[t]
  PROVE  /\ RealIn(d, T)
         /\ DeepIn(c, b, T) => DeepIn(d, e, T)
  <1>1. \A u \in T : u.tx \in Tx /\ u.block \in Nat /\ d[u.tx] = c[u.tx]
    BY DEF RealIn, Transfer
  <1>2. RealIn(d, T)
    BY <1>1 DEF RealIn
  <1>3. ASSUME DeepIn(c, b, T)
        PROVE  DeepIn(d, e, T)
    BY <1>1, <1>3, PayInAssumption DEF DeepIn
  <1> QED BY <1>2, <1>3

\* What a scan reads and keeps is on the chain, and what it finds deep enough
\* is deep enough.
LEMMA ScanIsReal ==
  ASSUME TypeOK, NEW r \in Req, NEW head \in Nat,
         RealIn(chain, req[r].snap.transfers), req[r].to <= block
  PROVE  LET T == Scanned(req[r], head)
         IN  /\ RealIn(chain, T)
             /\ EnoughConfirmations(T, req[r].to) => DeepIn(chain, block, T)
  <1> DEFINE snap == req[r].snap
             found == FindPayInTransfers(ScanFromBlock(snap.lastScanned), req[r].to, head)
             T == Scanned(req[r], head)
  <1>1. /\ snap.lastScanned \in Nat /\ req[r].to \in Nat
        /\ snap.transfers \in SUBSET Transfer
    BY DEF TypeOK, Handler, Row
  <1>2. /\ found \in SUBSET Transfer
        /\ \A u \in found : /\ chain[u.tx].block = u.block /\ u.block # 0
                           /\ chain[u.tx].logIndex = u.logIndex
    <2>1. ScanFromBlock(snap.lastScanned) \in Nat
      BY <1>1, ScanStart
    <2> QED BY <1>1, <2>1, FoundTransfers
  <1>3. T \subseteq snap.transfers \cup found
    BY <1>1, <1>2, MergeKeeps DEF Scanned
  <1> HIDE DEF found, T
  <1>4. RealIn(chain, T)
    BY <1>2, <1>3 DEF RealIn
  <1>5. ASSUME EnoughConfirmations(T, req[r].to)
        PROVE  DeepIn(chain, block, T)
    <2>1. \A t \in T : t.block \in Nat
      BY <1>1, <1>2, <1>3 DEF Transfer
    <2> QED BY <1>1, <1>4, <1>5, <2>1, PayInAssumption
            DEF EnoughConfirmations, DeepIn, RealIn, TypeOK
  <1> QED BY <1>4, <1>5 DEF T

\* A step of one handler, with chain and row unchanged.
LEMMA PaidHandlerStep ==
  ASSUME IInv, PInv, UNCHANGED <<block, chain, row>>,
         NEW r \in Req, NEW h, req' = [req EXCEPT ![r] = h],
         h.pc \in {"latest", "scan", "write"} => RealIn(chain, h.snap.transfers),
         h.pc = "write" /\ h.snap.status = "confirmed" =>
           Exact(h.snap.transfers) /\ DeepIn(chain, block, h.snap.transfers)
  PROVE  PInv'
  <1>1. req'[r] = h /\ \A s \in Req \ {r} : req'[s] = req[s]
    BY DEF IInv, TypeOK
  <1>2. HandlerPaid(r)'
    BY <1>1 DEF HandlerPaid
  <1>3. ASSUME NEW s \in Req \ {r}
        PROVE  HandlerPaid(s)'
    BY <1>1 DEF PInv, HandlerPaid
  <1> QED BY <1>2, <1>3 DEF PInv

\* Every step of a chain that is not reorganised keeps what was paid.
LEMMA StepPInv ==
  ASSUME MaxReorgs = 0, IInv, PInv, [Next]_vars
  PROVE  PInv'
  <1>0. TypeOK /\ block \in Nat /\ row \in Row
    BY DEF IInv, TypeOK
  <1>1. ASSUME NEW r \in Req, ReconcileRead(r)
        PROVE  PInv'
    <2> DEFINE h == [Idle EXCEPT !.pc = "latest", !.snap = row]
    <2>1. h.pc = "latest" /\ h.snap = row
      BY DEF Idle
    <2>2. req' = [req EXCEPT ![r] = h] /\ UNCHANGED <<block, chain, row>>
      BY <1>1 DEF ReconcileRead, Become
    <2>3. RealIn(chain, row.transfers)
      BY DEF PInv
    <2> HIDE DEF h
    <2> QED BY <2>1, <2>2, <2>3, PaidHandlerStep
  <1>2. ASSUME NEW r \in Req, ReconcileLatest(r)
        PROVE  PInv'
    <2>1. PICK b \in 1 .. block :
            req' = [req EXCEPT ![r] = [req[r] EXCEPT !.pc = "scan", !.to = b]]
      BY <1>2 DEF ReconcileLatest, Become
    <2> DEFINE h == [req[r] EXCEPT !.pc = "scan", !.to = b]
    <2>2. req[r] \in Handler /\ req[r].pc = "latest"
      BY <1>0, <1>2 DEF TypeOK, ReconcileLatest
    <2>3. h.snap = req[r].snap /\ h.pc = "scan"
      BY <2>2 DEF Handler
    <2>4. RealIn(chain, h.snap.transfers)
      BY <2>2, <2>3 DEF PInv, HandlerPaid
    <2>5. UNCHANGED <<block, chain, row>>
      BY <1>2 DEF ReconcileLatest
    <2> HIDE DEF h
    <2> QED BY <2>1, <2>3, <2>4, <2>5, PaidHandlerStep DEF h
  <1>3. ASSUME NEW r \in Req, ReconcileScan(r)
        PROVE  PInv'
    <2>1. PICK head \in 1 .. block :
            req' = [req EXCEPT ![r] =
                      Decided(req[r], Scanned(req[r], head),
                              StatusOf(Scanned(req[r], head), req[r].to))]
      BY <1>3 DEF ReconcileScan, Become
    <2> DEFINE T == Scanned(req[r], head)
               h == Decided(req[r], T, StatusOf(T, req[r].to))
    <2>2. /\ req[r] \in Handler /\ req[r].pc = "scan" /\ head \in Nat
          /\ RealIn(chain, req[r].snap.transfers) /\ req[r].to <= block
      BY <1>0, <1>3 DEF TypeOK, ReconcileScan, IInv, HandlerOK, PInv, HandlerPaid
    <2>3. RealIn(chain, T) /\ (EnoughConfirmations(T, req[r].to) => DeepIn(chain, block, T))
      BY <1>0, <2>2, ScanIsReal
    <2> HIDE DEF T
    <2>4. /\ h.pc = "write" /\ h.snap.transfers = T
          /\ h.snap.status = StatusOf(T, req[r].to)
      BY <2>2 DEF Decided, Handler
    <2> HIDE DEF h
    <2>5. h.snap.status = "confirmed" => Exact(T) /\ EnoughConfirmations(T, req[r].to)
      <3>1. StatusOf(T, req[r].to) = "confirmed" =>
              Exact(T) /\ EnoughConfirmations(T, req[r].to)
        BY <1>0, StatusAgrees, Zenon
      <3> QED BY <2>4, <3>1
    <2>6. req' = [req EXCEPT ![r] = h] /\ UNCHANGED <<block, chain, row>>
      BY <1>3, <2>1 DEF h, T, ReconcileScan
    <2> QED BY <2>3, <2>4, <2>5, <2>6, PaidHandlerStep
  <1>4. ASSUME NEW r \in Req, ReconcileWrite(r)
        PROVE  PInv'
    <2>1. /\ req[r] \in Handler /\ HandlerPaid(r) /\ req[r].pc = "write"
      BY <1>0, <1>4 DEF TypeOK, ReconcileWrite, PInv
    <2>2. /\ row'.status = req[r].snap.status
          /\ row'.transfers = req[r].snap.transfers
      BY <1>0, <1>4 DEF ReconcileWrite, Written, Row
    <2>3. /\ req'[r].pc \in {"detected", "confirmed", "idle"}
          /\ \A s \in Req \ {r} : req'[s] = req[s]
      BY <1>0, <1>4, <2>1 DEF ReconcileWrite, Become, TypeOK, Handler, Idle
    <2>4. UNCHANGED <<block, chain>>
      BY <1>4 DEF ReconcileWrite
    <2>5. \A s \in Req : HandlerPaid(s)'
      BY <2>3, <2>4 DEF PInv, HandlerPaid
    <2>6. RealIn(chain, row.transfers)'
      BY <2>1, <2>2, <2>4 DEF HandlerPaid, RealIn
    <2>7. (row'.status = "confirmed") =>
            Exact(row'.transfers) /\ DeepIn(chain, block, row'.transfers)
      BY <2>1, <2>2 DEF HandlerPaid
    <2> QED BY <2>4, <2>5, <2>6, <2>7 DEF PInv
  <1>5. ASSUME NEW r \in Req, EnqueueDetected(r)
        PROVE  PInv'
    <2> DEFINE h == IF req[r].isNewConfirmation
                      THEN [req[r] EXCEPT !.pc = "confirmed"]
                      ELSE Idle
    <2>1. h.pc \notin {"latest", "scan", "write"}
      BY <1>0 DEF TypeOK, Handler, Idle
    <2>2. req' = [req EXCEPT ![r] = h] /\ UNCHANGED <<block, chain, row>>
      BY <1>5 DEF EnqueueDetected, Become
    <2> HIDE DEF h
    <2> QED BY <2>1, <2>2, PaidHandlerStep
  <1>6. ASSUME NEW r \in Req,
               EnqueueConfirmed(r) \/ EnqueueAccepted(r) \/ Abort(r)
        PROVE  PInv'
    <2>1. req' = [req EXCEPT ![r] = Idle] /\ UNCHANGED <<block, chain, row>>
      BY <1>6 DEF EnqueueConfirmed, EnqueueAccepted, Abort, Become
    <2>2. Idle.pc \notin {"latest", "scan", "write"}
      BY DEF Idle
    <2> QED BY <2>1, <2>2, PaidHandlerStep
  <1>7. ASSUME NEW r \in Req, AcceptPayIn(r)
        PROVE  PInv'
    <2>1. row'.acceptedAt /\ row'.transfers = row.transfers
      BY <1>0, <1>7 DEF AcceptPayIn, Row
    <2>2. /\ req'[r].pc = "accepted"
          /\ \A s \in Req \ {r} : req'[s] = req[s]
      BY <1>0, <1>7 DEF AcceptPayIn, Become, TypeOK, Idle
    <2>3. UNCHANGED <<block, chain>>
      BY <1>7 DEF AcceptPayIn
    <2>4. \A s \in Req : HandlerPaid(s)'
      BY <2>2, <2>3 DEF PInv, HandlerPaid
    <2> QED BY <2>1, <2>3, <2>4 DEF PInv, RealIn
  <1>8. CASE NewBlock
    <2>1. /\ block' \in Nat /\ block <= block' /\ UNCHANGED <<row, req>>
          /\ \A t \in Tx : chain[t].block # 0 => chain'[t] = chain[t]
      BY <1>0, <1>8 DEF NewBlock
    <2>2. row.transfers \in SUBSET Transfer
      BY <1>0 DEF Row
    <2>3. /\ RealIn(chain', row.transfers)
          /\ DeepIn(chain, block, row.transfers) => DeepIn(chain', block', row.transfers)
      BY <1>0, <2>1, <2>2, PaidStays DEF PInv
    <2>4. ASSUME NEW s \in Req
          PROVE  HandlerPaid(s)'
      <3>1. req[s].snap.transfers \in SUBSET Transfer /\ HandlerPaid(s)
        BY <1>0 DEF TypeOK, Handler, Row, PInv
      <3>2. RealIn(chain, req[s].snap.transfers) =>
              /\ RealIn(chain', req[s].snap.transfers)
              /\ DeepIn(chain, block, req[s].snap.transfers) =>
                   DeepIn(chain', block', req[s].snap.transfers)
        BY <1>0, <2>1, <3>1, PaidStays
      <3> QED BY <2>1, <3>1, <3>2 DEF HandlerPaid
    <2> QED BY <2>1, <2>3, <2>4 DEF PInv
  <1>9. CASE Reorg
    BY <1>0, <1>9 DEF Reorg, TypeOK
  <1>10. CASE Expire \/ UNCHANGED vars
    <2>1. UNCHANGED <<block, chain, row, req>>
      BY <1>10 DEF Expire, vars
    <2>2. \A s \in Req : HandlerPaid(s)'
      BY <2>1 DEF PInv, HandlerPaid
    <2> QED BY <2>1, <2>2 DEF PInv
  <1> QED BY <1>1, <1>2, <1>3, <1>4, <1>5, <1>6, <1>7, <1>8, <1>9, <1>10
          DEF Next, Continue

\* While the chain is not reorganised, a pay-in is confirmed only by hand or
\* by an exact payment with MinConfirmations blocks on top, whichever rows
\* the racing reconciliations started from.
THEOREM ConfirmedWasPaid ==
  ASSUME MaxReorgs = 0
  PROVE  Spec => []ConfirmedIsPaid
  <1>1. Init => PInv
    BY DEF Init, PInv, HandlerPaid, RealIn, NewRow, Idle
  <1>2. IInv /\ PInv /\ [Next]_vars => PInv'
    BY StepPInv
  <1>3. PInv => ConfirmedIsPaid
    BY DEF PInv, ConfirmedIsPaid, Deep, DeepIn
  <1> QED BY <1>1, <1>2, <1>3, Invariance, PTL DEF Spec

---------------------------------------------------------------------------
(* What is announced as confirmed was paid *)

\* Transfers on the chain c are the expected amount, and deep enough.
SettledIn(c, b) ==
  \E T \in SUBSET Transfer : RealIn(c, T) /\ Exact(T) /\ DeepIn(c, b, T)

\* A handler that is to announce a confirmation has such transfers to show.
AnnouncesOK(h) ==
  /\ h.pc = "write" /\ h.isNewConfirmation => h.snap.status = "confirmed"
  /\ h.pc = "confirmed" \/ (h.pc = "detected" /\ h.isNewConfirmation) =>
       SettledIn(chain, block)

EventInv ==
  /\ calls["payin.confirmed"] > 0 \/ calls["topUpAndSweep"] > 0 =>
       SettledIn(chain, block)
  /\ \A r \in Req : AnnouncesOK(req[r])

\* What was paid stays paid on a chain that grows.
LEMMA SettledStays ==
  ASSUME NEW c, NEW d, NEW b \in Nat, NEW e \in Nat, b <= e,
         \A t \in Tx : c[t].block # 0 => d[t] = c[t], SettledIn(c, b)
  PROVE  SettledIn(d, e)
  <1>1. PICK T \in SUBSET Transfer : RealIn(c, T) /\ Exact(T) /\ DeepIn(c, b, T)
    BY DEF SettledIn
  <1>2. RealIn(d, T) /\ DeepIn(d, e, T)
    BY <1>1, PaidStays
  <1> QED BY <1>1, <1>2 DEF SettledIn

\* Transfers on the chain are logs that a node at its height returns.
LEMMA RealIsFound ==
  ASSUME TypeOK, ChainOK, NEW T \in SUBSET Transfer, RealIn(chain, T)
  PROVE  T \subseteq FindPayInTransfers(StartBlock, block, block)
  <1> SUFFICES ASSUME NEW u \in T
               PROVE  u \in FindPayInTransfers(StartBlock, block, block)
    OBVIOUS
  <1>1. /\ u.tx \in Tx /\ u = [tx |-> u.tx, logIndex |-> u.logIndex, block |-> u.block]
        /\ u.block \in Nat
    BY DEF Transfer
  <1>2. /\ chain[u.tx].block = u.block /\ u.block # 0
        /\ chain[u.tx].logIndex = u.logIndex
    BY DEF RealIn
  <1>3. u.tx \in {v \in Tx : /\ chain[v].block >= StartBlock
                             /\ chain[v].block <= block
                             /\ chain[v].block <= block
                             /\ chain[v].block # 0}
    BY <1>1, <1>2 DEF ChainOK, StartBlock
  <1> QED BY <1>1, <1>2, <1>3 DEF FindPayInTransfers

\* A step of one handler, with the chain unchanged.
LEMMA EventHandlerStep ==
  ASSUME IInv, EventInv, UNCHANGED <<block, chain>>,
         NEW r \in Req, NEW h, req' = [req EXCEPT ![r] = h], AnnouncesOK(h),
         \/ UNCHANGED calls
         \/ SettledIn(chain, block)
         \/ calls'["payin.confirmed"] = calls["payin.confirmed"]
            /\ calls'["topUpAndSweep"] = calls["topUpAndSweep"]
  PROVE  EventInv'
  <1>1. req'[r] = h /\ \A s \in Req \ {r} : req'[s] = req[s]
    BY DEF IInv, TypeOK
  <1>2. SettledIn(chain, block)' <=> SettledIn(chain, block)
    BY DEF SettledIn, RealIn, DeepIn
  <1>3. \A s \in Req : AnnouncesOK(req[s])'
    BY <1>1, <1>2 DEF EventInv, AnnouncesOK
  <1> QED BY <1>2, <1>3 DEF EventInv

\* Every step of a chain that is not reorganised keeps the announcements true.
LEMMA StepEventInv ==
  ASSUME MaxReorgs = 0, IInv, PInv, EventInv, [Next]_vars
  PROVE  EventInv'
  <1>0. TypeOK /\ block \in Nat
    BY DEF IInv, TypeOK
  <1>1. ASSUME NEW r \in Req, ReconcileRead(r) \/ AcceptPayIn(r) \/ Abort(r)
        PROVE  EventInv'
    <2>1. PICK h : /\ req' = [req EXCEPT ![r] = h]
                   /\ h.pc \in {"latest", "accepted", "idle"}
      <3>1. /\ [Idle EXCEPT !.pc = "latest", !.snap = row].pc = "latest"
            /\ [Idle EXCEPT !.pc = "accepted"].pc = "accepted"
            /\ Idle.pc = "idle"
        BY DEF Idle
      <3>2. \/ req' = [req EXCEPT ![r] = [Idle EXCEPT !.pc = "latest", !.snap = row]]
            \/ req' = [req EXCEPT ![r] = [Idle EXCEPT !.pc = "accepted"]]
            \/ req' = [req EXCEPT ![r] = Idle]
        BY <1>1 DEF ReconcileRead, AcceptPayIn, Abort, Become
      <3> QED BY <3>1, <3>2, Zenon
    <2>2. UNCHANGED <<block, chain, calls>>
      BY <1>1 DEF ReconcileRead, AcceptPayIn, Abort
    <2>3. AnnouncesOK(h)
      BY <2>1 DEF AnnouncesOK
    <2> QED BY <2>1, <2>2, <2>3, EventHandlerStep
  <1>2. ASSUME NEW r \in Req, ReconcileLatest(r)
        PROVE  EventInv'
    <2>1. PICK b \in 1 .. block :
            req' = [req EXCEPT ![r] = [req[r] EXCEPT !.pc = "scan", !.to = b]]
      BY <1>2 DEF ReconcileLatest, Become
    <2>2. UNCHANGED <<block, chain, calls>>
      BY <1>2 DEF ReconcileLatest
    <2> DEFINE h == [req[r] EXCEPT !.pc = "scan", !.to = b]
    <2>3. h.pc = "scan"
      BY <1>0 DEF TypeOK, Handler
    <2> HIDE DEF h
    <2>4. AnnouncesOK(h)
      BY <2>3 DEF AnnouncesOK
    <2> QED BY <2>1, <2>2, <2>4, EventHandlerStep DEF h
  <1>3. ASSUME NEW r \in Req, ReconcileScan(r)
        PROVE  EventInv'
    <2>1. PICK head \in 1 .. block :
            req' = [req EXCEPT ![r] =
                      Decided(req[r], Scanned(req[r], head),
                              StatusOf(Scanned(req[r], head), req[r].to))]
      BY <1>3 DEF ReconcileScan, Become
    <2>2. UNCHANGED <<block, chain, calls>>
      BY <1>3 DEF ReconcileScan
    <2> DEFINE T == Scanned(req[r], head)
               st == StatusOf(T, req[r].to)
               h == Decided(req[r], T, st)
    <2>3. req[r] \in Handler
      BY <1>0 DEF TypeOK
    <2> HIDE DEF T, st
    <2>4. /\ h.pc = "write" /\ h.snap.status = st
          /\ h.isNewConfirmation => st = "confirmed"
      BY <2>3 DEF Decided, Handler, IsNewConfirmation
    <2> HIDE DEF h
    <2>5. AnnouncesOK(h)
      BY <2>4 DEF AnnouncesOK
    <2> QED BY <2>1, <2>2, <2>5, EventHandlerStep DEF h, T, st
  <1>4. ASSUME NEW r \in Req, ReconcileWrite(r)
        PROVE  EventInv'
    <2> DEFINE h == IF req[r].isFirstDetection THEN [req[r] EXCEPT !.pc = "detected"]
                    ELSE IF req[r].isNewConfirmation THEN [req[r] EXCEPT !.pc = "confirmed"]
                    ELSE Idle
    <2>1. req' = [req EXCEPT ![r] = h] /\ UNCHANGED <<block, chain, calls>>
      BY <1>4 DEF ReconcileWrite, Become
    <2>2. req[r] \in Handler /\ req[r].pc = "write" /\ req[r].snap.transfers \in SUBSET Transfer
      BY <1>0, <1>4 DEF TypeOK, ReconcileWrite, Handler, Row
    <2>3. /\ h.pc # "write"
          /\ h.pc = "confirmed" \/ (h.pc = "detected" /\ h.isNewConfirmation) =>
               req[r].isNewConfirmation
      BY <2>2 DEF Handler, Idle
    <2>4. req[r].isNewConfirmation => SettledIn(chain, block)
      BY <2>2 DEF EventInv, AnnouncesOK, PInv, HandlerPaid, SettledIn
    <2> HIDE DEF h
    <2>5. AnnouncesOK(h)
      BY <2>3, <2>4 DEF AnnouncesOK
    <2> QED BY <2>1, <2>5, EventHandlerStep
  <1>5. ASSUME NEW r \in Req, EnqueueDetected(r)
        PROVE  EventInv'
    <2> DEFINE h == IF req[r].isNewConfirmation
                      THEN [req[r] EXCEPT !.pc = "confirmed"]
                      ELSE Idle
    <2>1. req' = [req EXCEPT ![r] = h] /\ UNCHANGED <<block, chain>>
      BY <1>5 DEF EnqueueDetected, Become
    <2>2. /\ calls'["payin.confirmed"] = calls["payin.confirmed"]
          /\ calls'["topUpAndSweep"] = calls["topUpAndSweep"]
      BY <1>0, <1>5 DEF EnqueueDetected, Bump, TypeOK, Call
    <2>3. /\ h.pc \in {"confirmed", "idle"}
          /\ h.pc = "confirmed" => req[r].isNewConfirmation /\ req[r].pc = "detected"
      BY <1>0, <1>5 DEF TypeOK, Handler, Idle, EnqueueDetected
    <2> HIDE DEF h
    <2>4. AnnouncesOK(h)
      BY <2>3 DEF EventInv, AnnouncesOK
    <2> QED BY <2>1, <2>2, <2>4, EventHandlerStep
  <1>6. ASSUME NEW r \in Req, EnqueueConfirmed(r)
        PROVE  EventInv'
    <2>1. req' = [req EXCEPT ![r] = Idle] /\ UNCHANGED <<block, chain>>
      BY <1>6 DEF EnqueueConfirmed, Become
    <2>2. SettledIn(chain, block)
      BY <1>6 DEF EnqueueConfirmed, EventInv, AnnouncesOK
    <2>3. AnnouncesOK(Idle)
      BY DEF AnnouncesOK, Idle
    <2> QED BY <2>1, <2>2, <2>3, EventHandlerStep
  <1>7. ASSUME NEW r \in Req, EnqueueAccepted(r)
        PROVE  EventInv'
    <2>1. req' = [req EXCEPT ![r] = Idle] /\ UNCHANGED <<block, chain>>
      BY <1>7 DEF EnqueueAccepted, Become
    <2>2. /\ calls'["payin.confirmed"] = calls["payin.confirmed"]
          /\ calls'["topUpAndSweep"] = calls["topUpAndSweep"]
      BY <1>0, <1>7 DEF EnqueueAccepted, Bump, TypeOK, Call
    <2>3. AnnouncesOK(Idle)
      BY DEF AnnouncesOK, Idle
    <2> QED BY <2>1, <2>2, <2>3, EventHandlerStep
  <1>8. CASE NewBlock
    <2>1. /\ block' \in Nat /\ block <= block' /\ UNCHANGED <<calls, req>>
          /\ \A t \in Tx : chain[t].block # 0 => chain'[t] = chain[t]
      BY <1>0, <1>8 DEF NewBlock
    <2>2. SettledIn(chain, block) => SettledIn(chain', block')
      BY <1>0, <2>1, SettledStays
    <2> QED BY <2>1, <2>2 DEF EventInv, AnnouncesOK
  <1>9. CASE Reorg
    BY <1>0, <1>9 DEF Reorg, TypeOK
  <1>10. CASE Expire \/ UNCHANGED vars
    <2>1. UNCHANGED <<block, chain, calls, req>>
      BY <1>10 DEF Expire, vars
    <2>2. SettledIn(chain, block)' <=> SettledIn(chain, block)
      BY <2>1 DEF SettledIn, RealIn, DeepIn
    <2> QED BY <2>1, <2>2 DEF EventInv, AnnouncesOK
  <1> QED BY <1>1, <1>2, <1>3, <1>4, <1>5, <1>6, <1>7, <1>8, <1>9, <1>10
          DEF Next, Continue

\* While the chain is not reorganised, payin.confirmed and the automatic sweep
\* follow only from transfers on the chain that are exactly the amount and deep
\* enough, although the handler that announces may be late.
THEOREM AnnouncedWasPaid ==
  ASSUME MaxReorgs = 0
  PROVE  Spec => []ConfirmedEventIsPaid
  <1>1. Init => PInv /\ EventInv
    BY DEF Init, PInv, HandlerPaid, RealIn, NewRow, Idle, EventInv, AnnouncesOK, Call
  <1>2. IInv /\ PInv /\ EventInv /\ [Next]_vars => PInv' /\ EventInv'
    BY StepPInv, StepEventInv
  <1>3. IInv /\ EventInv => ConfirmedEventIsPaid
    <2> SUFFICES ASSUME IInv, EventInv,
                        calls["payin.confirmed"] > 0 \/ calls["topUpAndSweep"] > 0
                 PROVE  \E T \in SUBSET FindPayInTransfers(StartBlock, block, block) :
                          Exact(T) /\ Deep(T)
      BY DEF ConfirmedEventIsPaid
    <2>1. PICK T \in SUBSET Transfer :
            RealIn(chain, T) /\ Exact(T) /\ DeepIn(chain, block, T)
      BY DEF EventInv, SettledIn
    <2>2. T \subseteq FindPayInTransfers(StartBlock, block, block)
      BY <2>1, RealIsFound DEF IInv
    <2> QED BY <2>1, <2>2 DEF Deep, DeepIn
  <1> QED BY <1>1, <1>2, <1>3, Invariance, PTL DEF Spec

=============================================================================
