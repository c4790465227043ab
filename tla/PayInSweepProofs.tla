-------------------------- MODULE PayInSweepProofs --------------------------
(***************************************************************************)
(* Proofs about PayInSweep: what the row says of a sweep happened, the     *)
(* first record of a sweep stays, and no retry of the job goes unaccounted. *)
(***************************************************************************)
EXTENDS PayInSweep, FiniteSetTheorems, TLAPS

---------------------------------------------------------------------------
(* The inductive invariant *)

\* The hash is that of a sweep of the amount.
SentWith(x, amount) ==
  /\ x # None
  /\ tx[x].state # "unused"
  /\ tx[x].amount = amount

\* Only derived-address pay-ins are swept.
ModesApart ==
  mode = "payment-router" <=> row.sweepStatus = "not_required"

InTry == {"gas", "balance", "send", "receipt", "record", "catch"}

\* What a handler has in hand.
HandlerOK(h) ==
  /\ req[h].pc \in InTry => mode # "payment-router"
  /\ req[h].pc = "notRequired" => mode = "payment-router"
  /\ req[h].pc = "send" => req[h].amount # None
  /\ req[h].pc \in {"receipt", "record"} => SentWith(req[h].hash, req[h].amount)
  /\ req[h].pc = "record" => Recorded(req[h].result)
  /\ req[h].pc = "record" /\ req[h].result = "confirmed" =>
       tx[req[h].hash].state = "success"

\* A sweep that succeeded has moved its amount.
TreasuryOK ==
  \A x \in Hash : tx[x].state = "success" => token.treasury >= tx[x].amount

RowOK ==
  /\ Recorded(row.sweepStatus) => SentWith(row.hash, row.sweptAmount)
  /\ row.sweepStatus = "confirmed" => tx[row.hash].state = "success"

\* A tick sweeps after its top-up.
TickOK(t) == req[t].pc = "topUp" => req[t].thenSweep

\* No retry has ended since updated_at was set, unless it was cut short, and
\* there has been one only if the row is as the job has listed it.
WindowOK ==
  /\ RetriesAccounted
  /\ window.retries > 0 => cool /\ ExpectedSweepStatus(row.sweepStatus)

IInv ==
  /\ TypeOK
  /\ ModesApart
  /\ TreasuryOK
  /\ RowOK
  /\ \A h \in Handler : HandlerOK(h)
  /\ \A t \in Tick : TickOK(t)
  /\ WindowOK

---------------------------------------------------------------------------
(* Types *)

\* An idle slot is a slot.
LEMMA IdleTyped == Idle \in Local
  BY DEF Idle, Local, Pc, SweepStatus

\* The pay-in starts well typed.
LEMMA InitTyped == Init => TypeOK
  <1> SUFFICES ASSUME Init
               PROVE  TypeOK
    OBVIOUS
  <1>1. row \in Row
    BY DEF Init, Row, SweepStatus
  <1>2. req \in [Handler -> Local]
    BY IdleTyped DEF Init
  <1>3. /\ tx \in [Hash -> [state: {"unused", "mempool", "success", "reverted"},
                            amount: Nat]]
        /\ token \in [deposit: Nat, treasury: Nat]
    BY DEF Init
  <1>4. gas \in 0 .. MaxGas /\ topUps \in 0 .. MaxPending /\ errors \in 0 .. MaxErrors
    BY SweepAssumption DEF Init
  <1>5. cool \in BOOLEAN /\ mode \in Modes
    BY DEF Init
  <1>6. requests \in 0 .. MaxRequests /\ window \in [retries: Nat, lost: Nat]
    BY SweepAssumption DEF Init, NewWindow
  <1> QED BY <1>1, <1>2, <1>3, <1>4, <1>5, <1>6 DEF TypeOK

\* A step that moves one handler.
LEMMA MoveTyped ==
  ASSUME TypeOK, NEW h \in Handler, NEW l \in Local, Become(h, l)
  PROVE  /\ req' \in [Handler -> Local]
         /\ req'[h] = l
         /\ \A g \in Handler : g # h => req'[g] = req[g]
  BY DEF TypeOK, Become

\* A step that changes its pc alone.
LEMMA GotoMoved ==
  ASSUME TypeOK, NEW h \in Handler, NEW pc \in Pc, Goto(h, pc)
  PROVE  /\ req' \in [Handler -> Local]
         /\ req'[h].pc = pc
         /\ req'[h].thenSweep = req[h].thenSweep
         /\ req'[h].amount = req[h].amount
         /\ req'[h].hash = req[h].hash
         /\ req'[h].result = req[h].result
         /\ \A g \in Handler : g # h => req'[g] = req[g]
  <1>1. req[h] \in Local
    BY DEF TypeOK
  <1>2. /\ [req[h] EXCEPT !.pc = pc] \in Local
        /\ [req[h] EXCEPT !.pc = pc].pc = pc
        /\ [req[h] EXCEPT !.pc = pc].thenSweep = req[h].thenSweep
        /\ [req[h] EXCEPT !.pc = pc].amount = req[h].amount
        /\ [req[h] EXCEPT !.pc = pc].hash = req[h].hash
        /\ [req[h] EXCEPT !.pc = pc].result = req[h].result
    BY <1>1 DEF Local
  <1>3. /\ req' \in [Handler -> Local]
        /\ req'[h] = [req[h] EXCEPT !.pc = pc]
        /\ \A g \in Handler : g # h => req'[g] = req[g]
    BY <1>2, MoveTyped DEF Goto
  <1> QED BY <1>2, <1>3

\* A step into the catch block.
LEMMA FailMoved ==
  ASSUME TypeOK, NEW h \in Handler, Fail(h)
  PROVE  /\ req' \in [Handler -> Local]
         /\ req'[h].pc = "catch"
         /\ \A g \in Handler : g # h => req'[g] = req[g]
  <1>1. [Idle EXCEPT !.pc = "catch"] \in Local /\ [Idle EXCEPT !.pc = "catch"].pc = "catch"
    BY DEF Idle, Local, Pc, SweepStatus
  <1> QED BY <1>1, MoveTyped DEF Fail

\* The balance of the deposit address is the amount, unless one was named.
LEMMA SweepBalanceMoved ==
  ASSUME TypeOK, NEW h \in Handler, SweepBalance(h)
  PROVE  /\ req' \in [Handler -> Local]
         /\ \A g \in Handler : g # h => req'[g] = req[g]
         /\ \/ req'[h].pc = "catch"
            \/ req'[h].pc = "send" /\ req'[h].amount \in Nat
  <1> DEFINE amount == IF req[h].amount = None THEN token.deposit ELSE req[h].amount
             l == [req[h] EXCEPT !.pc = "send", !.amount = amount]
  <1>1. amount \in Nat /\ req[h] \in Local
    BY DEF TypeOK, Local
  <1> HIDE DEF amount
  <1>2. l \in Local /\ l.pc = "send" /\ l.amount = amount
    BY <1>1 DEF Local, Pc
  <1> HIDE DEF l
  <1>3. Fail(h) \/ Become(h, l)
    BY DEF SweepBalance, amount, l
  <1>4. CASE Fail(h)
    BY <1>4, FailMoved
  <1>5. CASE Become(h, l)
    BY <1>1, <1>2, <1>5, MoveTyped
  <1> QED BY <1>3, <1>4, <1>5

\* The transfer is in the mempool, and its sender knows the hash or fails.
LEMMA SweepSendMoved ==
  ASSUME TypeOK, NEW h \in Handler, HandlerOK(h), SweepSend(h)
  PROVE  \E x \in Hash :
           /\ tx[x].state = "unused"
           /\ tx' = [tx EXCEPT ![x] = [state |-> "mempool", amount |-> req[h].amount]]
           /\ req[h].amount \in Nat
           /\ tx'[x].state = "mempool" /\ tx'[x].amount = req[h].amount
           /\ \A y \in Hash : y # x => tx'[y] = tx[y]
           /\ req' \in [Handler -> Local]
           /\ \A g \in Handler : g # h => req'[g] = req[g]
           /\ errors' \in 0 .. MaxErrors
           /\ \/ req'[h].pc = "catch"
              \/ /\ req'[h].pc \in {"receipt", "record"}
                 /\ req'[h].hash = x
                 /\ req'[h].amount = req[h].amount
                 /\ req'[h].result = "broadcasted"
  <1>1. PICK x \in Unused :
          /\ tx' = [tx EXCEPT ![x] = [state |-> "mempool", amount |-> req[h].amount]]
          /\ \/ /\ Become(h, [req[h] EXCEPT
                                !.pc = IF WaitForReceipt THEN "receipt" ELSE "record",
                                !.hash = x, !.result = "broadcasted"])
                /\ UNCHANGED errors
             \/ Fail(h) /\ Error
    BY DEF SweepSend
  <1>2. x \in Hash /\ tx[x].state = "unused"
    BY DEF Unused
  <1>3. req[h] \in Local /\ req[h].amount \in Nat
    BY DEF SweepSend, HandlerOK, TypeOK, Local
  <1>4. /\ tx'[x].state = "mempool" /\ tx'[x].amount = req[h].amount
        /\ \A y \in Hash : y # x => tx'[y] = tx[y]
    BY <1>1, <1>2 DEF TypeOK
  <1> DEFINE pc == IF WaitForReceipt THEN "receipt" ELSE "record"
             l == [req[h] EXCEPT !.pc = pc, !.hash = x, !.result = "broadcasted"]
  <1>5. pc \in {"receipt", "record"}
    OBVIOUS
  <1> HIDE DEF pc
  <1>6. /\ l \in Local /\ l.pc = pc /\ l.hash = x /\ l.result = "broadcasted"
        /\ l.amount = req[h].amount
    BY <1>2, <1>3, <1>5 DEF Local, Pc, SweepStatus
  <1> HIDE DEF l
  <1>7. CASE Become(h, l) /\ UNCHANGED errors
    <2>1. errors' \in 0 .. MaxErrors
      BY <1>7 DEF TypeOK
    <2> QED BY <1>1, <1>2, <1>3, <1>4, <1>5, <1>6, <1>7, <2>1, MoveTyped
  <1>8. CASE Fail(h) /\ Error
    <2>1. errors' \in 0 .. MaxErrors
      BY <1>8, SweepAssumption DEF TypeOK, Error
    <2> QED BY <1>1, <1>2, <1>3, <1>4, <1>8, <2>1, FailMoved
  <1> QED BY <1>1, <1>7, <1>8 DEF l, pc

\* The receipt is in.
LEMMA SweepReceiptMoved ==
  ASSUME TypeOK, NEW h \in Handler, SweepReceipt(h)
  PROVE  /\ req' \in [Handler -> Local]
         /\ \A g \in Handler : g # h => req'[g] = req[g]
         /\ req'[h].pc = "record"
         /\ req'[h].hash = req[h].hash
         /\ req'[h].amount = req[h].amount
         /\ Recorded(req'[h].result)
         /\ req'[h].result = "confirmed" => tx[req[h].hash].state = "success"
  <1> DEFINE st == StatusOfReceipt(tx[req[h].hash].state)
             l == [req[h] EXCEPT !.pc = "record", !.result = st]
  <1>1. /\ st \in SweepStatus /\ Recorded(st)
        /\ st = "confirmed" => tx[req[h].hash].state = "success"
        /\ req[h] \in Local
    BY DEF StatusOfReceipt, SweepStatus, Recorded, TypeOK
  <1> HIDE DEF st
  <1>2. /\ l \in Local /\ l.pc = "record" /\ l.result = st
        /\ l.hash = req[h].hash /\ l.amount = req[h].amount
    BY <1>1 DEF Local, Pc
  <1> HIDE DEF l
  <1>3. Become(h, l)
    BY DEF SweepReceipt, l, st
  <1> QED BY <1>1, <1>2, <1>3, MoveTyped

\* The row after the recording UPDATE, and after the catch block.
LEMMA RowTyped ==
  ASSUME TypeOK, NEW h \in Handler, HandlerOK(h)
  PROVE  /\ SweepRecord(h) =>
              /\ row' \in Row
              /\ cool' \in BOOLEAN
              /\ \/ /\ row' = row /\ cool' = cool /\ ~ExpectedSweepStatus(row.sweepStatus)
                    /\ window' = window
                 \/ /\ ExpectedSweepStatus(row.sweepStatus) /\ window' = NewWindow
                    /\ row'.sweepStatus = req[h].result
                    /\ row'.hash = req[h].hash
                    /\ row'.sweptAmount = req[h].amount
                    /\ row'.confirmed = row.confirmed
         /\ MarkFailed(h) =>
              /\ row' \in Row
              /\ cool' \in BOOLEAN
              /\ \/ /\ row' = row /\ cool' = cool /\ ~ExpectedSweepStatus(row.sweepStatus)
                    /\ window' = window
                 \/ /\ ExpectedSweepStatus(row.sweepStatus) /\ window' = NewWindow
                    /\ row'.sweepStatus = "failed"
                    /\ row'.confirmed = row.confirmed
  <1>1. row \in Row /\ cool \in BOOLEAN /\ req[h] \in Local
    BY DEF TypeOK
  <1>2. ASSUME SweepRecord(h)
        PROVE  req[h].amount \in Nat
    BY <1>1, <1>2 DEF SweepRecord, HandlerOK, SentWith, Local, TypeOK
  <1> QED BY <1>1, <1>2 DEF SweepRecord, MarkFailed, Touch, Row, Local, SweepStatus

\* A new request, or a new tick.
LEMMA StartTyped ==
  ASSUME TypeOK, NEW h \in Handler, NEW a \in Nat \cup {None}
  PROVE  /\ [Idle EXCEPT !.pc = "sweep", !.amount = a] \in Local
         /\ [Idle EXCEPT !.pc = "sweep", !.amount = a].pc = "sweep"
         /\ [Idle EXCEPT !.pc = "sweep"] \in Local
         /\ [Idle EXCEPT !.pc = "sweep"].pc = "sweep"
         /\ [Idle EXCEPT !.pc = "topUp"] \in Local
         /\ [Idle EXCEPT !.pc = "topUp"].pc = "topUp"
         /\ [Idle EXCEPT !.pc = "topUp", !.thenSweep = TRUE] \in Local
         /\ [Idle EXCEPT !.pc = "topUp", !.thenSweep = TRUE].pc = "topUp"
         /\ [Idle EXCEPT !.pc = "topUp", !.thenSweep = TRUE].thenSweep
  BY DEF Idle, Local, Pc, SweepStatus

\* What is included.
LEMMA IncludeSweepEffect ==
  ASSUME TypeOK, NEW x \in Hash, IncludeSweep(x)
  PROVE  /\ tx' \in [Hash -> [state: {"unused", "mempool", "success", "reverted"},
                              amount: Nat]]
         /\ \A y \in Hash : y # x => tx'[y] = tx[y]
         /\ tx[x].state = "mempool"
         /\ tx'[x].amount = tx[x].amount
         /\ tx'[x].state \in {"success", "reverted"}
         /\ token' \in [deposit: Nat, treasury: Nat]
         /\ token'.treasury >= token.treasury
         /\ tx'[x].state = "success" => token'.treasury >= tx[x].amount
         /\ gas' \in 0 .. MaxGas
  <1>1. /\ tx[x] \in [state: {"unused", "mempool", "success", "reverted"}, amount: Nat]
        /\ token.deposit \in Nat /\ token.treasury \in Nat
        /\ token \in [deposit: Nat, treasury: Nat]
    BY DEF TypeOK
  <1>2. gas' \in 0 .. MaxGas
    BY SweepAssumption DEF IncludeSweep, TypeOK
  <1>3. CASE tx[x].amount <= token.deposit
    <2>1. /\ tx' = [tx EXCEPT ![x] = [tx[x] EXCEPT !.state = "success"]]
          /\ token' = [deposit |-> token.deposit - tx[x].amount,
                       treasury |-> token.treasury + tx[x].amount]
      BY <1>3 DEF IncludeSweep
    <2>2. /\ token' \in [deposit: Nat, treasury: Nat]
          /\ token'.treasury = token.treasury + tx[x].amount
      BY <1>1, <1>3, <2>1
    <2> QED BY <1>1, <1>2, <2>1, <2>2 DEF IncludeSweep, TypeOK
  <1>4. CASE ~(tx[x].amount <= token.deposit)
    <2>1. /\ tx' = [tx EXCEPT ![x] = [tx[x] EXCEPT !.state = "reverted"]]
          /\ token' = token
      BY <1>4 DEF IncludeSweep
    <2> QED BY <1>1, <1>2, <2>1 DEF IncludeSweep, TypeOK
  <1> QED BY <1>3, <1>4

\* More gas is still gas.
LEMMA MoreGasTyped ==
  ASSUME TypeOK, MoreGas
  PROVE  gas' \in 0 .. MaxGas
  BY SweepAssumption DEF MoreGas, TypeOK

\* Every await of a handler, and every step around it, keeps the types.
LEMMA StepTyped ==
  TypeOK /\ (\A h \in Handler : HandlerOK(h)) /\ [Next]_vars => TypeOK'
  <1> SUFFICES ASSUME TypeOK, \A h \in Handler : HandlerOK(h), [Next]_vars
               PROVE  TypeOK'
    OBVIOUS
  <1>1. ASSUME NEW r \in Req, StartSweep(r)
        PROVE  TypeOK'
    <2>1. PICK a \in PartAmounts \cup {None} :
            Become(r, [Idle EXCEPT !.pc = "sweep", !.amount = a])
      BY <1>1 DEF StartSweep
    <2>2. req' \in [Handler -> Local]
      BY <2>1, StartTyped, MoveTyped, SweepAssumption DEF Handler
    <2>3. requests' \in 0 .. MaxRequests
      BY <1>1, SweepAssumption DEF StartSweep, Request, TypeOK
    <2> QED BY <1>1, <2>2, <2>3 DEF StartSweep, TypeOK
  <1>2. ASSUME NEW r \in Req, StartTopUp(r) \/ StartTopUpAndSweep(r)
        PROVE  TypeOK'
    <2>1. req' \in [Handler -> Local]
      BY <1>2, StartTyped, MoveTyped DEF StartTopUp, StartTopUpAndSweep, Handler
    <2>2. requests' \in 0 .. MaxRequests
      BY <1>2, SweepAssumption DEF StartTopUp, StartTopUpAndSweep, Request, TypeOK
    <2> QED BY <1>2, <2>1, <2>2 DEF StartTopUp, StartTopUpAndSweep, TypeOK
  <1>3. ASSUME NEW t \in Tick, RetryPendingSweeps(t)
        PROVE  TypeOK'
    <2>1. req' \in [Handler -> Local]
      BY <1>3, StartTyped, MoveTyped DEF RetryPendingSweeps, Handler
    <2>2. window' \in [retries: Nat, lost: Nat]
      BY <1>3 DEF RetryPendingSweeps, TypeOK
    <2> QED BY <1>3, <2>1, <2>2 DEF RetryPendingSweeps, TypeOK
  <1>4. ASSUME NEW h \in Handler, TopUp(h)
        PROVE  TypeOK'
    <2>1. req' \in [Handler -> Local]
      BY <1>4, IdleTyped, GotoMoved, MoveTyped DEF TopUp, Pc
    <2>2. topUps' \in 0 .. MaxPending
      BY <1>4, SweepAssumption DEF TopUp, TypeOK
    <2> QED BY <1>4, <2>1, <2>2 DEF TopUp, TypeOK
  <1>5. ASSUME NEW h \in Handler, TopUpLanded(h)
        PROVE  TypeOK'
    <2>1. req' \in [Handler -> Local]
      BY <1>5, StartTyped, MoveTyped DEF TopUpLanded
    <2> QED BY <1>5, <2>1, MoreGasTyped DEF TopUpLanded, TypeOK
  <1>6. ASSUME NEW h \in Handler,
               SweepRead(h) \/ SweepGas(h) \/ SweepRefused(h) \/ SweepTimeout(h)
        PROVE  TypeOK'
    <2>1. \/ Become(h, Idle) \/ Fail(h)
          \/ \E pc \in {"notRequired", "gas", "balance"} : Goto(h, pc)
      BY <1>6 DEF SweepRead, SweepGas, SweepRefused, SweepTimeout
    <2>2. req' \in [Handler -> Local]
      BY <2>1, IdleTyped, MoveTyped, GotoMoved, FailMoved DEF Pc
    <2> QED BY <1>6, <2>2 DEF SweepRead, SweepGas, SweepRefused, SweepTimeout, TypeOK
  <1>7. ASSUME NEW h \in Handler, WriteNotRequired(h)
        PROVE  TypeOK'
    <2>1. req' \in [Handler -> Local]
      BY <1>7, IdleTyped, MoveTyped DEF WriteNotRequired
    <2>2. row' \in Row
      BY <1>7 DEF WriteNotRequired, TypeOK, Row, SweepStatus
    <2>3. cool' \in BOOLEAN /\ window' \in [retries: Nat, lost: Nat]
      BY <1>7 DEF WriteNotRequired, Touch, NewWindow
    <2> QED BY <1>7, <2>1, <2>2, <2>3 DEF WriteNotRequired, TypeOK
  <1>8. ASSUME NEW h \in Handler, SweepBalance(h)
        PROVE  TypeOK'
    BY <1>8, SweepBalanceMoved DEF SweepBalance, TypeOK
  <1>9. ASSUME NEW h \in Handler, SweepSend(h)
        PROVE  TypeOK'
    <2>1. /\ req' \in [Handler -> Local]
          /\ errors' \in 0 .. MaxErrors
          /\ tx' \in [Hash -> [state: {"unused", "mempool", "success", "reverted"},
                               amount: Nat]]
      BY <1>9, SweepSendMoved DEF TypeOK
    <2> QED BY <1>9, <2>1 DEF SweepSend, TypeOK
  <1>10. ASSUME NEW h \in Handler, SweepReceipt(h)
         PROVE  TypeOK'
    BY <1>10, SweepReceiptMoved DEF SweepReceipt, TypeOK
  <1>11. ASSUME NEW h \in Handler, SweepRecord(h) \/ MarkFailed(h)
         PROVE  TypeOK'
    <2>1. req' \in [Handler -> Local]
      BY <1>11, IdleTyped, MoveTyped DEF SweepRecord, MarkFailed
    <2>2. row' \in Row /\ cool' \in BOOLEAN
      BY <1>11, RowTyped
    <2>3. window' \in [retries: Nat, lost: Nat]
      BY <1>11, RowTyped DEF NewWindow, TypeOK
    <2> QED BY <1>11, <2>1, <2>2, <2>3 DEF SweepRecord, MarkFailed, TypeOK
  <1>12. ASSUME NEW h \in Handler, Throws(h)
         PROVE  TypeOK'
    <2>1. req' \in [Handler -> Local]
      BY <1>12, FailMoved DEF Throws
    <2>2. errors' \in 0 .. MaxErrors
      BY <1>12, SweepAssumption DEF Throws, Error, TypeOK
    <2> QED BY <1>12, <2>1, <2>2 DEF Throws, TypeOK
  <1>13. ASSUME NEW h \in Handler, Abort(h)
         PROVE  TypeOK'
    <2>1. req' \in [Handler -> Local]
      BY <1>13, IdleTyped, MoveTyped DEF Abort
    <2>2. errors' \in 0 .. MaxErrors /\ topUps' \in 0 .. MaxPending
      BY <1>13, SweepAssumption DEF Abort, Error, TypeOK
    <2>3. window' \in [retries: Nat, lost: Nat]
      BY <1>13 DEF Abort, TypeOK
    <2> QED BY <1>13, <2>1, <2>2, <2>3 DEF Abort, TypeOK
  <1>14. CASE Deposit
    <2>1. token' \in [deposit: Nat, treasury: Nat]
      BY <1>14 DEF Deposit, TypeOK
    <2> QED BY <1>14, <2>1 DEF Deposit, TypeOK
  <1>15. CASE Confirm
    <2>1. row' \in Row
      BY <1>15 DEF Confirm, TypeOK, Row
    <2>2. cool' \in BOOLEAN /\ window' \in [retries: Nat, lost: Nat]
      BY <1>15 DEF Confirm, Touch, NewWindow
    <2> QED BY <1>15, <2>1, <2>2 DEF Confirm, TypeOK
  <1>16. CASE IncludeTopUp
    <2>1. topUps' \in 0 .. MaxPending
      BY <1>16, SweepAssumption DEF IncludeTopUp, TypeOK
    <2> QED BY <1>16, <2>1, MoreGasTyped DEF IncludeTopUp, TypeOK
  <1>17. ASSUME NEW x \in Hash, IncludeSweep(x)
         PROVE  TypeOK'
    BY <1>17, IncludeSweepEffect DEF IncludeSweep, TypeOK
  <1>18. CASE CoolDown
    BY <1>18 DEF CoolDown, TypeOK
  <1>19. CASE UNCHANGED vars
    BY <1>19 DEF vars, TypeOK
  <1> QED BY <1>1, <1>2, <1>3, <1>4, <1>5, <1>6, <1>7, <1>8, <1>9, <1>10, <1>11,
             <1>12, <1>13, <1>14, <1>15, <1>16, <1>17, <1>18, <1>19 DEF Next, Continue

---------------------------------------------------------------------------
(* The chain goes one way *)

\* A sent transaction keeps its amount, a successful one stays successful, and
\* the treasury keeps what it has.
TxsKeep ==
  /\ \A x \in Hash : tx[x].state # "unused" =>
       /\ tx'[x].state # "unused"
       /\ tx'[x].amount = tx[x].amount
       /\ tx[x].state = "success" => tx'[x].state = "success"
  /\ token'.treasury >= token.treasury
  /\ mode' = mode

\* Steps that leave the chain alone.
OffChain(h) ==
  \/ TopUp(h) \/ TopUpLanded(h) \/ SweepRead(h) \/ WriteNotRequired(h) \/ SweepGas(h)
  \/ SweepBalance(h) \/ SweepRefused(h) \/ SweepReceipt(h) \/ SweepTimeout(h)
  \/ SweepRecord(h) \/ MarkFailed(h) \/ Throws(h) \/ Abort(h)

\* Every step keeps the transactions and what the treasury has got of them.
LEMMA ChainStep ==
  ASSUME TypeOK, TreasuryOK, \A h \in Handler : HandlerOK(h), [Next]_vars
  PROVE  TxsKeep /\ TreasuryOK'
  <1>0. token.treasury \in Nat /\ \A x \in Hash : tx[x].amount \in Nat
    BY DEF TypeOK
  <1>1. ASSUME tx' = tx, token'.treasury = token.treasury, mode' = mode
        PROVE  TxsKeep /\ TreasuryOK'
    BY <1>0, <1>1 DEF TxsKeep, TreasuryOK
  <1>2. ASSUME NEW h \in Handler, OffChain(h)
        PROVE  TxsKeep /\ TreasuryOK'
    <2>1. tx' = tx /\ token' = token /\ mode' = mode
      BY <1>2 DEF OffChain, TopUp, TopUpLanded, SweepRead, WriteNotRequired, SweepGas,
                  SweepBalance, SweepRefused, SweepReceipt, SweepTimeout, SweepRecord,
                  MarkFailed, Throws, Abort
    <2> QED BY <1>1, <2>1
  <1>3. ASSUME NEW h \in Handler, SweepSend(h)
        PROVE  TxsKeep /\ TreasuryOK'
    <2>1. PICK x \in Hash :
            /\ tx[x].state = "unused"
            /\ tx'[x].state = "mempool"
            /\ \A y \in Hash : y # x => tx'[y] = tx[y]
      BY <1>3, SweepSendMoved
    <2>2. token' = token /\ mode' = mode
      BY <1>3 DEF SweepSend
    <2> QED BY <1>0, <2>1, <2>2 DEF TxsKeep, TreasuryOK
  <1>4. ASSUME NEW r \in Req, StartSweep(r) \/ StartTopUp(r) \/ StartTopUpAndSweep(r)
        PROVE  TxsKeep /\ TreasuryOK'
    BY <1>1, <1>4 DEF StartSweep, StartTopUp, StartTopUpAndSweep
  <1>5. ASSUME NEW t \in Tick, RetryPendingSweeps(t)
        PROVE  TxsKeep /\ TreasuryOK'
    BY <1>1, <1>5 DEF RetryPendingSweeps
  <1>6. CASE Deposit
    BY <1>1, <1>6 DEF Deposit, TypeOK
  <1>7. CASE Confirm \/ IncludeTopUp \/ CoolDown \/ UNCHANGED vars
    BY <1>1, <1>7 DEF Confirm, IncludeTopUp, CoolDown, vars
  <1>8. ASSUME NEW x \in Hash, IncludeSweep(x)
        PROVE  TxsKeep /\ TreasuryOK'
    <2>1. mode' = mode
      BY <1>8 DEF IncludeSweep
    <2>2. token'.treasury \in Nat
      BY <1>8, IncludeSweepEffect
    <2>3. TxsKeep
      BY <1>0, <1>8, <2>1, IncludeSweepEffect DEF TxsKeep
    <2>4. TreasuryOK'
      BY <1>0, <1>8, <2>2, IncludeSweepEffect DEF TreasuryOK
    <2> QED BY <2>3, <2>4
  <1> QED BY <1>2, <1>3, <1>4, <1>5, <1>6, <1>7, <1>8 DEF Next, Continue, OffChain

\* A hash goes on naming what it names.
LEMMA SentKept ==
  ASSUME TxsKeep, NEW x \in Hash, NEW a, SentWith(x, a)
  PROVE  /\ SentWith(x, a)'
         /\ tx[x].state = "success" => tx'[x].state = "success"
  BY DEF TxsKeep, SentWith

\* A handler that does not move keeps what it has in hand.
LEMMA Stays ==
  ASSUME TypeOK, TxsKeep, NEW h \in Handler, HandlerOK(h),
         req'[h] = req[h]
  PROVE  HandlerOK(h)'
  <1>1. req[h] \in Local /\ mode' = mode
    BY DEF TypeOK, TxsKeep
  <1>2. CASE req[h].pc \in {"receipt", "record"}
    <2>1. req[h].hash \in Hash /\ SentWith(req[h].hash, req[h].amount)
      BY <1>1, <1>2 DEF HandlerOK, SentWith, Local
    <2>2. \A x, a : x = req[h].hash /\ a = req[h].amount =>
            /\ SentWith(x, a)'
            /\ tx[x].state = "success" => tx'[x].state = "success"
      BY <2>1, SentKept
    <2> QED BY <1>1, <2>2 DEF HandlerOK
  <1>3. CASE req[h].pc \notin {"receipt", "record"}
    BY <1>1, <1>3 DEF HandlerOK
  <1> QED BY <1>2, <1>3

---------------------------------------------------------------------------
(* The invariant, part by part *)

\* Every await hands on what the next one needs.
LEMMA HandlersStep ==
  ASSUME IInv, [Next]_vars
  PROVE  \A h \in Handler : HandlerOK(h)'
  <1> DEFINE Goal == \A h \in Handler : HandlerOK(h)'
  <1>0. /\ TypeOK /\ TxsKeep /\ mode' = mode
        /\ \A h \in Handler : HandlerOK(h)
    BY ChainStep DEF IInv, TxsKeep
  <1>1. ASSUME NEW h \in Handler,
               \A g \in Handler : g # h => req'[g] = req[g],
               HandlerOK(h)'
        PROVE  Goal
    BY <1>0, <1>1, Stays
  <1>2. CASE req' = req
    BY <1>0, <1>2, Stays
  <1>3. ASSUME NEW h \in Handler, NEW l \in Local, Become(h, l),
               l.pc \in {"idle", "topUp", "sweep"}
        PROVE  Goal
    <2>1. req'[h] = l /\ \A g \in Handler : g # h => req'[g] = req[g]
      BY <1>0, <1>3, MoveTyped
    <2>2. HandlerOK(h)'
      BY <1>3, <2>1 DEF HandlerOK, InTry
    <2> QED BY <1>1, <2>1, <2>2
  <1>4. ASSUME NEW h \in Handler, Become(h, Idle)
        PROVE  Goal
    BY <1>3, <1>4, IdleTyped DEF Idle
  <1>5. ASSUME NEW r \in Req, StartSweep(r) \/ StartTopUp(r) \/ StartTopUpAndSweep(r)
        PROVE  Goal
    BY <1>0, <1>3, <1>5, StartTyped, SweepAssumption
       DEF StartSweep, StartTopUp, StartTopUpAndSweep, Handler
  <1>6. ASSUME NEW t \in Tick, RetryPendingSweeps(t)
        PROVE  Goal
    BY <1>0, <1>3, <1>6, StartTyped DEF RetryPendingSweeps, Handler
  <1>7. ASSUME NEW h \in Handler, NEW pc \in {"landed", "notRequired", "gas", "balance"},
               Goto(h, pc),
               pc = "notRequired" => mode = "payment-router",
               pc \in InTry => mode # "payment-router"
        PROVE  Goal
    <2>1. /\ req'[h].pc = pc
          /\ \A g \in Handler : g # h => req'[g] = req[g]
      BY <1>0, <1>7, GotoMoved DEF Pc
    <2>2. HandlerOK(h)'
      BY <1>0, <1>7, <2>1 DEF HandlerOK, InTry
    <2> QED BY <1>1, <2>1, <2>2
  <1>8. ASSUME NEW h \in Handler, TopUp(h) \/ TopUpLanded(h)
        PROVE  Goal
    <2>1. CASE Goto(h, "landed")
      BY <1>7, <2>1 DEF InTry
    <2> QED BY <1>0, <1>3, <1>4, <1>8, <2>1, StartTyped DEF TopUp, TopUpLanded
  <1>9. ASSUME NEW h \in Handler, SweepRead(h)
        PROVE  Goal
    <2>1. CASE mode = "payment-router" /\ Goto(h, "notRequired")
      BY <1>7, <2>1 DEF InTry
    <2>2. CASE mode # "payment-router" /\ Goto(h, "gas")
      BY <1>7, <2>2
    <2>3. CASE Become(h, Idle)
      BY <1>4, <2>3
    <2> QED BY <1>9, <2>1, <2>2, <2>3 DEF SweepRead
  <1>10. ASSUME NEW h \in Handler,
                \/ SweepGas(h) \/ SweepRefused(h) \/ SweepTimeout(h) \/ Throws(h)
         PROVE  Goal
    <2>1. req[h].pc \in InTry /\ (Goto(h, "balance") \/ Fail(h))
      BY <1>10 DEF SweepGas, SweepRefused, SweepTimeout, Throws, InTry
    <2>2. mode # "payment-router"
      BY <1>0, <2>1 DEF HandlerOK
    <2>3. CASE Fail(h)
      <3>1. HandlerOK(h)'
        BY <1>0, <2>2, <2>3, FailMoved DEF HandlerOK
      <3> QED BY <1>0, <1>1, <2>3, <3>1, FailMoved
    <2> QED BY <1>7, <2>1, <2>2, <2>3
  <1>11. ASSUME NEW h \in Handler, SweepBalance(h)
         PROVE  Goal
    <2>1. /\ \A g \in Handler : g # h => req'[g] = req[g]
          /\ \/ req'[h].pc = "catch"
             \/ req'[h].pc = "send" /\ req'[h].amount \in Nat
      BY <1>0, <1>11, SweepBalanceMoved
    <2>2. mode # "payment-router"
      BY <1>0, <1>11 DEF HandlerOK, SweepBalance, InTry
    <2>3. HandlerOK(h)'
      BY <1>0, <2>1, <2>2, SweepAssumption DEF HandlerOK
    <2> QED BY <1>1, <2>1, <2>3
  <1>12. ASSUME NEW h \in Handler, SweepSend(h)
         PROVE  Goal
    <2>1. PICK x \in Hash :
            /\ tx'[x].state = "mempool" /\ tx'[x].amount = req[h].amount
            /\ \A g \in Handler : g # h => req'[g] = req[g]
            /\ \/ req'[h].pc = "catch"
               \/ /\ req'[h].pc \in {"receipt", "record"}
                  /\ req'[h].hash = x
                  /\ req'[h].amount = req[h].amount
                  /\ req'[h].result = "broadcasted"
      BY <1>0, <1>12, SweepSendMoved
    <2>2. mode # "payment-router"
      BY <1>0, <1>12 DEF HandlerOK, SweepSend, InTry
    <2>3. HandlerOK(h)'
      BY <1>0, <2>1, <2>2, SweepAssumption DEF HandlerOK, SentWith, Recorded
    <2> QED BY <1>1, <2>1, <2>3
  <1>13. ASSUME NEW h \in Handler, SweepReceipt(h)
         PROVE  Goal
    <2>1. req[h].pc = "receipt" /\ tx' = tx
      BY <1>13 DEF SweepReceipt
    <2>2. /\ mode # "payment-router"
          /\ SentWith(req[h].hash, req[h].amount)
      BY <1>0, <2>1 DEF HandlerOK, InTry
    <2>3. HandlerOK(h)'
      BY <1>0, <1>13, <2>1, <2>2, SweepReceiptMoved DEF HandlerOK, SentWith
    <2> QED BY <1>0, <1>1, <1>13, <2>3, SweepReceiptMoved
  <1>14. ASSUME NEW h \in Handler,
                \/ WriteNotRequired(h) \/ SweepRecord(h) \/ MarkFailed(h) \/ Abort(h)
         PROVE  Goal
    BY <1>4, <1>14 DEF WriteNotRequired, SweepRecord, MarkFailed, Abort
  <1>15. ASSUME \/ Deposit \/ Confirm \/ IncludeTopUp \/ CoolDown \/ UNCHANGED vars
                \/ \E x \in Hash : IncludeSweep(x)
         PROVE  Goal
    BY <1>2, <1>15 DEF Deposit, Confirm, IncludeTopUp, CoolDown, IncludeSweep, vars
  <1> HIDE DEF Goal
  <1>16. Goal
    BY <1>5, <1>6, <1>8, <1>9, <1>10, <1>11, <1>12, <1>13, <1>14, <1>15
       DEF Next, Continue
  <1> QED BY <1>16 DEF Goal

\* Who writes to the row: a handler at its end, or the confirmation.
RowWriter ==
  \/ \E h \in Handler : WriteNotRequired(h) \/ SweepRecord(h) \/ MarkFailed(h)
  \/ Confirm

\* Everybody else leaves it as it is.
LEMMA RowUnchanged ==
  ASSUME [Next]_vars, ~RowWriter
  PROVE  row' = row
  <1>1. ASSUME NEW h \in Handler, Continue(h) \/ Throws(h) \/ Abort(h)
        PROVE  row' = row
    BY <1>1 DEF RowWriter, Continue, TopUp, TopUpLanded, SweepRead, SweepGas,
                SweepBalance, SweepRefused, SweepSend, SweepReceipt, SweepTimeout,
                Throws, Abort
  <1>2. ASSUME NEW r \in Req, StartSweep(r) \/ StartTopUp(r) \/ StartTopUpAndSweep(r)
        PROVE  row' = row
    BY <1>2 DEF StartSweep, StartTopUp, StartTopUpAndSweep
  <1>3. CASE \/ Deposit \/ IncludeTopUp \/ CoolDown \/ UNCHANGED vars
             \/ \E x \in Hash : IncludeSweep(x)
             \/ \E t \in Tick : RetryPendingSweeps(t)
    BY <1>3 DEF Deposit, IncludeTopUp, CoolDown, vars, IncludeSweep, RetryPendingSweeps
  <1> QED BY <1>1, <1>2, <1>3 DEF Next, RowWriter

\* The row tells of a sweep that its writer has sent.
LEMMA RowStep ==
  ASSUME IInv, [Next]_vars
  PROVE  RowOK' /\ ModesApart'
  <1>0. /\ TypeOK /\ TxsKeep /\ mode' = mode /\ ModesApart /\ RowOK
        /\ \A h \in Handler : HandlerOK(h)
        /\ row \in Row
    BY ChainStep DEF IInv, TxsKeep, TypeOK
  <1>1. ASSUME row'.sweepStatus = row.sweepStatus, row'.hash = row.hash,
               row'.sweptAmount = row.sweptAmount
        PROVE  RowOK' /\ ModesApart'
    <2>1. ModesApart'
      BY <1>0, <1>1 DEF ModesApart
    <2>2. CASE Recorded(row.sweepStatus)
      <3>1. row.hash \in Hash /\ SentWith(row.hash, row.sweptAmount)
        BY <1>0, <2>2 DEF RowOK, SentWith, Row
      <3>2. \A x, a : x = row.hash /\ a = row.sweptAmount =>
              /\ SentWith(x, a)'
              /\ tx[x].state = "success" => tx'[x].state = "success"
        BY <1>0, <3>1, SentKept
      <3> QED BY <1>0, <1>1, <2>1, <3>2 DEF RowOK, Recorded
    <2>3. CASE ~Recorded(row.sweepStatus)
      BY <1>1, <2>1, <2>3 DEF RowOK, Recorded
    <2> QED BY <2>2, <2>3
  <1>2. CASE row' = row
    BY <1>1, <1>2
  <1>3. ASSUME NEW h \in Handler, WriteNotRequired(h)
        PROVE  RowOK' /\ ModesApart'
    <2>1. mode = "payment-router" /\ row'.sweepStatus = "not_required"
      BY <1>0, <1>3 DEF WriteNotRequired, HandlerOK, Row
    <2> QED BY <1>0, <2>1 DEF RowOK, ModesApart, Recorded
  <1>4. ASSUME NEW h \in Handler, SweepRecord(h)
        PROVE  RowOK' /\ ModesApart'
    <2>1. CASE row' = row
      BY <1>2, <2>1
    <2>2. CASE row' # row
      <3>1. /\ row'.sweepStatus = req[h].result
            /\ row'.hash = req[h].hash
            /\ row'.sweptAmount = req[h].amount
        BY <1>0, <1>4, <2>2, RowTyped
      <3>2. /\ SentWith(req[h].hash, req[h].amount)
            /\ Recorded(req[h].result)
            /\ req[h].result = "confirmed" => tx[req[h].hash].state = "success"
            /\ mode # "payment-router"
            /\ tx' = tx
        BY <1>0, <1>4 DEF SweepRecord, HandlerOK, InTry
      <3> QED BY <1>0, <3>1, <3>2 DEF RowOK, ModesApart, SentWith, Recorded
    <2> QED BY <2>1, <2>2
  <1>5. ASSUME NEW h \in Handler, MarkFailed(h)
        PROVE  RowOK' /\ ModesApart'
    <2>1. CASE row' = row
      BY <1>2, <2>1
    <2>2. CASE row' # row
      <3>1. row'.sweepStatus = "failed"
        BY <1>0, <1>5, <2>2, RowTyped
      <3>2. mode # "payment-router"
        BY <1>0, <1>5 DEF MarkFailed, HandlerOK, InTry
      <3> QED BY <1>0, <3>1, <3>2 DEF RowOK, ModesApart, Recorded
    <2> QED BY <2>1, <2>2
  <1>6. CASE Confirm
    BY <1>0, <1>1, <1>6 DEF Confirm, Row
  <1>7. CASE ~RowWriter
    BY <1>2, <1>7, RowUnchanged
  <1> QED BY <1>3, <1>4, <1>5, <1>6, <1>7 DEF RowWriter

\* Ticks are slots of their own: requests do not start in them.
LEMMA TickApart ==
  ASSUME NEW t \in Tick
  PROVE  t \in Handler /\ t \notin Req
  BY SweepAssumption DEF Handler

\* There are finitely many of them.
LEMMA RunningCounted ==
  /\ IsFiniteSet(Running) /\ Cardinality(Running) \in Nat
  /\ IsFiniteSet(Running') /\ Cardinality(Running') \in Nat
  <1>1. Running \subseteq Tick /\ Running' \subseteq Tick
    BY DEF Running
  <1> QED BY <1>1, SweepAssumption, FS_Subset, FS_CardinalityType

\* How a handler comes to its end without being cut short.
Through(h) ==
  \/ WriteNotRequired(h) \/ SweepRecord(h) \/ MarkFailed(h)
  \/ SweepRead(h) /\ Recorded(row.sweepStatus)

\* A tick begins with a retry, and goes on, comes through or dies.
LEMMA TickMoves ==
  ASSUME IInv, [Next]_vars, NEW t \in Tick, req'[t] # req[t]
  PROVE  \/ RetryPendingSweeps(t)
         \/ (Through(t) \/ Abort(t)) /\ req'[t].pc = "idle"
         \/ req'[t].pc \notin {"idle", "topUp"}
  <1>0. TypeOK /\ HandlerOK(t) /\ TickOK(t) /\ t \in Handler /\ t \notin Req
    BY TickApart DEF IInv
  <1>1. ASSUME NEW r \in Req, StartSweep(r) \/ StartTopUp(r) \/ StartTopUpAndSweep(r)
        PROVE  FALSE
    BY <1>0, <1>1 DEF StartSweep, StartTopUp, StartTopUpAndSweep, Become, TypeOK
  <1>2. ASSUME \/ Deposit \/ Confirm \/ IncludeTopUp \/ CoolDown \/ UNCHANGED vars
               \/ \E x \in Hash : IncludeSweep(x)
        PROVE  FALSE
    BY <1>2 DEF Deposit, Confirm, IncludeTopUp, CoolDown, IncludeSweep, vars
  <1>3. ASSUME NEW u \in Tick, RetryPendingSweeps(u)
        PROVE  u = t
    BY <1>0, <1>3 DEF RetryPendingSweeps, Become, TypeOK
  <1>4. ASSUME NEW h \in Handler, Continue(h) \/ Throws(h) \/ Abort(h)
        PROVE  h = t
    <2>1. \E l : Become(h, l)
      BY <1>4 DEF Continue, TopUp, TopUpLanded, SweepRead, WriteNotRequired, SweepGas,
                  SweepBalance, SweepRefused, SweepSend, SweepReceipt, SweepTimeout,
                  SweepRecord, MarkFailed, Throws, Abort, Goto, Fail
    <2> QED BY <1>0, <2>1 DEF Become, TypeOK
  <1>5. ASSUME \/ Fail(t)
               \/ \E pc \in {"landed", "notRequired", "gas", "balance"} : Goto(t, pc)
        PROVE  req'[t].pc \notin {"idle", "topUp"}
    BY <1>0, <1>5, FailMoved, GotoMoved DEF Pc
  <1>6. CASE TopUpLanded(t)
    <2>1. req'[t].pc = "sweep"
      BY <1>0, <1>6, StartTyped, MoveTyped DEF TopUpLanded
    <2> QED BY <2>1
  <1>7. CASE SweepBalance(t) \/ SweepReceipt(t) \/ SweepSend(t)
    <2>1. req'[t].pc \in {"catch", "send", "receipt", "record"}
      BY <1>0, <1>7, SweepBalanceMoved, SweepReceiptMoved, SweepSendMoved
    <2> QED BY <2>1
  <1>8. CASE TopUp(t)
    BY <1>0, <1>5, <1>8 DEF TopUp, TickOK
  <1>9. CASE SweepGas(t) \/ SweepRefused(t) \/ SweepTimeout(t) \/ Throws(t)
    BY <1>5, <1>9 DEF SweepGas, SweepRefused, SweepTimeout, Throws
  <1>10. ASSUME Become(t, Idle)
         PROVE  req'[t].pc = "idle"
    BY <1>0, <1>10, IdleTyped, MoveTyped DEF Idle
  <1>11. CASE SweepRead(t)
    BY <1>5, <1>10, <1>11 DEF SweepRead, Through
  <1>12. CASE WriteNotRequired(t) \/ SweepRecord(t) \/ MarkFailed(t) \/ Abort(t)
    BY <1>10, <1>12 DEF WriteNotRequired, SweepRecord, MarkFailed, Abort, Through
  <1> QED BY <1>1, <1>2, <1>3, <1>4, <1>6, <1>7, <1>8, <1>9, <1>11, <1>12
          DEF Next, Continue

\* A tick sweeps after its top-up.
LEMMA TicksStep ==
  ASSUME IInv, [Next]_vars
  PROVE  \A t \in Tick : TickOK(t)'
  <1> SUFFICES ASSUME NEW t \in Tick
               PROVE  TickOK(t)'
    OBVIOUS
  <1>0. TypeOK /\ TickOK(t) /\ t \in Handler
    BY TickApart DEF IInv
  <1>1. CASE RetryPendingSweeps(t)
    BY <1>0, <1>1, StartTyped, MoveTyped DEF RetryPendingSweeps, TickOK
  <1>2. CASE req'[t] = req[t]
    BY <1>0, <1>2 DEF TickOK
  <1> QED BY <1>1, <1>2, TickMoves DEF TickOK

\* An end that was not cut short leaves no retry to be accounted for.
LEMMA ThroughCloses ==
  ASSUME IInv, NEW h \in Handler, Through(h)
  PROVE  window'.retries = 0 /\ window'.lost \in Nat
  <1>0. TypeOK /\ HandlerOK(h) /\ WindowOK
    BY DEF IInv
  <1>1. window.retries \in Nat /\ window.lost \in Nat
    BY <1>0 DEF TypeOK
  <1>2. CASE WriteNotRequired(h)
    BY <1>2 DEF WriteNotRequired, Touch, NewWindow
  <1>3. CASE SweepRecord(h) \/ MarkFailed(h)
    <2>1. \/ window' = NewWindow
          \/ window' = window /\ ~ExpectedSweepStatus(row.sweepStatus)
      BY <1>3 DEF SweepRecord, MarkFailed, Touch
    <2> QED BY <1>0, <1>1, <2>1 DEF NewWindow, WindowOK
  <1>4. CASE SweepRead(h) /\ Recorded(row.sweepStatus)
    BY <1>0, <1>1, <1>4 DEF SweepRead, Recorded, WindowOK, ExpectedSweepStatus
  <1> QED BY <1>2, <1>3, <1>4 DEF Through

\* Everybody else leaves the window open, with its retries.
LEMMA WindowStays ==
  ASSUME IInv, [Next]_vars, ~Confirm, \A h \in Handler : ~Through(h),
         \A t \in Tick : ~RetryPendingSweeps(t) /\ ~Abort(t)
  PROVE  window' = window /\ cool' \in {cool, TRUE} /\ row' = row
  <1>1. ASSUME NEW h \in Handler, Continue(h) \/ Throws(h) \/ (Abort(h) /\ h \notin Tick)
        PROVE  window' = window /\ cool' \in {cool, TRUE} /\ row' = row
    <2>1. ~Through(h)
      OBVIOUS
    <2> QED BY <1>1, <2>1 DEF Through, Continue, TopUp, TopUpLanded, SweepRead, SweepGas,
                              SweepBalance, SweepRefused, SweepSend, SweepReceipt,
                              SweepTimeout, Throws, Abort
  <1>2. ASSUME NEW r \in Req, StartSweep(r) \/ StartTopUp(r) \/ StartTopUpAndSweep(r)
        PROVE  window' = window /\ cool' \in {cool, TRUE} /\ row' = row
    BY <1>2 DEF StartSweep, StartTopUp, StartTopUpAndSweep
  <1>3. CASE \/ Deposit \/ IncludeTopUp \/ CoolDown \/ UNCHANGED vars
             \/ \E x \in Hash : IncludeSweep(x)
    BY <1>3 DEF Deposit, IncludeTopUp, CoolDown, vars, IncludeSweep
  <1> QED BY <1>1, <1>2, <1>3 DEF Next

\* Every retry runs, has touched the row or was cut short.
LEMMA WindowStep ==
  ASSUME IInv, [Next]_vars
  PROVE  WindowOK'
  <1>0. TypeOK /\ WindowOK
    BY DEF IInv
  <1>1. /\ window \in [retries: Nat, lost: Nat]
        /\ window.retries \in Nat /\ window.lost \in Nat
        /\ window.retries <= Cardinality(Running) + window.lost
        /\ window.retries > 0 => cool /\ ExpectedSweepStatus(row.sweepStatus)
    BY <1>0 DEF TypeOK, WindowOK, RetriesAccounted
  <1>2. ASSUME window'.retries = 0, window'.lost \in Nat
        PROVE  WindowOK'
    BY <1>2, RunningCounted DEF WindowOK, RetriesAccounted
  <1>3. CASE \E h \in Handler : Through(h)
    BY <1>2, <1>3, ThroughCloses
  <1>4. CASE Confirm
    BY <1>2, <1>4 DEF Confirm, Touch, NewWindow
  <1>5. ASSUME NEW t \in Tick, RetryPendingSweeps(t)
        PROVE  WindowOK'
    <2>1. /\ window'.retries = window.retries + 1 /\ window'.lost = window.lost
          /\ cool' /\ ExpectedSweepStatus(row'.sweepStatus)
      BY <1>1, <1>5 DEF RetryPendingSweeps, RetryCandidate, ExpectedSweepStatus
    <2>2. /\ req'[t].pc = "topUp" /\ req[t].pc = "idle"
          /\ \A g \in Handler : g # t => req'[g] = req[g]
      BY <1>0, <1>5, TickApart, StartTyped, MoveTyped DEF RetryPendingSweeps
    <2>3. Running' = Running \cup {t} /\ t \notin Running
      BY <2>2, TickApart DEF Running
    <2>4. Cardinality(Running') = Cardinality(Running) + 1
      BY <2>3, RunningCounted, FS_AddElement
    <2> QED BY <1>1, <2>1, <2>4, RunningCounted DEF WindowOK, RetriesAccounted
  <1>6. ASSUME NEW t \in Tick, Abort(t)
        PROVE  WindowOK'
    <2>1. /\ req'[t].pc = "idle" /\ req[t].pc # "idle"
          /\ \A g \in Handler : g # t => req'[g] = req[g]
          /\ cool' = cool /\ row' = row
      BY <1>0, <1>6, TickApart, IdleTyped, MoveTyped DEF Abort, Idle
    <2>2. Running' = Running \ {t} /\ t \in Running
      BY <2>1, TickApart DEF Running
    <2>3. Cardinality(Running') = Cardinality(Running) - 1
      BY <2>2, RunningCounted, FS_RemoveElement
    <2>4. CASE cool
      <3>1. window'.retries = window.retries /\ window'.lost = window.lost + 1
        BY <1>1, <1>6, <2>4 DEF Abort
      <3> QED BY <1>1, <2>1, <2>3, <3>1, RunningCounted DEF WindowOK, RetriesAccounted
    <2>5. CASE ~cool
      BY <1>1, <1>2, <1>6, <2>5 DEF Abort
    <2> QED BY <2>4, <2>5
  <1>7. CASE /\ ~Confirm /\ \A h \in Handler : ~Through(h)
             /\ \A t \in Tick : ~RetryPendingSweeps(t) /\ ~Abort(t)
    <2>1. window' = window /\ cool' \in {cool, TRUE} /\ row' = row
      BY <1>7, WindowStays
    <2>2. ASSUME NEW t \in Tick, req[t].pc # "idle"
          PROVE  req'[t].pc # "idle"
      BY <1>7, <2>2, TickMoves, TickApart
    <2>3. Running \subseteq Running'
      BY <2>2 DEF Running
    <2>4. Cardinality(Running) <= Cardinality(Running')
      BY <2>3, RunningCounted, FS_Subset
    <2>5. RetriesAccounted'
      BY <1>1, <2>1, <2>4, RunningCounted DEF RetriesAccounted
    <2>6. cool => cool'
      BY <1>0, <2>1 DEF TypeOK
    <2> QED BY <1>1, <2>1, <2>5, <2>6 DEF WindowOK
  <1> QED BY <1>3, <1>4, <1>5, <1>6, <1>7

---------------------------------------------------------------------------
(* The theorems *)

\* The invariant holds of a pay-in that nobody has paid.
LEMMA InitInv == Init => IInv
  <1> SUFFICES ASSUME Init
               PROVE  IInv
    OBVIOUS
  <1>1. TypeOK
    BY InitTyped
  <1>2. ModesApart /\ RowOK
    BY DEF Init, ModesApart, RowOK, Recorded
  <1>3. TreasuryOK
    BY DEF Init, TreasuryOK
  <1>4. \A h \in Handler : HandlerOK(h)
    BY DEF Init, HandlerOK, Idle, InTry
  <1>5. \A t \in Tick : TickOK(t)
    BY TickApart DEF Init, TickOK, Idle
  <1>6. WindowOK
    BY RunningCounted DEF Init, NewWindow, WindowOK, RetriesAccounted
  <1> QED BY <1>1, <1>2, <1>3, <1>4, <1>5, <1>6 DEF IInv

\* Every step keeps it.
LEMMA StepInv == IInv /\ [Next]_vars => IInv'
  <1> SUFFICES ASSUME IInv, [Next]_vars
               PROVE  IInv'
    OBVIOUS
  <1>1. TypeOK'
    BY StepTyped DEF IInv
  <1>2. TreasuryOK'
    BY ChainStep DEF IInv
  <1> QED BY <1>1, <1>2, HandlersStep, RowStep, TicksStep, WindowStep DEF IInv

\* The handlers of a pay-in keep the inductive invariant.
THEOREM Invariance == Spec => []IInv
  BY InitInv, StepInv, PTL DEF Spec

\* The row, the handlers and the chain keep their types.
THEOREM TypeCorrect == Spec => []TypeOK
  <1>1. IInv => TypeOK
    BY DEF IInv
  <1> QED BY <1>1, Invariance, PTL

\* What sweepPayIn records was sent, with the amount it records, and what it
\* records as confirmed has reached the treasury.
THEOREM RecordedIsReal == Spec => []RecordedSweepReal
  <1>1. IInv => RecordedSweepReal
    <2> SUFFICES ASSUME IInv
                 PROVE  RecordedSweepReal
      OBVIOUS
    <2>1. Recorded(row.sweepStatus) => SentWith(row.hash, row.sweptAmount)
      BY DEF IInv, RowOK
    <2>2. row.sweepStatus = "confirmed" =>
            /\ Recorded(row.sweepStatus)
            /\ tx[row.hash].state = "success"
      BY DEF IInv, RowOK, Recorded
    <2>3. row.hash \in Hash \cup {None}
      BY DEF IInv, TypeOK, Row
    <2> QED BY <2>1, <2>2, <2>3 DEF RecordedSweepReal, SentWith, IInv, TreasuryOK
  <1> QED BY <1>1, Invariance, PTL

\* The guarded UPDATEs keep the first sweep that was recorded.
THEOREM FirstRecordKept == Spec => SweepRecordKept
  <1> DEFINE Kept == Recorded(row.sweepStatus) =>
                       /\ row'.sweepStatus = row.sweepStatus
                       /\ row'.hash = row.hash
                       /\ row'.sweptAmount = row.sweptAmount
  <1>1. ASSUME IInv, [Next]_vars
        PROVE  Kept
    <2> SUFFICES ASSUME Recorded(row.sweepStatus)
                 PROVE  /\ row'.sweepStatus = row.sweepStatus
                        /\ row'.hash = row.hash
                        /\ row'.sweptAmount = row.sweptAmount
      OBVIOUS
    <2>0. ~ExpectedSweepStatus(row.sweepStatus)
      BY DEF Recorded, ExpectedSweepStatus
    <2>1. ASSUME NEW h \in Handler
          PROVE  ~WriteNotRequired(h)
      BY <1>1 DEF WriteNotRequired, IInv, HandlerOK, ModesApart, Recorded
    <2>2. ASSUME NEW h \in Handler, SweepRecord(h) \/ MarkFailed(h)
          PROVE  row' = row
      BY <2>0, <2>2 DEF SweepRecord, MarkFailed
    <2>3. CASE Confirm
      BY <1>1, <2>3 DEF Confirm, IInv, TypeOK, Row
    <2>4. CASE ~RowWriter
      BY <1>1, <2>4, RowUnchanged
    <2> QED BY <2>1, <2>2, <2>3, <2>4 DEF RowWriter
  <1>2. IInv /\ [Next]_vars => [Kept]_vars
    BY <1>1
  <1> QED BY <1>2, Invariance, PTL DEF Spec, SweepRecordKept

\* Whatever overlaps, a retry since updated_at was last set is running, or was
\* cut short before the catch block or the recording UPDATE touched the row.
THEOREM NoRetryUnaccounted == Spec => []RetriesAccounted
  <1>1. IInv => RetriesAccounted
    BY DEF IInv, WindowOK
  <1> QED BY <1>1, Invariance, PTL

=============================================================================
