------------------------- MODULE SettlementsProofs -------------------------
(***************************************************************************)
(* Proofs about Settlements: one request at a time works on a claim, what  *)
(* is disclosed was asked for by its client, what a row calls revealed is, *)
(* and the registry is append-only.                                        *)
(***************************************************************************)
EXTENDS Settlements, TLAPS

---------------------------------------------------------------------------
(* The inductive invariant *)

\* Where a record request is: anywhere, or between its claim and its end.
RecordPc ==
  {"claim", "existing", "send", "wait", "update", "audit", "release"}
Working == {"send", "wait", "update", "audit", "release"}

\* Where a reveal request is that has found its row.
Revealing == {"sendReveal", "waitReveal", "updateReveal"}

\* The hash is that of the reveal of a settlement.
RevealTx(h, i, e) ==
  /\ h \in 1 .. Len(txs)
  /\ txs[h].kind = "reveal"
  /\ txs[h].id = i
  /\ txs[h].externalId = e

\* The unique index on (client_id, external_id), and what is in the rows.
RowsUnique ==
  \A i, j \in Id :
    /\ rows[i] # None
    /\ rows[j] # None
    /\ rows[i].client = rows[j].client
    /\ rows[i].externalId = rows[j].externalId
    => i = j

RowOK(i) ==
  rows[i] # None =>
    /\ i <= recorded
    /\ rows[i].status = "revealed" =>
         RevealTx(rows[i].revealTransactionHash, i, rows[i].externalId)

\* What a running request knows, and what it owns.
RequestOK(s) ==
  /\ req[s].pc # "idle" =>
       req[s].client # None /\ req[s].id # None /\ req[s].id <= recorded
  /\ req[s].pc \notin {"idle", "find"} => req[s].externalId # None
  /\ req[s].pc = "claim" => rows[req[s].id] = None
  /\ req[s].pc \in Working =>
       /\ rows[req[s].id] # None
       /\ rows[req[s].id].client = req[s].client
       /\ rows[req[s].id].externalId = req[s].externalId
  /\ req[s].pc \in Revealing =>
       /\ req[s].id \in asked
       /\ rows[req[s].id] # None => rows[req[s].id].externalId = req[s].externalId
  /\ req[s].pc \in {"waitReveal", "updateReveal"} =>
       RevealTx(req[s].hash, req[s].id, req[s].externalId)

\* Two record requests have different ids, and nobody reveals what is not
\* claimed yet.
RequestsApart ==
  \A s, t \in Slot :
    /\ s # t
    /\ req[s].pc \in RecordPc
    /\ req[t].pc \in RecordPc \/ (req[s].pc = "claim" /\ req[t].pc \in Revealing)
    => req[s].id # req[t].id

\* A reveal was asked for and has passed the estimate: what it reveals is on
\* chain, and only the auditor's role can make it revert.
TxOK(t) ==
  t.kind = "reveal" =>
    /\ t.id \in asked
    /\ records[t.externalId].status # "none"
    /\ records[t.externalId].commitment = t.id
    /\ t.state = "success" => records[t.externalId].status = "revealed"
    /\ t.state = "reverted" => revoked

IInv ==
  /\ TypeOK
  /\ auditor \/ revoked
  /\ DisclosedByOwner
  /\ \A h \in 1 .. Len(txs) : TxOK(txs[h])
  /\ RowsUnique
  /\ \A i \in Id : RowOK(i)
  /\ \A s \in Slot : RequestOK(s)
  /\ RequestsApart

---------------------------------------------------------------------------
(* Types *)

\* An idle slot is a slot.
LEMMA IdleTyped == Idle \in Local
  BY DEF Idle, Local

\* The service, the registry and its roles start well typed.
LEMMA InitTyped == Init => TypeOK
  <1> SUFFICES ASSUME Init
               PROVE  TypeOK
    OBVIOUS
  <1>1. /\ records \in [ExternalId -> Record]
        /\ rows \in [Id -> Row \cup {None}]
        /\ req \in [Slot -> Local]
    BY IdleTyped DEF Init, Record
  <1>2. /\ recorded \in 0 .. MaxRecords /\ reveals \in 0 .. MaxReveals
        /\ errors \in 0 .. MaxErrors /\ changes \in 0 .. MaxRoleChanges
    BY SettlementsAssumption DEF Init
  <1>3. txs \in Seq(Tx)
    BY DEF Init
  <1> QED BY <1>1, <1>2, <1>3 DEF Init, TypeOK

\* Steps that only move a slot keep the types.
LEMMA MoveTyped ==
  ASSUME TypeOK, NEW s \in Slot, NEW l \in Local, Become(s, l)
  PROVE  /\ req' \in [Slot -> Local]
         /\ req'[s] = l
         /\ \A t \in Slot : t # s => req'[t] = req[t]
  BY DEF TypeOK, Become

\* Where an error leads to.
LEMMA AfterErrorTyped ==
  ASSUME NEW l \in Local
  PROVE  /\ AfterError(l) \in Local
         /\ \/ AfterError(l) = Idle
            \/ /\ l.pc \in {"send", "wait", "update", "audit"}
               /\ AfterError(l) = [l EXCEPT !.pc = "release"]
               /\ AfterError(l).pc = "release"
               /\ AfterError(l).client = l.client
               /\ AfterError(l).externalId = l.externalId
               /\ AfterError(l).id = l.id
               /\ AfterError(l).hash = l.hash
  BY IdleTyped DEF AfterError, Local

\* A change of pc alone.
LEMMA GotoTyped ==
  ASSUME NEW l \in Local, NEW pc,
         pc \in {"idle", "claim", "existing", "send", "wait", "update", "audit",
                 "release", "find", "sendReveal", "waitReveal", "updateReveal"}
  PROVE  /\ [l EXCEPT !.pc = pc] \in Local
         /\ [l EXCEPT !.pc = pc].pc = pc
         /\ [l EXCEPT !.pc = pc].client = l.client
         /\ [l EXCEPT !.pc = pc].externalId = l.externalId
         /\ [l EXCEPT !.pc = pc].id = l.id
         /\ [l EXCEPT !.pc = pc].hash = l.hash
  BY DEF Local

\* A step that changes the pc of a slot and nothing else of it.
LEMMA GotoMoved ==
  ASSUME TypeOK, NEW s \in Slot, NEW pc, Goto(s, pc),
         pc \in {"existing", "send", "update", "audit", "updateReveal"}
  PROVE  /\ req'[s] \in Local
         /\ req'[s].pc = pc
         /\ req'[s].client = req[s].client
         /\ req'[s].externalId = req[s].externalId
         /\ req'[s].id = req[s].id
         /\ req'[s].hash = req[s].hash
         /\ \A t \in Slot : t # s => req'[t] = req[t]
         /\ Become(s, req'[s])
  <1>1. req[s] \in Local
    BY DEF TypeOK
  <1>2. /\ [req[s] EXCEPT !.pc = pc] \in Local
        /\ [req[s] EXCEPT !.pc = pc].pc = pc
        /\ [req[s] EXCEPT !.pc = pc].client = req[s].client
        /\ [req[s] EXCEPT !.pc = pc].externalId = req[s].externalId
        /\ [req[s] EXCEPT !.pc = pc].id = req[s].id
        /\ [req[s] EXCEPT !.pc = pc].hash = req[s].hash
    BY <1>1, GotoTyped
  <1>3. Become(s, [req[s] EXCEPT !.pc = pc])
    BY DEF Goto
  <1>4. /\ req'[s] = [req[s] EXCEPT !.pc = pc]
        /\ \A t \in Slot : t # s => req'[t] = req[t]
    BY <1>2, <1>3, MoveTyped
  <1> QED BY <1>2, <1>3, <1>4

\* What a request knows, with its types.
LEMMA Running ==
  ASSUME TypeOK, NEW s \in Slot, RequestOK(s), req[s].pc # "idle"
  PROVE  /\ req[s] \in Local
         /\ req[s].client \in Client
         /\ req[s].id \in Id
         /\ req[s].id <= recorded
         /\ req[s].pc # "find" => req[s].externalId \in ExternalId
  BY DEF TypeOK, RequestOK, Local

\* What writeContract sends.
LEMMA TransactionTyped ==
  ASSUME TypeOK, NEW s \in Slot, RequestOK(s), Sends(s)
  PROVE  /\ Transaction(req[s]) \in Tx
         /\ Transaction(req[s]).kind =
              IF req[s].pc = "send" THEN "record" ELSE "reveal"
         /\ Transaction(req[s]).id = req[s].id
         /\ Transaction(req[s]).externalId = req[s].externalId
         /\ Transaction(req[s]).state = "pending"
  <1>1. req[s].pc \in {"send", "sendReveal"}
    BY DEF Sends
  <1>2. req[s].id \in Id /\ req[s].externalId \in ExternalId
    BY <1>1, Running
  <1> QED BY <1>2 DEF Transaction, Tx

\* Where it goes on after that.
LEMMA AfterSendIs ==
  ASSUME TypeOK, NEW s \in Slot, Sends(s)
  PROVE  \/ req[s].pc = "send" /\ AfterSend(req[s].pc) \in {"wait", "update"}
         \/ /\ req[s].pc = "sendReveal"
            /\ AfterSend(req[s].pc) \in {"waitReveal", "updateReveal"}
  BY DEF Sends, AfterSend

\* The request has the hash of the transaction it has sent.
LEMMA SentTyped ==
  ASSUME TypeOK, NEW s \in Slot, Sends(s)
  PROVE  LET l == [req[s] EXCEPT !.pc = AfterSend(@), !.hash = Len(txs) + 1]
         IN  /\ l \in Local
             /\ l.pc = AfterSend(req[s].pc)
             /\ l.client = req[s].client
             /\ l.externalId = req[s].externalId
             /\ l.id = req[s].id
             /\ l.hash = Len(txs) + 1
  <1>1. /\ AfterSend(req[s].pc) \in {"wait", "update", "waitReveal", "updateReveal"}
        /\ req[s] \in Local
    BY AfterSendIs DEF TypeOK
  <1>2. Len(txs) + 1 \in Hash
    BY DEF TypeOK, Hash
  <1> QED BY <1>1, <1>2 DEF Local

\* SettlementsRepository.update keeps the client and the externalId of every
\* row, makes no row, and writes what the patch names.
LEMMA PatchEffect ==
  ASSUME TypeOK, NEW i \in Id, NEW status \in Status \cup {None},
         NEW h \in Hash \cup {None}, NEW r \in Hash \cup {None},
         Patch(i, status, h, r)
  PROVE  /\ rows' \in [Id -> Row \cup {None}]
         /\ \A j \in Id : j # i => rows'[j] = rows[j]
         /\ rows[i] = None => rows'[i] = None
         /\ rows[i] # None =>
              /\ rows'[i] # None
              /\ rows'[i].client = rows[i].client
              /\ rows'[i].externalId = rows[i].externalId
              /\ rows'[i].status = Coalesce(status, rows[i].status)
              /\ rows'[i].revealTransactionHash =
                   Coalesce(r, rows[i].revealTransactionHash)
  <1>1. CASE rows[i] = None
    BY <1>1 DEF Patch, TypeOK
  <1>2. CASE rows[i] # None
    <2> DEFINE rw == [client |-> rows[i].client, externalId |-> rows[i].externalId,
                      status |-> Coalesce(status, rows[i].status),
                      transactionHash |-> Coalesce(h, rows[i].transactionHash),
                      revealTransactionHash |->
                        Coalesce(r, rows[i].revealTransactionHash)]
    <2>1. rows[i] \in Row
      BY <1>2 DEF TypeOK
    <2>2. rows' = [rows EXCEPT ![i] = rw]
      <3> DEFINE r1 == [rows[i] EXCEPT !.status = Coalesce(status, @)]
                 r2 == [r1 EXCEPT !.transactionHash = Coalesce(h, @)]
                 r3 == [r2 EXCEPT !.revealTransactionHash = Coalesce(r, @)]
      <3>1. rows' = [[[rows EXCEPT ![i] = r1] EXCEPT ![i] = r2] EXCEPT ![i] = r3]
        BY <1>2, <2>1 DEF Patch, Coalesce, TypeOK
      <3>2. rows' = [rows EXCEPT ![i] = r3]
        BY <3>1 DEF TypeOK
      <3>3. /\ r1 \in Row
            /\ r1.client = rows[i].client
            /\ r1.externalId = rows[i].externalId
            /\ r1.status = Coalesce(status, rows[i].status)
            /\ r1.transactionHash = rows[i].transactionHash
            /\ r1.revealTransactionHash = rows[i].revealTransactionHash
        BY <2>1 DEF Row, Coalesce
      <3> HIDE DEF r1
      <3>4. /\ r2 \in Row
            /\ r2.client = rows[i].client
            /\ r2.externalId = rows[i].externalId
            /\ r2.status = Coalesce(status, rows[i].status)
            /\ r2.transactionHash = Coalesce(h, rows[i].transactionHash)
            /\ r2.revealTransactionHash = rows[i].revealTransactionHash
        BY <2>1, <3>3 DEF Row, Coalesce
      <3> HIDE DEF r2
      <3>5. r3 = rw
        BY <3>4 DEF Row
      <3> QED BY <3>2, <3>5
    <2>3. rw \in Row
      BY <2>1 DEF Coalesce, Row
    <2> QED BY <1>2, <2>2, <2>3, NullAssumption DEF TypeOK
  <1> QED BY <1>1, <1>2

\* A transaction that is mined changes its state and nothing else.
LEMMA MineEffect ==
  ASSUME TypeOK, NEW h \in 1 .. Len(txs), Mine(h)
  PROVE  /\ txs' \in Seq(Tx)
         /\ Len(txs') = Len(txs)
         /\ \A g \in 1 .. Len(txs) : g # h => txs'[g] = txs[g]
         /\ txs'[h].kind = txs[h].kind
         /\ txs'[h].id = txs[h].id
         /\ txs'[h].externalId = txs[h].externalId
         /\ txs'[h].state = IF Succeeds(txs[h]) THEN "success" ELSE "reverted"
         /\ txs[h] \in Tx
         /\ records' \in [ExternalId -> Record]
  <1> DEFINE st == IF Succeeds(txs[h]) THEN "success" ELSE "reverted"
  <1>1. txs \in Seq(Tx) /\ txs[h] \in Tx /\ h \in DOMAIN txs
    BY DEF TypeOK
  <1>2. txs' = [txs EXCEPT ![h] = [txs[h] EXCEPT !.state = st]]
    BY <1>1 DEF Mine
  <1>3. st \in {"success", "reverted"}
    OBVIOUS
  <1> HIDE DEF st
  <1>4. /\ [txs[h] EXCEPT !.state = st] \in Tx
        /\ [txs[h] EXCEPT !.state = st].kind = txs[h].kind
        /\ [txs[h] EXCEPT !.state = st].id = txs[h].id
        /\ [txs[h] EXCEPT !.state = st].externalId = txs[h].externalId
        /\ [txs[h] EXCEPT !.state = st].state = st
    BY <1>1, <1>3 DEF Tx
  <1>5. records' \in [ExternalId -> Record]
    <2> DEFINE e == txs[h].externalId
    <2>1. e \in ExternalId /\ txs[h].id \in Id /\ records[e] \in Record
      BY <1>1 DEF TypeOK, Tx
    <2>2. /\ [status |-> "recorded", commitment |-> txs[h].id] \in Record
          /\ [records[e] EXCEPT !.status = "revealed"] \in Record
      BY <2>1 DEF Record
    <2>3. \/ records' = records
          \/ records' = [records EXCEPT ![e] =
                           [status |-> "recorded", commitment |-> txs[h].id]]
          \/ records' = [records EXCEPT ![e] =
                           [records[e] EXCEPT !.status = "revealed"]]
      BY <2>1 DEF Mine
    <2> QED BY <2>1, <2>2, <2>3 DEF TypeOK
  <1>6. /\ txs' \in Seq(Tx)
        /\ Len(txs') = Len(txs)
        /\ \A g \in 1 .. Len(txs) : g # h => txs'[g] = txs[g]
        /\ txs'[h] = [txs[h] EXCEPT !.state = st]
    BY <1>1, <1>2, <1>4
  <1> QED BY <1>1, <1>4, <1>5, <1>6 DEF st

\* Every statement, every call and every block keep the types.
LEMMA StepTyped ==
  TypeOK /\ (\A s \in Slot : RequestOK(s)) /\ [Next]_vars => TypeOK'
  <1> SUFFICES ASSUME TypeOK, \A s \in Slot : RequestOK(s), [Next]_vars
               PROVE  TypeOK'
    OBVIOUS
  <1>0. \A s \in Slot : req[s] \in Local
    BY DEF TypeOK
  <1>1. ASSUME NEW s \in Slot, Claim(s)
        PROVE  TypeOK'
    <2>1. /\ [req[s] EXCEPT !.pc = "existing"] \in Local
          /\ [req[s] EXCEPT !.pc = "send"] \in Local
      BY <1>0, GotoTyped
    <2>2. req' \in [Slot -> Local]
      BY <1>1, <2>1, MoveTyped DEF Claim, Goto
    <2>3. /\ req[s].client \in Client
          /\ req[s].externalId \in ExternalId
          /\ req[s].id \in Id
      BY <1>1, Running DEF Claim
    <2>4. rows' \in [Id -> Row \cup {None}]
      BY <1>1, <2>3 DEF Claim, TypeOK, Row, Status
    <2> QED BY <1>1, <2>2, <2>4 DEF Claim, TypeOK, NoError, chainVars, countVars, ghostVars
  <1>2. ASSUME NEW s \in Slot, GetExisting(s) \/ AuditRecorded(s)
        PROVE  TypeOK'
    <2>1. req' \in [Slot -> Local]
      BY <1>2, IdleTyped, MoveTyped DEF GetExisting, AuditRecorded
    <2> QED BY <1>2, <2>1 DEF GetExisting, AuditRecorded, TypeOK, NoError, chainVars,
                              countVars, ghostVars
  <1>3. ASSUME NEW s \in Slot, WriteContract(s)
        PROVE  TypeOK'
    <2>1. Sends(s)
      BY <1>3 DEF WriteContract
    <2>2. req' \in [Slot -> Local]
      BY <1>3, <2>1, SentTyped, MoveTyped DEF WriteContract
    <2>3. txs' \in Seq(Tx)
      BY <1>3, <2>1, TransactionTyped DEF WriteContract, TypeOK
    <2> QED BY <1>3, <2>2, <2>3 DEF WriteContract, TypeOK, NoError, chainVars,
                                    countVars, ghostVars
  <1>4. ASSUME NEW s \in Slot, WriteContractReverts(s)
        PROVE  TypeOK'
    <2>1. req' \in [Slot -> Local]
      BY <1>0, <1>4, AfterErrorTyped, MoveTyped DEF WriteContractReverts
    <2> QED BY <1>4, <2>1 DEF WriteContractReverts, TypeOK, NoError, chainVars,
                              countVars, ghostVars
  <1>5. ASSUME NEW s \in Slot, Receipt(s)
        PROVE  TypeOK'
    <2>1. /\ [req[s] EXCEPT !.pc = "update"] \in Local
          /\ [req[s] EXCEPT !.pc = "updateReveal"] \in Local
      BY <1>0, GotoTyped
    <2>2. req' \in [Slot -> Local]
      BY <1>5, <2>1, MoveTyped DEF Receipt, Goto
    <2> QED BY <1>5, <2>2 DEF Receipt, TypeOK, NoError, chainVars, countVars, ghostVars
  <1>6. ASSUME NEW s \in Slot, UpdateRecorded(s)
        PROVE  TypeOK'
    <2>1. req[s].id \in Id /\ req[s].hash \in Hash \cup {None}
      BY <1>0, <1>6, Running DEF UpdateRecorded, Local
    <2>2. rows' \in [Id -> Row \cup {None}]
      BY <1>6, <2>1, PatchEffect DEF UpdateRecorded
    <2>3. req' \in [Slot -> Local]
      BY <1>0, <1>6, GotoTyped, MoveTyped DEF UpdateRecorded, Goto
    <2> QED BY <1>6, <2>2, <2>3 DEF UpdateRecorded, TypeOK, NoError, chainVars,
                                    countVars, ghostVars
  <1>7. ASSUME NEW s \in Slot, Release(s)
        PROVE  TypeOK'
    <2>1. req' \in [Slot -> Local]
      BY <1>7, IdleTyped, MoveTyped DEF Release
    <2>2. rows' \in [Id -> Row \cup {None}]
      BY <1>7 DEF Release, TypeOK
    <2> QED BY <1>7, <2>1, <2>2 DEF Release, TypeOK, NoError, chainVars, countVars,
                                    ghostVars
  <1>8. ASSUME NEW s \in Slot, RequireRecord(s)
        PROVE  TypeOK'
    <2>1. req[s].pc = "find" /\ req[s].id \in Id
      BY <1>8, Running DEF RequireRecord
    <2>2. asked' \subseteq Id
      BY <1>8, <2>1 DEF RequireRecord, TypeOK
    <2>3. Found(req[s].id, req[s].client) =>
            [req[s] EXCEPT !.pc = "sendReveal",
                           !.externalId = rows[req[s].id].externalId] \in Local
      BY <1>0, <2>1 DEF Found, TypeOK, Row, Local
    <2>4. req' \in [Slot -> Local]
      BY <1>8, <2>3, IdleTyped, MoveTyped DEF RequireRecord
    <2> QED BY <1>8, <2>2, <2>4 DEF RequireRecord, TypeOK, NoError, chainVars, countVars
  <1>9. ASSUME NEW s \in Slot, UpdateRevealed(s)
        PROVE  TypeOK'
    <2>1. req[s].id \in Id /\ req[s].hash \in Hash \cup {None}
      BY <1>0, <1>9, Running DEF UpdateRevealed, Local
    <2>2. rows' \in [Id -> Row \cup {None}]
      BY <1>9, <2>1, PatchEffect DEF UpdateRevealed, Status
    <2>3. req' \in [Slot -> Local]
      BY <1>9, IdleTyped, MoveTyped DEF UpdateRevealed
    <2> QED BY <1>9, <2>2, <2>3 DEF UpdateRevealed, TypeOK, NoError, chainVars,
                                    countVars, ghostVars
  <1>10. ASSUME NEW s \in Slot, StartRecord(s)
         PROVE  TypeOK'
    <2>1. PICK c \in Client, e \in ExternalId :
            Become(s, [pc |-> "claim", client |-> c, externalId |-> e,
                       id |-> recorded + 1, hash |-> None])
      BY <1>10 DEF StartRecord
    <2>2. recorded + 1 \in Id /\ recorded' \in 0 .. MaxRecords
      BY <1>10, SettlementsAssumption DEF StartRecord, TypeOK, Id
    <2>3. [pc |-> "claim", client |-> c, externalId |-> e,
           id |-> recorded + 1, hash |-> None] \in Local
      BY <2>2 DEF Local
    <2>4. req' \in [Slot -> Local]
      BY <2>1, <2>3, MoveTyped
    <2> QED BY <1>10, <2>2, <2>4 DEF StartRecord, TypeOK, chainVars, ghostVars
  <1>11. ASSUME NEW s \in Slot, StartReveal(s)
         PROVE  TypeOK'
    <2>1. PICK c \in Client, i \in 1 .. recorded :
            Become(s, [Idle EXCEPT !.pc = "find", !.client = c, !.id = i])
      BY <1>11 DEF StartReveal
    <2>2. i \in Id /\ reveals' \in 0 .. MaxReveals
      BY <1>11, SettlementsAssumption DEF StartReveal, TypeOK, Id
    <2>3. [Idle EXCEPT !.pc = "find", !.client = c, !.id = i] \in Local
      BY <2>2 DEF Idle, Local
    <2>4. req' \in [Slot -> Local]
      BY <2>1, <2>3, MoveTyped
    <2> QED BY <1>11, <2>2, <2>4 DEF StartReveal, TypeOK, chainVars, ghostVars
  <1>12. ASSUME NEW s \in Slot, WriteContractFails(s)
         PROVE  TypeOK'
    <2>1. req' \in [Slot -> Local]
      BY <1>0, <1>12, AfterErrorTyped, MoveTyped DEF WriteContractFails
    <2>2. txs' \in Seq(Tx)
      BY <1>12, TransactionTyped DEF WriteContractFails, TypeOK
    <2>3. errors' \in 0 .. MaxErrors
      BY <1>12, SettlementsAssumption DEF WriteContractFails, Error, TypeOK
    <2> QED BY <1>12, <2>1, <2>2, <2>3 DEF WriteContractFails, TypeOK, chainVars,
                                           countVars, ghostVars
  <1>13. ASSUME NEW s \in Slot, ReceiptFails(s) \/ RecordFails(s)
         PROVE  TypeOK'
    <2>1. req' \in [Slot -> Local]
      BY <1>0, <1>13, AfterErrorTyped, MoveTyped DEF ReceiptFails, RecordFails
    <2>2. errors' \in 0 .. MaxErrors
      BY <1>13, SettlementsAssumption DEF ReceiptFails, RecordFails, Error, TypeOK
    <2> QED BY <1>13, <2>1, <2>2 DEF ReceiptFails, RecordFails, TypeOK, chainVars,
                                     countVars, ghostVars
  <1>14. ASSUME NEW s \in Slot, Abort(s)
         PROVE  TypeOK'
    <2>1. req' \in [Slot -> Local]
      BY <1>14, IdleTyped, MoveTyped DEF Abort
    <2>2. errors' \in 0 .. MaxErrors
      BY <1>14, SettlementsAssumption DEF Abort, Error, TypeOK
    <2>3. abandoned' \subseteq Id
      BY <1>14, Running DEF Abort, TypeOK
    <2> QED BY <1>14, <2>1, <2>2, <2>3 DEF Abort, TypeOK, chainVars, countVars
  <1>15. ASSUME NEW h \in 1 .. Len(txs), Mine(h)
         PROVE  TypeOK'
    <2>1. txs' \in Seq(Tx) /\ records' \in [ExternalId -> Record]
      BY <1>15, MineEffect
    <2> QED BY <1>15, <2>1 DEF Mine, TypeOK, countVars, ghostVars
  <1>16. CASE SetRegistrar \/ SetAuditor
    <2>1. changes' \in 0 .. MaxRoleChanges
      BY <1>16, SettlementsAssumption DEF SetRegistrar, SetAuditor, TypeOK
    <2>2. registrar' \in BOOLEAN /\ auditor' \in BOOLEAN /\ revoked' \in BOOLEAN
      BY <1>16, Zenon DEF SetRegistrar, SetAuditor, TypeOK
    <2> QED BY <1>16, <2>1, <2>2, Zenon DEF SetRegistrar, SetAuditor, TypeOK, countVars,
                                            ghostVars
  <1>17. CASE UNCHANGED vars
    BY <1>17 DEF vars, TypeOK
  <1> QED BY <1>1, <1>2, <1>3, <1>4, <1>5, <1>6, <1>7, <1>8, <1>9, <1>10, <1>11,
             <1>12, <1>13, <1>14, <1>15, <1>16, <1>17 DEF Next, Steps

---------------------------------------------------------------------------
(* The chain *)

\* A transaction reaches the pool: of a request that passed the estimate.
Broadcast(s) ==
  /\ Sends(s)
  /\ EstimateGas(Transaction(req[s]))
  /\ txs' = Append(txs, Transaction(req[s]))
  /\ UNCHANGED <<records, registrar, auditor, revoked>>

\* The chain changes by a broadcast, by a block, or by its owner; a client's
\* wish to reveal is never forgotten, and ids only go up.
LEMMA ChainChange ==
  ASSUME TypeOK, [Next]_vars
  PROVE  /\ \/ txs' = txs /\ UNCHANGED <<records, auditor, revoked>>
            \/ \E s \in Slot : Broadcast(s)
            \/ \E h \in 1 .. Len(txs) : Mine(h)
            \/ SetAuditor
         /\ asked \subseteq asked'
         /\ recorded' \in {recorded, recorded + 1}
  <1>1. ASSUME NEW s \in Slot, Steps(s)
        PROVE  /\ \/ txs' = txs /\ UNCHANGED <<records, auditor, revoked>>
                  \/ Broadcast(s)
               /\ asked \subseteq asked'
               /\ recorded' = recorded
    BY <1>1 DEF Steps, Claim, GetExisting, WriteContract, WriteContractReverts, Receipt,
                UpdateRecorded, AuditRecorded, Release, RequireRecord, UpdateRevealed,
                Broadcast, chainVars, countVars, ghostVars
  <1>2. ASSUME NEW s \in Slot,
               \/ StartRecord(s) \/ StartReveal(s) \/ WriteContractFails(s)
               \/ ReceiptFails(s) \/ RecordFails(s) \/ Abort(s)
        PROVE  /\ \/ txs' = txs /\ UNCHANGED <<records, auditor, revoked>>
                  \/ Broadcast(s)
               /\ asked \subseteq asked'
               /\ recorded' \in {recorded, recorded + 1}
    BY <1>2 DEF StartRecord, StartReveal, WriteContractFails, ReceiptFails, RecordFails,
                Abort, Broadcast, chainVars, countVars, ghostVars
  <1>3. ASSUME NEW h \in 1 .. Len(txs), Mine(h)
        PROVE  asked' = asked /\ recorded' = recorded
    BY <1>3 DEF Mine, countVars, ghostVars
  <1>4. CASE SetRegistrar \/ SetAuditor
    BY <1>4 DEF SetRegistrar, SetAuditor, countVars, ghostVars
  <1>5. CASE UNCHANGED vars
    BY <1>5 DEF vars
  <1> QED BY <1>1, <1>2, <1>3, <1>4, <1>5 DEF Next

\* A broadcast adds one transaction at the end.
LEMMA BroadcastEffect ==
  ASSUME TypeOK, NEW s \in Slot, RequestOK(s), Broadcast(s)
  PROVE  /\ Len(txs') = Len(txs) + 1
         /\ \A h \in 1 .. Len(txs) : txs'[h] = txs[h]
         /\ txs'[Len(txs) + 1] = Transaction(req[s])
         /\ Transaction(req[s]) \in Tx
  BY TransactionTyped DEF Broadcast, TypeOK

\* A hash goes on naming what it names.
LEMMA RevealTxKept ==
  ASSUME TypeOK, \A s \in Slot : RequestOK(s), [Next]_vars,
         NEW h, NEW i, NEW e, RevealTx(h, i, e)
  PROVE  RevealTx(h, i, e)'
  <1>1. CASE txs' = txs
    BY <1>1 DEF RevealTx
  <1>2. ASSUME NEW s \in Slot, Broadcast(s)
        PROVE  RevealTx(h, i, e)'
    BY <1>2, BroadcastEffect DEF RevealTx, TypeOK
  <1>3. ASSUME NEW g \in 1 .. Len(txs), Mine(g)
        PROVE  RevealTx(h, i, e)'
    BY <1>3, MineEffect DEF RevealTx
  <1>4. CASE SetAuditor
    BY <1>1, <1>4 DEF SetAuditor
  <1> QED BY <1>1, <1>2, <1>3, <1>4, ChainChange

\* What the registry records stays: a mined transaction adds a commitment
\* where there was none, or reveals the one that is there.
LEMMA MineRecords ==
  ASSUME TypeOK, NEW h \in 1 .. Len(txs), Mine(h), NEW e \in ExternalId
  PROVE  \/ records'[e] = records[e]
         \/ /\ records[e].status = "none"
            /\ txs[h].kind = "record"
            /\ records'[e].status = "recorded"
         \/ /\ txs[h].kind = "reveal"
            /\ txs[h].externalId = e
            /\ records[e].status # "none"
            /\ records[e].commitment = txs[h].id
            /\ records'[e].status = "revealed"
            /\ records'[e].commitment = records[e].commitment
  <1>1. txs[h] \in Tx /\ records[e] \in Record
    BY MineEffect DEF TypeOK
  <1>2. CASE ~Succeeds(txs[h]) \/ txs[h].externalId # e
    BY <1>1, <1>2 DEF Mine, TypeOK, Tx
  <1>3. CASE Succeeds(txs[h]) /\ txs[h].externalId = e /\ txs[h].kind = "record"
    <2>1. records' = [records EXCEPT ![e] = [status |-> "recorded",
                                             commitment |-> txs[h].id]]
      BY <1>3 DEF Mine
    <2> QED BY <1>3, <2>1 DEF Succeeds, Recordable, TypeOK
  <1>4. CASE Succeeds(txs[h]) /\ txs[h].externalId = e /\ txs[h].kind = "reveal"
    <2>1. records' = [records EXCEPT ![e] = [records[e] EXCEPT !.status = "revealed"]]
      BY <1>4 DEF Mine
    <2>2. /\ [records[e] EXCEPT !.status = "revealed"].status = "revealed"
          /\ [records[e] EXCEPT !.status = "revealed"].commitment = records[e].commitment
      BY <1>1 DEF Record
    <2> QED BY <1>4, <2>1, <2>2 DEF Succeeds, Revealable, VerifyCommitment, TypeOK
  <1> QED BY <1>1, <1>2, <1>3, <1>4 DEF Tx

\* A transaction that was fine stays fine while nothing but the set of wishes
\* grows, or the registry goes on.
LEMMA TxStays ==
  ASSUME NEW t, TxOK(t),
         asked \subseteq asked',
         revoked => revoked',
         t.kind = "reveal" =>
           /\ records'[t.externalId].commitment = records[t.externalId].commitment
           /\ records'[t.externalId].status # "none"
           /\ records[t.externalId].status = "revealed" =>
                records'[t.externalId].status = "revealed"
  PROVE  TxOK(t)'
  BY DEF TxOK

\* The registry only ever reveals what its client asked for, and a reveal that
\* reverts was overtaken by a change of roles.
LEMMA ChainStep ==
  ASSUME IInv, [Next]_vars
  PROVE  /\ (auditor \/ revoked)'
         /\ DisclosedByOwner'
         /\ \A h \in 1 .. Len(txs') : TxOK(txs[h])'
  <1> DEFINE Goal == /\ (auditor \/ revoked)'
                     /\ DisclosedByOwner'
                     /\ \A h \in 1 .. Len(txs') : TxOK(txs[h])'
  <1>0. /\ asked \subseteq asked'
        /\ TypeOK
        /\ \A h \in 1 .. Len(txs) : txs[h] \in Tx /\ TxOK(txs[h])
    BY ChainChange DEF IInv, TypeOK
  <1>1. CASE txs' = txs /\ UNCHANGED <<records, auditor, revoked>>
    BY <1>0, <1>1, TxStays DEF IInv, DisclosedByOwner, TxOK
  <1>2. ASSUME NEW s \in Slot, Broadcast(s)
        PROVE  Goal
    <2>1. (auditor \/ revoked)' /\ DisclosedByOwner'
      BY <1>0, <1>2 DEF Broadcast, IInv, DisclosedByOwner
    <2>2. RequestOK(s) /\ Sends(s)
      BY <1>2 DEF IInv, Broadcast
    <2>3. ASSUME NEW h \in 1 .. Len(txs'), NEW t, t = txs'[h]
          PROVE  TxOK(t)'
      <3>1. CASE h \in 1 .. Len(txs)
        <4>1. TxOK(t)
          BY <1>0, <1>2, <2>2, <2>3, <3>1, BroadcastEffect
        <4> QED BY <1>0, <1>2, <4>1 DEF TxOK, Broadcast
      <3>2. CASE h = Len(txs) + 1
        <4>1. t = Transaction(req[s])
          BY <1>0, <1>2, <2>2, <2>3, <3>2, BroadcastEffect
        <4>2. /\ t.id = req[s].id
              /\ t.externalId = req[s].externalId
              /\ t.state = "pending"
              /\ t.kind = IF req[s].pc = "send" THEN "record" ELSE "reveal"
          BY <1>0, <2>2, <4>1, TransactionTyped
        <4>3. EstimateGas(t)
          BY <1>2, <4>1 DEF Broadcast
        <4>4. CASE t.kind = "reveal"
          <5>1. req[s].pc = "sendReveal" /\ req[s].id \in asked
            BY <2>2, <4>2, <4>4 DEF Sends, RequestOK, Revealing
          <5>2. /\ records[t.externalId].status # "none"
                /\ records[t.externalId].commitment = t.id
            BY <4>3, <4>4 DEF EstimateGas, Succeeds, Revealable, VerifyCommitment
          <5> QED BY <1>0, <1>2, <4>2, <5>1, <5>2 DEF TxOK, Broadcast
        <4> QED BY <4>4 DEF TxOK
      <3>3. h \in 1 .. Len(txs) \/ h = Len(txs) + 1
        BY <1>0, <1>2, <2>2, BroadcastEffect DEF TypeOK
      <3> QED BY <3>1, <3>2, <3>3
    <2>4. \A h \in 1 .. Len(txs') : TxOK(txs[h])'
      BY <2>3
    <2> QED BY <2>1, <2>4
  <1>3. ASSUME NEW h \in 1 .. Len(txs), Mine(h)
        PROVE  Goal
    <2>1. (auditor \/ revoked)' /\ UNCHANGED <<revoked, asked>>
      BY <1>3 DEF Mine, IInv, ghostVars
    <2>2. DisclosedByOwner'
      <3> SUFFICES ASSUME NEW e \in ExternalId, records'[e].status = "revealed"
                   PROVE  records'[e].commitment \in asked
        BY <2>1 DEF DisclosedByOwner
      <3>1. TxOK(txs[h])
        BY <1>0
      <3> QED BY <1>0, <1>3, <3>1, MineRecords DEF TxOK, IInv, DisclosedByOwner
    <2>3. ASSUME NEW t \in Tx, TxOK(t)
          PROVE  TxOK(t)'
      <3>1. t.externalId \in ExternalId
        BY DEF Tx
      <3> QED BY <1>0, <1>3, <2>1, <2>3, <3>1, MineRecords DEF TxOK
    <2>4. ASSUME NEW g \in 1 .. Len(txs'), NEW t, t = txs'[g]
          PROVE  TxOK(t)'
      <3>1. g \in 1 .. Len(txs)
        BY <1>0, <1>3, MineEffect
      <3>2. TxOK(txs[g]) /\ txs[g] \in Tx
        BY <1>0, <3>1
      <3>3. CASE g # h
        <4>1. t = txs[g]
          BY <1>0, <1>3, <2>4, <3>1, <3>3, MineEffect
        <4> QED BY <2>3, <3>2, <4>1
      <3>4. CASE g = h
        <4>1. /\ t.kind = txs[h].kind
              /\ t.id = txs[h].id
              /\ t.externalId = txs[h].externalId
              /\ t.state = IF Succeeds(txs[h]) THEN "success" ELSE "reverted"
          BY <1>0, <1>3, <2>4, <3>4, MineEffect
        <4>2. \A u : u = txs[h] => TxOK(u)'
          BY <2>3, <3>2, <3>4
        <4>3. CASE t.kind = "reveal" /\ Succeeds(txs[h])
          <5>1. records'[t.externalId].status = "revealed"
            <6>1. records' = [records EXCEPT ![t.externalId] =
                                [records[t.externalId] EXCEPT !.status = "revealed"]]
              BY <1>3, <4>1, <4>3 DEF Mine
            <6>2. t.externalId \in ExternalId /\ records[t.externalId] \in Record
              BY <1>0, <4>1 DEF Tx, TypeOK
            <6> QED BY <1>0, <6>1, <6>2 DEF TypeOK, Record
          <5> QED BY <4>1, <4>2, <4>3, <5>1 DEF TxOK
        <4>4. CASE t.kind = "reveal" /\ ~Succeeds(txs[h])
          <5>1. ~auditor
            BY <3>2, <3>4, <4>1, <4>4 DEF TxOK, Succeeds, Revealable, VerifyCommitment
          <5>2. revoked'
            BY <2>1, <5>1 DEF IInv
          <5> QED BY <4>1, <4>2, <4>4, <5>2 DEF TxOK
        <4>5. CASE t.kind # "reveal"
          BY <4>5 DEF TxOK
        <4> QED BY <4>3, <4>4, <4>5
      <3> QED BY <3>3, <3>4
    <2>5. \A g \in 1 .. Len(txs') : TxOK(txs[g])'
      BY <2>4
    <2> QED BY <2>1, <2>2, <2>5
  <1>4. CASE SetAuditor
    BY <1>0, <1>4 DEF SetAuditor, IInv, DisclosedByOwner, TxOK, TypeOK, ghostVars
  <1> QED BY <1>1, <1>2, <1>3, <1>4, ChainChange DEF IInv

---------------------------------------------------------------------------
(* The rows *)

\* The row that a request claims.
ClaimedRow(s) ==
  [client |-> req[s].client, externalId |-> req[s].externalId,
   status |-> "recorded", transactionHash |-> None, revealTransactionHash |-> None]

\* How the table changes.
Claims(s) ==
  /\ req[s].pc = "claim"
  /\ Conflicts(req[s].client, req[s].externalId) = {}
  /\ rows' = [rows EXCEPT ![req[s].id] = ClaimedRow(s)]
  /\ Goto(s, "send")

Patched ==
  \A i \in Id :
    /\ rows[i] = None => rows'[i] = None
    /\ rows[i] # None =>
         /\ rows'[i] # None
         /\ rows'[i].client = rows[i].client
         /\ rows'[i].externalId = rows[i].externalId
         /\ \/ /\ rows'[i].status = rows[i].status
               /\ rows'[i].revealTransactionHash = rows[i].revealTransactionHash
            \/ RevealTx(rows'[i].revealTransactionHash, i, rows[i].externalId)

\* Rows are claimed, patched or given up, and by their own request.
LEMMA RowsChange ==
  ASSUME TypeOK, \A s \in Slot : RequestOK(s), [Next]_vars
  PROVE  \/ \E s \in Slot : Claims(s)
         \/ \E s \in Slot : Release(s)
         \/ Patched
  <1>1. CASE rows' = rows
    BY <1>1 DEF Patched
  <1>2. ASSUME NEW s \in Slot, Claim(s)
        PROVE  Claims(s) \/ rows' = rows
    BY <1>2 DEF Claim, Claims, ClaimedRow
  <1>3. ASSUME NEW s \in Slot, UpdateRecorded(s)
        PROVE  Patched
    <2>1. req[s].id \in Id /\ req[s].hash \in Hash \cup {None}
      BY <1>3, Running DEF UpdateRecorded, Local
    <2> QED BY <1>3, <2>1, PatchEffect, ZenonT(30) DEF UpdateRecorded, Patched, Coalesce
  <1>4. ASSUME NEW s \in Slot, UpdateRevealed(s)
        PROVE  Patched
    <2>1. req[s].id \in Id /\ req[s].hash \in Hash \cup {None}
      BY <1>4, Running DEF UpdateRevealed, Local
    <2>2. /\ RevealTx(req[s].hash, req[s].id, req[s].externalId)
          /\ rows[req[s].id] # None => rows[req[s].id].externalId = req[s].externalId
      BY <1>4 DEF UpdateRevealed, RequestOK, Revealing
    <2>3. req[s].hash # None
      BY <2>2, NullAssumption DEF RevealTx
    <2>4. Patch(req[s].id, "revealed", None, req[s].hash)
      BY <1>4 DEF UpdateRevealed
    <2>5. /\ \A j \in Id : j # req[s].id => rows'[j] = rows[j]
          /\ rows[req[s].id] = None => rows'[req[s].id] = None
          /\ rows[req[s].id] # None =>
               /\ rows'[req[s].id] # None
               /\ rows'[req[s].id].client = rows[req[s].id].client
               /\ rows'[req[s].id].externalId = rows[req[s].id].externalId
               /\ rows'[req[s].id].revealTransactionHash = req[s].hash
      <3>1. \A x : Coalesce(req[s].hash, x) = req[s].hash
        BY <2>3 DEF Coalesce
      <3>2. "revealed" \in Status \cup {None} /\ None \in Hash \cup {None}
        BY DEF Status
      <3>3. ASSUME NEW i, i = req[s].id, NEW h, h = req[s].hash
            PROVE  /\ \A j \in Id : j # i => rows'[j] = rows[j]
                   /\ rows[i] = None => rows'[i] = None
                   /\ rows[i] # None =>
                        /\ rows'[i] # None
                        /\ rows'[i].client = rows[i].client
                        /\ rows'[i].externalId = rows[i].externalId
                        /\ rows'[i].revealTransactionHash =
                             Coalesce(h, rows[i].revealTransactionHash)
        <4>1. i \in Id /\ h \in Hash \cup {None} /\ Patch(i, "revealed", None, h)
          BY <2>1, <2>4, <3>3
        <4> QED BY <3>2, <4>1, PatchEffect
      <3> QED BY <3>1, <3>3
    <2> QED BY <2>2, <2>5 DEF Patched
  <1>5. ASSUME NEW s \in Slot,
               \/ GetExisting(s) \/ WriteContract(s) \/ WriteContractReverts(s)
               \/ Receipt(s) \/ AuditRecorded(s) \/ RequireRecord(s)
               \/ StartRecord(s) \/ StartReveal(s) \/ WriteContractFails(s)
               \/ ReceiptFails(s) \/ RecordFails(s) \/ Abort(s)
        PROVE  rows' = rows
    BY <1>5 DEF GetExisting, WriteContract, WriteContractReverts, Receipt, AuditRecorded,
                RequireRecord, StartRecord, StartReveal, WriteContractFails, ReceiptFails,
                RecordFails, Abort
  <1>6. CASE SetRegistrar \/ SetAuditor \/ \E h \in 1 .. Len(txs) : Mine(h)
    BY <1>1, <1>6 DEF SetRegistrar, SetAuditor, Mine
  <1>7. CASE UNCHANGED vars
    BY <1>1, <1>7 DEF vars
  <1> QED BY <1>1, <1>2, <1>3, <1>4, <1>5, <1>6, <1>7 DEF Next, Steps

\* What a claim leaves in the table.
LEMMA ClaimsEffect ==
  ASSUME TypeOK, NEW s \in Slot, RequestOK(s), Claims(s)
  PROVE  /\ req[s].id \in Id
         /\ rows'[req[s].id] = ClaimedRow(s)
         /\ ClaimedRow(s) # None
         /\ \A i \in Id : i # req[s].id => rows'[i] = rows[i]
         /\ req'[s].pc = "send"
         /\ req'[s].client = req[s].client
         /\ req'[s].externalId = req[s].externalId
         /\ req'[s].id = req[s].id
         /\ \A t \in Slot : t # s => req'[t] = req[t]
  <1>1. /\ req[s].client \in Client /\ req[s].externalId \in ExternalId
        /\ req[s].id \in Id /\ req[s] \in Local
    BY Running DEF Claims
  <1>2. ClaimedRow(s) \in Row
    BY <1>1 DEF ClaimedRow, Row, Status
  <1>3. /\ req'[s] = [req[s] EXCEPT !.pc = "send"]
        /\ \A t \in Slot : t # s => req'[t] = req[t]
    BY <1>1, GotoTyped, MoveTyped DEF Claims, Goto
  <1> QED BY <1>1, <1>2, <1>3, GotoTyped, NullAssumption DEF Claims, TypeOK

\* What a release leaves.
LEMMA ReleaseEffect ==
  ASSUME TypeOK, NEW s \in Slot, RequestOK(s), Release(s)
  PROVE  /\ req[s].id \in Id
         /\ rows'[req[s].id] = None
         /\ \A i \in Id : i # req[s].id => rows'[i] = rows[i]
         /\ req'[s] = Idle
         /\ \A t \in Slot : t # s => req'[t] = req[t]
  <1>1. req[s].id \in Id
    BY Running DEF Release
  <1> QED BY <1>1, IdleTyped, MoveTyped DEF Release, TypeOK

\* The unique index is kept.
LEMMA RowsUniqueStep ==
  ASSUME IInv, [Next]_vars
  PROVE  RowsUnique'
  <1>0. TypeOK /\ \A s \in Slot : RequestOK(s)
    BY DEF IInv
  <1>1. ASSUME NEW s \in Slot, Claims(s)
        PROVE  RowsUnique'
    <2>1. \A i \in Id : ~(/\ rows[i] # None
                          /\ rows[i].client = req[s].client
                          /\ rows[i].externalId = req[s].externalId)
      BY <1>1 DEF Claims, Conflicts
    <2>2. /\ ClaimedRow(s).client = req[s].client
          /\ ClaimedRow(s).externalId = req[s].externalId
      BY DEF ClaimedRow
    <2> QED BY <1>0, <1>1, <2>1, <2>2, ClaimsEffect DEF IInv, RowsUnique
  <1>2. ASSUME NEW s \in Slot, Release(s)
        PROVE  RowsUnique'
    BY <1>0, <1>2, ReleaseEffect DEF IInv, RowsUnique
  <1>3. CASE Patched
    BY <1>3 DEF Patched, IInv, RowsUnique
  <1> QED BY <1>0, <1>1, <1>2, <1>3, RowsChange

\* What a step has to go on: the counter and the set of what was asked grow.
LEMMA StepFacts ==
  ASSUME IInv, [Next]_vars
  PROVE  /\ TypeOK /\ \A s \in Slot : RequestOK(s) /\ req[s] \in Local
         /\ recorded \in Nat /\ recorded' \in Nat /\ recorded <= recorded'
         /\ asked \subseteq asked'
         /\ \A i \in Id : i \in Nat /\ RowOK(i)
         /\ RequestsApart
  <1>1. /\ TypeOK /\ \A s \in Slot : RequestOK(s)
        /\ \A i \in Id : RowOK(i)
        /\ RequestsApart
    BY DEF IInv
  <1>2. recorded \in Nat /\ \A s \in Slot : req[s] \in Local
    BY <1>1 DEF TypeOK
  <1>3. recorded' \in {recorded, recorded + 1} /\ asked \subseteq asked'
    BY <1>1, ChainChange
  <1>4. recorded' \in Nat /\ recorded <= recorded'
    BY <1>2, <1>3
  <1>5. \A i \in Id : i \in Nat
    BY SettlementsAssumption DEF Id
  <1> QED BY <1>1, <1>2, <1>3, <1>4, <1>5

\* A row that says revealed names the reveal of its own settlement.
LEMMA RowsStep ==
  ASSUME IInv, [Next]_vars
  PROVE  \A i \in Id : RowOK(i)'
  <1>0. /\ TypeOK /\ \A s \in Slot : RequestOK(s)
        /\ recorded \in Nat /\ recorded' \in Nat /\ recorded <= recorded'
        /\ \A i \in Id : RowOK(i) /\ i \in Nat
    BY StepFacts
  <1>1. ASSUME NEW i \in Id, rows'[i] # None, rows[i] # None,
               rows'[i].externalId = rows[i].externalId,
               \/ /\ rows'[i].status = rows[i].status
                  /\ rows'[i].revealTransactionHash = rows[i].revealTransactionHash
               \/ RevealTx(rows'[i].revealTransactionHash, i, rows[i].externalId)
        PROVE  RowOK(i)'
    <2>1. i <= recorded'
      BY <1>0, <1>1 DEF RowOK
    <2>2. ASSUME rows'[i].status = "revealed",
                 NEW h, h = rows'[i].revealTransactionHash,
                 NEW e, e = rows[i].externalId
          PROVE  RevealTx(h, i, e)'
      BY <1>0, <1>1, <2>2, RevealTxKept DEF RowOK
    <2> QED BY <1>1, <2>1, <2>2 DEF RowOK
  <1>2. ASSUME NEW i \in Id, rows'[i] = rows[i]
        PROVE  RowOK(i)'
    <2>1. CASE rows[i] = None
      BY <1>2, <2>1 DEF RowOK
    <2> QED BY <1>1, <1>2, <2>1
  <1>3. ASSUME NEW s \in Slot, Claims(s)
        PROVE  \A i \in Id : RowOK(i)'
    <2>1. /\ ClaimedRow(s).status = "recorded"
          /\ req[s].id <= recorded /\ req[s].id \in Id
      BY <1>0, <1>3, Running DEF ClaimedRow, Claims
    <2>2. ASSUME NEW i \in Id, i = req[s].id
          PROVE  RowOK(i)'
      <3>1. rows'[i] = ClaimedRow(s)
        BY <1>0, <1>3, <2>2, ClaimsEffect
      <3>2. i <= recorded'
        BY <1>0, <2>1, <2>2
      <3> QED BY <2>1, <3>1, <3>2 DEF RowOK
    <2> QED BY <1>0, <1>2, <1>3, <2>2, ClaimsEffect
  <1>4. ASSUME NEW s \in Slot, Release(s)
        PROVE  \A i \in Id : RowOK(i)'
    <2>1. ASSUME NEW i \in Id, rows'[i] = None
          PROVE  RowOK(i)'
      BY <2>1 DEF RowOK
    <2> QED BY <1>0, <1>2, <1>4, <2>1, ReleaseEffect
  <1>5. CASE Patched
    <2>1. ASSUME NEW i \in Id
          PROVE  RowOK(i)'
      <3>1. CASE rows[i] = None
        BY <1>5, <3>1 DEF Patched, RowOK
      <3>2. CASE rows[i] # None
        BY <1>1, <1>5, <3>2 DEF Patched
      <3> QED BY <3>1, <3>2
    <2> QED BY <2>1
  <1> QED BY <1>0, <1>3, <1>4, <1>5, RowsChange

---------------------------------------------------------------------------
(* The requests *)

\* A request that does not move keeps what it owns: nobody else claims, gives
\* up or reveals under its id.
LEMMA Stays ==
  ASSUME IInv, [Next]_vars, NEW t \in Slot, req'[t] = req[t]
  PROVE  RequestOK(t)'
  <1>0. /\ TypeOK /\ \A s \in Slot : RequestOK(s)
        /\ recorded \in Nat /\ recorded' \in Nat /\ recorded <= recorded'
        /\ asked \subseteq asked'
        /\ \A i \in Id : i \in Nat
        /\ RequestsApart
    BY StepFacts
  <1>1. CASE req[t].pc = "idle"
    BY <1>1 DEF RequestOK, Working, Revealing
  <1>2. CASE req[t].pc # "idle"
    <2> DEFINE i == req[t].id
    <2>1. /\ i \in Id /\ i <= recorded /\ RequestOK(t)
      BY <1>0, <1>2, Running
    <2>2. req[t].pc = "claim" => rows'[i] = None
      <3> SUFFICES ASSUME req[t].pc = "claim"
                   PROVE  rows'[i] = None
        OBVIOUS
      <3>1. rows[i] = None
        BY <2>1 DEF RequestOK
      <3>2. ASSUME NEW s \in Slot, Claims(s)
            PROVE  rows'[i] = rows[i]
        <4>1. t # s /\ req[s].id # i
          BY <1>0, <3>2, ClaimsEffect, ZenonT(30) DEF Claims, RequestsApart, RecordPc
        <4> QED BY <1>0, <2>1, <3>2, <4>1, ClaimsEffect
      <3>3. ASSUME NEW s \in Slot, Release(s)
            PROVE  rows'[i] = None
        BY <1>0, <2>1, <3>1, <3>3, ReleaseEffect
      <3> QED BY <1>0, <2>1, <3>1, <3>2, <3>3, RowsChange DEF Patched
    <2>3. req[t].pc \in Working =>
            /\ rows'[i] # None
            /\ rows'[i].client = req[t].client
            /\ rows'[i].externalId = req[t].externalId
      <3> SUFFICES ASSUME req[t].pc \in Working
                   PROVE  /\ rows'[i] # None
                          /\ rows'[i].client = rows[i].client
                          /\ rows'[i].externalId = rows[i].externalId
        BY <2>1 DEF RequestOK
      <3>1. rows[i] # None
        BY <2>1 DEF RequestOK
      <3>2. ASSUME NEW s \in Slot, Claims(s)
            PROVE  rows'[i] = rows[i]
        <4>1. t # s /\ req[s].id # i
          BY <1>0, <3>2, ClaimsEffect DEF Claims, RequestsApart, RecordPc, Working
        <4> QED BY <1>0, <2>1, <3>2, <4>1, ClaimsEffect
      <3>3. ASSUME NEW s \in Slot, Release(s)
            PROVE  rows'[i] = rows[i]
        <4>1. t # s
          BY <1>0, <1>2, <3>3, ReleaseEffect DEF Idle
        <4>2. req[s].id # i
          BY <1>0, <3>3, <4>1 DEF Release, RequestsApart, RecordPc, Working
        <4> QED BY <1>0, <2>1, <3>3, <4>2, ReleaseEffect
      <3> QED BY <1>0, <2>1, <3>1, <3>2, <3>3, RowsChange DEF Patched
    <2>4. req[t].pc \in Revealing =>
            /\ i \in asked'
            /\ rows'[i] # None => rows'[i].externalId = req[t].externalId
      <3> SUFFICES ASSUME req[t].pc \in Revealing, rows'[i] # None
                   PROVE  rows[i] # None /\ rows'[i].externalId = rows[i].externalId
        BY <1>0, <2>1 DEF RequestOK
      <3>1. ASSUME NEW s \in Slot, Claims(s)
            PROVE  rows'[i] = rows[i]
        <4>1. req[s].pc = "claim" /\ req[t].pc # "claim"
          BY <3>1 DEF Claims, Revealing
        <4>2. req[s].id # i
          BY <1>0, <4>1 DEF RequestsApart, RecordPc
        <4> QED BY <1>0, <2>1, <3>1, <4>2, ClaimsEffect
      <3>2. ASSUME NEW s \in Slot, Release(s)
            PROVE  rows'[i] = rows[i]
        BY <1>0, <2>1, <3>2, ReleaseEffect
      <3> QED BY <1>0, <2>1, <3>1, <3>2, RowsChange DEF Patched
    <2>5. req[t].pc \in {"waitReveal", "updateReveal"} =>
            \A h, j, e : h = req[t].hash /\ j = i /\ e = req[t].externalId =>
              RevealTx(h, j, e)'
      BY <1>0, <2>1, RevealTxKept DEF RequestOK
    <2> QED BY <1>0, <2>1, <2>2, <2>3, <2>4, <2>5 DEF RequestOK
  <1> QED BY <1>1, <1>2

\* A slot that becomes idle.
LEMMA Ends ==
  ASSUME NEW s \in Slot, req'[s] = Idle
  PROVE  RequestOK(s)'
  BY DEF RequestOK, Idle, Working, Revealing

\* Moves that make no new id keep the requests apart.
LEMMA ApartKept ==
  ASSUME RequestsApart, NEW s \in Slot,
         \A t \in Slot : t # s => req'[t] = req[t],
         req'[s].pc \in RecordPc => req[s].pc \in RecordPc /\ req'[s].id = req[s].id,
         req'[s].pc = "claim" => req[s].pc = "claim",
         req'[s].pc \in Revealing => req[s].pc \in Revealing /\ req'[s].id = req[s].id
  PROVE  RequestsApart'
  BY DEF RequestsApart

\* Every step of a request keeps what it knows and what it owns, and keeps the
\* requests apart.
LEMMA RequestsStep ==
  ASSUME IInv, [Next]_vars
  PROVE  (\A s \in Slot : RequestOK(s)') /\ RequestsApart'
  <1> DEFINE Goal == (\A s \in Slot : RequestOK(s)') /\ RequestsApart'
  <1>0. /\ TypeOK /\ \A s \in Slot : RequestOK(s) /\ req[s] \in Local
        /\ recorded \in Nat /\ recorded' \in Nat /\ recorded <= recorded'
        /\ asked \subseteq asked'
        /\ \A i \in Id : i \in Nat /\ RowOK(i)
        /\ RequestsApart
    BY StepFacts
  <1>1. CASE req' = req
    BY <1>0, <1>1, Stays DEF RequestsApart
  <1>2. ASSUME NEW s \in Slot, Become(s, Idle)
        PROVE  Goal
    <2>1. req'[s] = Idle /\ \A t \in Slot : t # s => req'[t] = req[t]
      BY <1>0, <1>2, IdleTyped, MoveTyped
    <2>2. \A t \in Slot : RequestOK(t)'
      BY <2>1, Stays, Ends
    <2>3. RequestsApart'
      BY <1>0, <2>1, ApartKept DEF Idle, RecordPc, Revealing
    <2> QED BY <2>2, <2>3
  <1>3. ASSUME NEW s \in Slot, NEW l \in Local, Become(s, l), rows' = rows,
               req[s].pc \in Working, l.pc \in Working,
               l.id = req[s].id, l.client = req[s].client,
               l.externalId = req[s].externalId
        PROVE  Goal
    <2>1. req'[s] = l /\ \A t \in Slot : t # s => req'[t] = req[t]
      BY <1>0, <1>3, MoveTyped
    <2>2. RequestOK(s) /\ req[s].pc # "idle" /\ req[s].id \in Id
      BY <1>0, <1>3, Running DEF Working
    <2>3. RequestOK(s)'
      BY <1>0, <1>3, <2>1, <2>2 DEF RequestOK, Working, Revealing
    <2>4. RequestsApart'
      BY <1>0, <1>3, <2>1, ApartKept DEF Working, RecordPc, Revealing
    <2> QED BY <2>1, <2>3, <2>4, Stays
  <1>4. ASSUME NEW s \in Slot, Claim(s)
        PROVE  Goal
    <2>1. CASE Claims(s)
      <3>1. /\ rows'[req[s].id] = ClaimedRow(s) /\ ClaimedRow(s) # None
            /\ ClaimedRow(s).client = req[s].client
            /\ ClaimedRow(s).externalId = req[s].externalId
        BY <1>0, <2>1, ClaimsEffect DEF ClaimedRow
      <3>2. /\ req'[s].pc = "send" /\ req[s].pc = "claim"
            /\ req'[s].client = req[s].client
            /\ req'[s].externalId = req[s].externalId
            /\ req'[s].id = req[s].id
            /\ \A t \in Slot : t # s => req'[t] = req[t]
        BY <1>0, <2>1, ClaimsEffect DEF Claims
      <3>3. RequestOK(s) /\ req[s].id \in Id
        BY <1>0, <3>2, Running
      <3>4. RequestOK(s)'
        BY <1>0, <3>1, <3>2, <3>3 DEF RequestOK, Working, Revealing
      <3>5. RequestsApart'
        BY <1>0, <3>2, ApartKept DEF RecordPc, Revealing
      <3> QED BY <3>2, <3>4, <3>5, Stays
    <2>2. CASE Goto(s, "existing")
      <3>1. /\ req'[s].pc = "existing" /\ req[s].pc = "claim"
            /\ req'[s].client = req[s].client
            /\ req'[s].externalId = req[s].externalId
            /\ req'[s].id = req[s].id
            /\ \A t \in Slot : t # s => req'[t] = req[t]
        BY <1>0, <1>4, <2>2, GotoMoved DEF Claim
      <3>2. RequestOK(s) /\ req[s].id \in Id
        BY <1>0, <3>1, Running
      <3>3. RequestOK(s)'
        BY <1>0, <3>1, <3>2 DEF RequestOK, Working, Revealing
      <3>4. RequestsApart'
        BY <1>0, <3>1, ApartKept DEF RecordPc, Revealing
      <3> QED BY <3>1, <3>3, <3>4, Stays
    <2> QED BY <1>4, <2>1, <2>2 DEF Claim, Claims, ClaimedRow
  <1>5. ASSUME NEW s \in Slot, WriteContract(s)
        PROVE  Goal
    <2> DEFINE l == [req[s] EXCEPT !.pc = AfterSend(@), !.hash = Len(txs) + 1]
    <2>1. Sends(s) /\ Broadcast(s) /\ rows' = rows
      BY <1>5 DEF WriteContract, Broadcast, chainVars
    <2>2. /\ l \in Local /\ l.pc = AfterSend(req[s].pc)
          /\ l.client = req[s].client /\ l.externalId = req[s].externalId
          /\ l.id = req[s].id /\ l.hash = Len(txs) + 1
      BY <1>0, <2>1, SentTyped
    <2>3. Become(s, l)
      BY <1>5 DEF WriteContract
    <2> HIDE DEF l
    <2>4. CASE req[s].pc = "send" /\ l.pc \in {"wait", "update"}
      BY <1>3, <2>1, <2>2, <2>3, <2>4 DEF Working
    <2>5. CASE req[s].pc = "sendReveal" /\ l.pc \in {"waitReveal", "updateReveal"}
      <3>1. req'[s] = l /\ \A t \in Slot : t # s => req'[t] = req[t]
        BY <1>0, <2>2, <2>3, MoveTyped
      <3>2. RequestOK(s) /\ req[s].id \in Id
        BY <1>0, <2>5, Running
      <3>3. /\ txs'[l.hash] = Transaction(req[s])
            /\ l.hash \in 1 .. Len(txs')
        BY <1>0, <2>1, <2>2, BroadcastEffect DEF TypeOK
      <3>4. /\ Transaction(req[s]).kind = "reveal"
            /\ Transaction(req[s]).id = l.id
            /\ Transaction(req[s]).externalId = l.externalId
        BY <1>0, <2>1, <2>2, <2>5, TransactionTyped
      <3>5. \A h, i, e : h = l.hash /\ i = l.id /\ e = l.externalId =>
              RevealTx(h, i, e)'
        BY <3>3, <3>4 DEF RevealTx
      <3>6. RequestOK(s)'
        BY <1>0, <2>1, <2>2, <2>5, <3>1, <3>2, <3>5 DEF RequestOK, Working, Revealing
      <3>7. RequestsApart'
        BY <1>0, <2>2, <2>5, <3>1, ApartKept DEF RecordPc, Revealing
      <3> QED BY <3>1, <3>6, <3>7, Stays
    <2> QED BY <1>0, <2>1, <2>2, <2>4, <2>5, AfterSendIs
  <1>6. ASSUME NEW s \in Slot, Become(s, AfterError(req[s])), rows' = rows
        PROVE  Goal
    <2>1. CASE AfterError(req[s]) = Idle
      BY <1>2, <1>6, <2>1
    <2>2. CASE AfterError(req[s]) # Idle
      BY <1>0, <1>3, <1>6, <2>2, AfterErrorTyped DEF Working
    <2> QED BY <2>1, <2>2
  <1>7. ASSUME NEW s \in Slot, Receipt(s)
        PROVE  Goal
    <2>1. rows' = rows
      BY <1>7 DEF Receipt
    <2>2. CASE req[s].pc = "wait"
      <3>1. Goto(s, "update")
        BY <1>7, <2>2 DEF Receipt
      <3>2. \E l \in Local : /\ Become(s, l) /\ l.pc = "update"
                             /\ l.id = req[s].id /\ l.client = req[s].client
                             /\ l.externalId = req[s].externalId
        BY <1>0, <3>1, GotoMoved
      <3> QED BY <1>3, <2>1, <2>2, <3>2 DEF Working
    <2>3. CASE req[s].pc = "waitReveal"
      <3>1. /\ req'[s].pc = "updateReveal"
            /\ req'[s].client = req[s].client
            /\ req'[s].externalId = req[s].externalId
            /\ req'[s].id = req[s].id
            /\ req'[s].hash = req[s].hash
            /\ \A t \in Slot : t # s => req'[t] = req[t]
        BY <1>0, <1>7, <2>3, GotoMoved DEF Receipt
      <3>2. RequestOK(s) /\ req[s].id \in Id
        BY <1>0, <2>3, Running
      <3>3. \A h, i, e : h = req[s].hash /\ i = req[s].id /\ e = req[s].externalId =>
              RevealTx(h, i, e)'
        BY <1>0, <2>3, <3>2, RevealTxKept DEF RequestOK
      <3>4. RequestOK(s)'
        BY <1>0, <2>1, <2>3, <3>1, <3>2, <3>3 DEF RequestOK, Working, Revealing
      <3>5. RequestsApart'
        BY <1>0, <2>3, <3>1, ApartKept DEF RecordPc, Revealing
      <3> QED BY <3>1, <3>4, <3>5, Stays
    <2> QED BY <1>7, <2>2, <2>3 DEF Receipt
  <1>8. ASSUME NEW s \in Slot, UpdateRecorded(s)
        PROVE  Goal
    <2>1. /\ req'[s].pc = "audit" /\ req[s].pc = "update"
          /\ req'[s].client = req[s].client
          /\ req'[s].externalId = req[s].externalId
          /\ req'[s].id = req[s].id
          /\ \A t \in Slot : t # s => req'[t] = req[t]
      BY <1>0, <1>8, GotoMoved DEF UpdateRecorded
    <2>2. /\ RequestOK(s) /\ req[s].id \in Id /\ req[s].hash \in Hash \cup {None}
      BY <1>0, <2>1, Running DEF Local
    <2>3. /\ rows[req[s].id] # None
          /\ rows'[req[s].id] # None
          /\ rows'[req[s].id].client = rows[req[s].id].client
          /\ rows'[req[s].id].externalId = rows[req[s].id].externalId
      BY <1>0, <1>8, <2>1, <2>2, PatchEffect DEF UpdateRecorded, RequestOK, Working
    <2>4. RequestOK(s)'
      BY <1>0, <2>1, <2>2, <2>3 DEF RequestOK, Working, Revealing
    <2>5. RequestsApart'
      BY <1>0, <2>1, ApartKept DEF RecordPc, Revealing
    <2> QED BY <2>1, <2>4, <2>5, Stays
  <1>9. ASSUME NEW s \in Slot, RequireRecord(s)
        PROVE  Goal
    <2> DEFINE i == req[s].id
               l == [req[s] EXCEPT !.pc = "sendReveal", !.externalId = rows[i].externalId]
    <2>1. CASE Become(s, Idle)
      BY <1>2, <2>1
    <2>2. CASE ~Become(s, Idle)
      <3>1. /\ req[s].pc = "find" /\ Found(i, req[s].client)
            /\ Become(s, l) /\ i \in asked' /\ rows' = rows
        BY <1>9, <2>2 DEF RequireRecord, Found
      <3>2. RequestOK(s) /\ i \in Id /\ i <= recorded /\ rows[i] # None
        BY <1>0, <3>1, Running DEF Found
      <3>3. rows[i].externalId \in ExternalId
        BY <1>0, <3>2 DEF TypeOK, Row
      <3>4. /\ l \in Local /\ l.pc = "sendReveal" /\ l.client = req[s].client
            /\ l.id = i /\ l.externalId = rows[i].externalId
        BY <1>0, <3>3 DEF Local
      <3>5. req'[s] = l /\ \A t \in Slot : t # s => req'[t] = req[t]
        BY <1>0, <3>1, <3>4, MoveTyped
      <3> HIDE DEF l
      <3>6. RequestOK(s)'
        BY <1>0, <3>1, <3>2, <3>3, <3>4, <3>5, NullAssumption
           DEF RequestOK, Working, Revealing
      <3>7. ASSUME NEW t \in Slot, req[t].pc = "claim"
            PROVE  req[t].id # i
        BY <1>0, <3>2, <3>7 DEF RequestOK
      <3>8. RequestsApart'
        BY <1>0, <3>4, <3>5, <3>7 DEF RequestsApart, RecordPc, Revealing
      <3> QED BY <3>5, <3>6, <3>8, Stays
    <2> QED BY <2>1, <2>2
  <1>10. ASSUME NEW s \in Slot, StartRecord(s)
         PROVE  Goal
    <2>1. PICK c \in Client, e \in ExternalId :
            Become(s, [pc |-> "claim", client |-> c, externalId |-> e,
                       id |-> recorded + 1, hash |-> None])
      BY <1>10 DEF StartRecord
    <2> DEFINE l == [pc |-> "claim", client |-> c, externalId |-> e,
                     id |-> recorded + 1, hash |-> None]
    <2>2. /\ recorded + 1 \in Id /\ recorded' = recorded + 1 /\ rows' = rows
      BY <1>10, SettlementsAssumption DEF StartRecord, TypeOK, Id, IInv
    <2>3. l \in Local
      BY <2>2 DEF Local
    <2>4. /\ l.pc = "claim" /\ l.client = c /\ l.externalId = e /\ l.id = recorded + 1
      OBVIOUS
    <2>5. req'[s] = l /\ \A t \in Slot : t # s => req'[t] = req[t]
      BY <1>0, <2>1, <2>3, MoveTyped
    <2> HIDE DEF l
    <2>6. rows[recorded + 1] = None
      BY <1>0, <2>2 DEF RowOK
    <2>7. RequestOK(s)'
      BY <1>0, <2>2, <2>4, <2>5, <2>6, NullAssumption DEF RequestOK, Working, Revealing
    <2>8. ASSUME NEW t \in Slot, req[t].pc # "idle"
          PROVE  req[t].id # recorded + 1
      BY <1>0, <2>8, Running
    <2>9. RequestsApart'
      BY <1>0, <2>4, <2>5, <2>8 DEF RequestsApart, RecordPc, Revealing
    <2> QED BY <2>5, <2>7, <2>9, Stays
  <1>11. ASSUME NEW s \in Slot, StartReveal(s)
         PROVE  Goal
    <2>1. PICK c \in Client, i \in 1 .. recorded :
            Become(s, [Idle EXCEPT !.pc = "find", !.client = c, !.id = i])
      BY <1>11 DEF StartReveal
    <2> DEFINE l == [Idle EXCEPT !.pc = "find", !.client = c, !.id = i]
    <2>2. i \in Id /\ i <= recorded
      BY <1>0, SettlementsAssumption DEF TypeOK, Id
    <2>3. l \in Local /\ l.pc = "find" /\ l.client = c /\ l.id = i
      BY <2>2 DEF Idle, Local
    <2>4. req'[s] = l /\ \A t \in Slot : t # s => req'[t] = req[t]
      BY <1>0, <2>1, <2>3, MoveTyped
    <2> HIDE DEF l
    <2>5. RequestOK(s)'
      BY <1>0, <2>2, <2>3, <2>4, NullAssumption DEF RequestOK, Working, Revealing
    <2>6. RequestsApart'
      BY <1>0, <2>3, <2>4, ApartKept DEF RecordPc, Revealing
    <2> QED BY <2>4, <2>5, <2>6, Stays
  <1>12. ASSUME NEW s \in Slot,
                \/ GetExisting(s) \/ AuditRecorded(s) \/ Release(s)
                \/ UpdateRevealed(s) \/ Abort(s)
         PROVE  Become(s, Idle)
    BY <1>12 DEF GetExisting, AuditRecorded, Release, UpdateRevealed, Abort
  <1>13. ASSUME NEW s \in Slot,
                \/ WriteContractReverts(s) \/ WriteContractFails(s)
                \/ ReceiptFails(s) \/ RecordFails(s)
         PROVE  Become(s, AfterError(req[s])) /\ rows' = rows
    BY <1>13 DEF WriteContractReverts, WriteContractFails, ReceiptFails, RecordFails
  <1>14. ASSUME SetRegistrar \/ SetAuditor \/ \E h \in 1 .. Len(txs) : Mine(h)
         PROVE  Goal
    BY <1>1, <1>14 DEF SetRegistrar, SetAuditor, Mine
  <1>15. ASSUME UNCHANGED vars
         PROVE  Goal
    BY <1>1, <1>15 DEF vars
  <1> HIDE DEF Goal
  <1>16. ASSUME NEW s \in Slot, Steps(s)
         PROVE  Goal
    BY <1>2, <1>4, <1>5, <1>6, <1>7, <1>8, <1>9, <1>12, <1>13, <1>16 DEF Steps
  <1>17. ASSUME NEW s \in Slot,
                \/ StartRecord(s) \/ StartReveal(s) \/ WriteContractFails(s)
                \/ ReceiptFails(s) \/ RecordFails(s) \/ Abort(s)
         PROVE  Goal
    BY <1>2, <1>6, <1>10, <1>11, <1>12, <1>13, <1>17
  <1>18. Goal
    BY <1>14, <1>15, <1>16, <1>17 DEF Next
  <1> QED BY <1>18 DEF Goal

---------------------------------------------------------------------------
(* The theorems *)

\* The invariant holds before the first request.
LEMMA InitInv == Init => IInv
  <1> SUFFICES ASSUME Init
               PROVE  IInv
    OBVIOUS
  <1>1. TypeOK
    BY InitTyped
  <1>2. /\ auditor \/ revoked
        /\ DisclosedByOwner
        /\ \A h \in 1 .. Len(txs) : TxOK(txs[h])
    BY DEF Init, DisclosedByOwner
  <1>3. /\ RowsUnique
        /\ \A i \in Id : RowOK(i)
        /\ RequestsApart
    BY DEF Init, RowsUnique, RowOK, RequestsApart, RecordPc, Idle
  <1>4. \A s \in Slot : RequestOK(s)
    BY DEF Init, RequestOK, Idle, Working, Revealing
  <1> QED BY <1>1, <1>2, <1>3, <1>4 DEF IInv

\* Every step keeps it.
LEMMA StepInv == IInv /\ [Next]_vars => IInv'
  <1> SUFFICES ASSUME IInv, [Next]_vars
               PROVE  IInv'
    OBVIOUS
  <1>1. TypeOK'
    BY StepTyped DEF IInv
  <1> QED BY <1>1, ChainStep, RowsUniqueStep, RowsStep, RequestsStep DEF IInv

\* The service and the registry keep the inductive invariant.
THEOREM Invariance == Spec => []IInv
  BY InitInv, StepInv, PTL DEF Spec

\* The table, the registry, the pool and the locals keep their types.
THEOREM TypeCorrect == Spec => []TypeOK
  <1>1. IInv => TypeOK
    BY DEF IInv
  <1> QED BY <1>1, Invariance, PTL

\* createOrGetExisting is a lock: between its claim and its end a record request
\* is alone with its client's externalId, so the catch of record() deletes its
\* own row only.
THEOREM ClaimIsLock == Spec => []ClaimExclusive
  <1>1. IInv => ClaimExclusive
    <2> SUFFICES ASSUME IInv, NEW s \in Slot, NEW t \in Slot, s # t,
                        req[s].pc \in Working, req[t].pc \in Working,
                        req[s].client = req[t].client,
                        req[s].externalId = req[t].externalId
                 PROVE  FALSE
      BY DEF ClaimExclusive, Working
    <2>1. req[s].id # req[t].id
      BY DEF IInv, RequestsApart, RecordPc, Working
    <2>2. req[s].id \in Id /\ req[t].id \in Id
      BY Running DEF IInv, Working
    <2>3. req[s].id = req[t].id
      BY <2>2 DEF IInv, RequestOK, RowsUnique
    <2> QED BY <2>1, <2>3
  <1> QED BY <1>1, Invariance, PTL

\* The registry reveals a settlement only after its own client has asked.
THEOREM DisclosureAsked == Spec => []DisclosedByOwner
  <1>1. IInv => DisclosedByOwner
    BY DEF IInv
  <1> QED BY <1>1, Invariance, PTL

\* A row that reveal() has marked is attested on chain, or will be, unless the
\* auditor lost its role on the way.
THEOREM RevealIsAttested == Spec => []RevealedIsAttested
  <1>1. IInv => RevealedIsAttested
    <2> SUFFICES ASSUME IInv, NEW i \in Id, rows[i] # None,
                        rows[i].status = "revealed"
                 PROVE  \/ /\ records[rows[i].externalId].status = "revealed"
                           /\ records[rows[i].externalId].commitment = i
                        \/ txs[rows[i].revealTransactionHash].state = "pending"
                        \/ revoked
      BY DEF RevealedIsAttested
    <2> DEFINE t == txs[rows[i].revealTransactionHash]
    <2>1. /\ rows[i].revealTransactionHash \in 1 .. Len(txs)
          /\ t.kind = "reveal" /\ t.id = i /\ t.externalId = rows[i].externalId
      BY DEF IInv, RowOK, RevealTx
    <2>2. TxOK(t) /\ t \in Tx
      BY <2>1 DEF IInv, TypeOK
    <2> QED BY <2>1, <2>2 DEF TxOK, Tx
  <1> QED BY <1>1, Invariance, PTL

\* What recordSettlement has stored is never replaced, and what is revealed
\* stays revealed.
THEOREM RegistryIsFinal == Spec => CommitmentIsFinal
  <1> DEFINE Final == \A e \in ExternalId :
                /\ records[e].status # "none" =>
                     records'[e].commitment = records[e].commitment
                /\ records[e].status = "revealed" => records'[e].status = "revealed"
  <1>1. ASSUME IInv, [Next]_vars
        PROVE  Final
    <2>1. TypeOK
      BY <1>1 DEF IInv
    <2>2. CASE records' = records
      BY <2>2
    <2>3. ASSUME NEW h \in 1 .. Len(txs), Mine(h)
          PROVE  Final
      BY <2>1, <2>3, MineRecords
    <2>4. ASSUME NEW s \in Slot, Broadcast(s)
          PROVE  records' = records
      BY <2>4 DEF Broadcast
    <2>5. CASE SetAuditor
      BY <2>2, <2>5 DEF SetAuditor
    <2> HIDE DEF Final
    <2> QED BY <1>1, <2>1, <2>2, <2>3, <2>4, <2>5, ChainChange
  <1>2. IInv /\ [Next]_vars => [Final]_vars
    BY <1>1
  <1> QED BY <1>2, Invariance, PTL DEF Spec, CommitmentIsFinal

=============================================================================
