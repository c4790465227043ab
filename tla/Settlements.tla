---------------------------- MODULE Settlements ----------------------------
(***************************************************************************)
(* Confidential settlements: SettlementsService and its repository above   *)
(* the PrivateSettlementRegistry contract.  A request claims a row in the  *)
(* database, sends a commitment to the registry and notes the transaction; *)
(* on an error it gives the claim up.  The preimage of the commitment, with *)
(* its random nonce, is in the row and nowhere else.                       *)
(*                                                                         *)
(* Every SQL statement and every transaction is atomic, a request is not.  *)
(* The registry knows a settlement by its externalId, the database by its  *)
(* client and its externalId.                                              *)
(***************************************************************************)
EXTENDS Naturals, Sequences

CONSTANTS
  Client,          \* authenticated clients
  ExternalId,      \* values of dto.externalId
  None,            \* null
  Slot,            \* slots for requests that run at the same time
  WaitModes,       \* values of configuration.waitForReceipt to look at
  MaxRecords,      \* bound: record requests
  MaxReveals,      \* bound: reveal requests
  MaxErrors,       \* bound: errors of an RPC or SQL call, and crashes
  MaxRoleChanges   \* bound: changes of the registry's roles by its owner

ASSUME SettlementsAssumption ==
  /\ WaitModes \subseteq BOOLEAN
  /\ {MaxRecords, MaxReveals, MaxErrors, MaxRoleChanges} \subseteq Nat

VARIABLES
  waitForReceipt,
  rows,       \* the table avasettle_private_settlements
  records,    \* the contract's mapping of the same name
  registrar,  \* registrars[our registrar]
  auditor,    \* auditors[our auditor]
  txs,        \* the transactions sent, in their order; a hash is an index
  req,        \* local state of the running requests
  recorded,   \* number of record requests so far
  reveals,    \* number of reveal requests so far
  errors,
  changes,    \* number of role changes so far
  asked,      \* settlements whose own client has asked to reveal them
  abandoned,  \* rows whose request died before it could finish or undo them
  revoked     \* the auditor has lost its role at some time

vars == <<waitForReceipt, rows, records, registrar, auditor, txs, req, recorded,
          reveals, errors, changes, asked, abandoned, revoked>>

---------------------------------------------------------------------------
(* Types *)

\* The UUID of a row, and the nonce and so the preimage and the commitment
\* drawn together with it: all of them are fresh in every request.
Id == 1 .. MaxRecords

Hash == Nat \ {0}

\* PrivateSettlementStatus
Status == {"recorded", "revealed"}

Row == [client: Client, externalId: ExternalId, status: Status,
        transactionHash: Hash \cup {None},
        revealTransactionHash: Hash \cup {None}]

\* null is none of these.
ASSUME NullAssumption ==
  /\ None \notin Client
  /\ None \notin ExternalId
  /\ None \notin Nat
  /\ None \notin Status
  /\ None \notin Row

\* A settlementId is a hash of the externalId alone.
Record == [status: {"none", "recorded", "revealed"}, commitment: Id \cup {None}]

Tx == [kind: {"record", "reveal"}, externalId: ExternalId, id: Id,
       state: {"pending", "success", "reverted"}]

Local == [pc: {"idle", "claim", "existing", "send", "wait", "update", "audit",
               "release", "find", "sendReveal", "waitReveal", "updateReveal"},
          client: Client \cup {None}, externalId: ExternalId \cup {None},
          id: Id \cup {None}, hash: Hash \cup {None}]

Idle == [pc |-> "idle", client |-> None, externalId |-> None, id |-> None,
         hash |-> None]

TypeOK ==
  /\ waitForReceipt \in WaitModes
  /\ rows \in [Id -> Row \cup {None}]
  /\ records \in [ExternalId -> Record]
  /\ registrar \in BOOLEAN
  /\ auditor \in BOOLEAN
  /\ txs \in Seq(Tx)
  /\ req \in [Slot -> Local]
  /\ recorded \in 0 .. MaxRecords
  /\ reveals \in 0 .. MaxReveals
  /\ errors \in 0 .. MaxErrors
  /\ changes \in 0 .. MaxRoleChanges
  /\ asked \subseteq Id
  /\ abandoned \subseteq Id
  /\ revoked \in BOOLEAN

Init ==
  /\ waitForReceipt \in WaitModes
  /\ rows = [i \in Id |-> None]
  /\ records = [e \in ExternalId |-> [status |-> "none", commitment |-> None]]
  /\ registrar = TRUE
  /\ auditor = TRUE
  /\ txs = << >>
  /\ req = [s \in Slot |-> Idle]
  /\ recorded = 0
  /\ reveals = 0
  /\ errors = 0
  /\ changes = 0
  /\ asked = {}
  /\ abandoned = {}
  /\ revoked = FALSE

chainVars == <<records, registrar, auditor, changes, revoked>>
countVars == <<waitForReceipt, recorded, reveals>>
ghostVars == <<asked, abandoned>>

Become(s, l) == req' = [req EXCEPT ![s] = l]
Goto(s, pc) == Become(s, [req[s] EXCEPT !.pc = pc])
NoError == UNCHANGED errors
Error == errors < MaxErrors /\ errors' = errors + 1

---------------------------------------------------------------------------
(* The contract PrivateSettlementRegistry *)

\* recordSettlement does not revert: onlyRegistrar, and the id is new.
Recordable(e) == registrar /\ records[e].status = "none"

\* verifyCommitment; a commitment and its preimage are one value here.
VerifyKnown(e, i) == records[e].status # "none"
VerifyCommitment(e, i) == records[e].status # "none" /\ records[e].commitment = i

\* revealForAudit does not revert.  A second reveal does not either.
Revealable(e, i) == auditor /\ VerifyCommitment(e, i)

\* The call would not revert if it were mined now.
Succeeds(t) ==
  IF t.kind = "record" THEN Recordable(t.externalId)
  ELSE Revealable(t.externalId, t.id)

\* A pending transaction is mined.  The record transactions come from one
\* account and the reveals from another, and those of one account are mined
\* in the order of their nonces.
Mine(h) ==
  LET t == txs[h]
  IN
  /\ t.state = "pending"
  /\ \A g \in 1 .. h - 1 : txs[g].kind = t.kind => txs[g].state # "pending"
  /\ txs' = [txs EXCEPT ![h].state = IF Succeeds(t) THEN "success" ELSE "reverted"]
  /\ records' =
       IF ~Succeeds(t) THEN records
       ELSE IF t.kind = "record"
         THEN [records EXCEPT ![t.externalId] =
                 [status |-> "recorded", commitment |-> t.id]]
         ELSE [records EXCEPT ![t.externalId].status = "revealed"]
  /\ UNCHANGED <<rows, registrar, auditor, changes, revoked, req, errors>>
  /\ UNCHANGED <<countVars, ghostVars>>

SetRegistrar ==
  /\ changes < MaxRoleChanges
  /\ changes' = changes + 1
  /\ registrar' = ~registrar
  /\ UNCHANGED <<rows, records, auditor, txs, req, errors, revoked>>
  /\ UNCHANGED <<countVars, ghostVars>>

SetAuditor ==
  /\ changes < MaxRoleChanges
  /\ changes' = changes + 1
  /\ auditor' = ~auditor
  /\ revoked' = (revoked \/ auditor)
  /\ UNCHANGED <<rows, records, registrar, txs, req, errors>>
  /\ UNCHANGED <<countVars, ghostVars>>

---------------------------------------------------------------------------
(* blockchain.service: writeContract and toTransferExecution *)

\* What a request sends, and where it goes when that has worked.
Transaction(l) ==
  [kind |-> IF l.pc = "send" THEN "record" ELSE "reveal",
   externalId |-> l.externalId, id |-> l.id, state |-> "pending"]
AfterSend(pc) ==
  CASE pc = "send"       -> IF waitForReceipt THEN "wait" ELSE "update"
    [] pc = "sendReveal" -> IF waitForReceipt THEN "waitReveal" ELSE "updateReveal"

\* The catch of record() gives the claim up; reveal() has no catch.
AfterErrorKept(l) == Idle
AfterError(l) ==
  IF l.pc \in {"send", "wait", "update", "audit"}
    THEN [l EXCEPT !.pc = "release"]
    ELSE Idle

\* writeContract estimates the gas in the latest block, and throws when the
\* call would revert there.
EstimateSkipped(t) == TRUE
EstimateGas(t) == Succeeds(t)

Sends(s) == req[s].pc \in {"send", "sendReveal"}

\* The transaction is in the pool and its hash is known.
WriteContract(s) ==
  LET t == Transaction(req[s])
  IN
  /\ Sends(s)
  /\ EstimateGas(t)
  /\ txs' = Append(txs, t)
  /\ Become(s, [req[s] EXCEPT !.pc = AfterSend(@), !.hash = Len(txs) + 1])
  /\ NoError
  /\ UNCHANGED <<rows, chainVars, countVars, ghostVars>>

\* The estimate says that the call would revert.
WriteContractReverts(s) ==
  LET t == Transaction(req[s])
  IN
  /\ Sends(s)
  /\ ~EstimateGas(t)
  /\ Become(s, AfterError(req[s]))
  /\ NoError
  /\ UNCHANGED <<rows, chainVars, txs, countVars, ghostVars>>

\* The RPC node fails, before it has taken the transaction or after.
WriteContractFails(s) ==
  LET t == Transaction(req[s])
  IN
  /\ Sends(s)
  /\ Error
  /\ \/ UNCHANGED txs
     \/ /\ EstimateGas(t)
        /\ txs' = Append(txs, t)
  /\ Become(s, AfterError(req[s]))
  /\ UNCHANGED <<rows, chainVars, countVars, ghostVars>>

\* waitForTransactionReceipt: the receipt's status is not looked at by the
\* caller, a reverted transaction is no error.
Receipt(s) ==
  /\ req[s].pc \in {"wait", "waitReveal"}
  /\ txs[req[s].hash].state # "pending"
  /\ Goto(s, IF req[s].pc = "wait" THEN "update" ELSE "updateReveal")
  /\ NoError
  /\ UNCHANGED <<rows, chainVars, txs, countVars, ghostVars>>

\* It times out, or the node fails.
ReceiptFails(s) ==
  /\ req[s].pc \in {"wait", "waitReveal"}
  /\ Error
  /\ Become(s, AfterError(req[s]))
  /\ UNCHANGED <<rows, chainVars, txs, countVars, ghostVars>>

---------------------------------------------------------------------------
(* SettlementsService.record *)

StartRecord(s) ==
  /\ req[s].pc = "idle"
  /\ recorded < MaxRecords
  /\ recorded' = recorded + 1
  /\ \E c \in Client, e \in ExternalId :
       Become(s, [pc |-> "claim", client |-> c, externalId |-> e,
                  id |-> recorded + 1, hash |-> None])
  /\ UNCHANGED <<waitForReceipt, rows, chainVars, txs, reveals, errors, ghostVars>>

\* The rows that the INSERT conflicts with.
ConflictsNever(c, e) == {}
Conflicts(c, e) ==
  {i \in Id : rows[i] # None /\ rows[i].client = c /\ rows[i].externalId = e}

\* createOrGetExisting: INSERT ... ON CONFLICT (client_id, external_id) DO
\* NOTHING, before the chain is touched.
Claim(s) ==
  LET l == req[s]
  IN
  /\ l.pc = "claim"
  /\ IF Conflicts(l.client, l.externalId) # {}
       THEN /\ Goto(s, "existing")
            /\ UNCHANGED rows
       ELSE /\ rows' = [rows EXCEPT ![l.id] =
                 [client |-> l.client, externalId |-> l.externalId,
                  status |-> "recorded", transactionHash |-> None,
                  revealTransactionHash |-> None]]
            /\ Goto(s, "send")
  /\ NoError
  /\ UNCHANGED <<chainVars, txs, countVars, ghostVars>>

\* The SELECT of the row that was in the way: the answer is that row.  When
\* its request has given it up meanwhile, rowToRecord(undefined) throws.
\* Either way the request is over.
GetExisting(s) ==
  /\ req[s].pc = "existing"
  /\ Become(s, Idle)
  /\ NoError
  /\ UNCHANGED <<rows, chainVars, txs, countVars, ghostVars>>

\* SettlementsRepository.update: COALESCE keeps what the patch leaves out.
Coalesce(new, old) == IF new = None THEN old ELSE new
Patch(i, status, hash, revealHash) ==
  rows' = IF rows[i] = None THEN rows
          ELSE [rows EXCEPT
                  ![i].status = Coalesce(status, @),
                  ![i].transactionHash = IF hash = None THEN @ ELSE hash,
                  ![i].revealTransactionHash =
                    IF revealHash = None THEN @ ELSE revealHash]

UpdateRecorded(s) ==
  /\ req[s].pc = "update"
  /\ Patch(req[s].id, None, req[s].hash, None)
  /\ Goto(s, "audit")
  /\ NoError
  /\ UNCHANGED <<chainVars, txs, countVars, ghostVars>>

\* audit.record, and the answer.
AuditRecorded(s) ==
  /\ req[s].pc = "audit"
  /\ Become(s, Idle)
  /\ NoError
  /\ UNCHANGED <<rows, chainVars, txs, countVars, ghostVars>>

\* Either statement fails.
RecordFails(s) ==
  /\ req[s].pc \in {"update", "audit"}
  /\ Error
  /\ Become(s, AfterError(req[s]))
  /\ UNCHANGED <<rows, chainVars, txs, countVars, ghostVars>>

\* The catch: repository.delete, then the error.
Release(s) ==
  /\ req[s].pc = "release"
  /\ rows' = [rows EXCEPT ![req[s].id] = None]
  /\ Become(s, Idle)
  /\ NoError
  /\ UNCHANGED <<chainVars, txs, countVars, ghostVars>>

---------------------------------------------------------------------------
(* SettlementsService.reveal *)

StartReveal(s) ==
  /\ req[s].pc = "idle"
  /\ reveals < MaxReveals
  /\ reveals' = reveals + 1
  /\ \E c \in Client, i \in 1 .. recorded :
       Become(s, [Idle EXCEPT !.pc = "find", !.client = c, !.id = i])
  /\ UNCHANGED <<waitForReceipt, rows, chainVars, txs, recorded, errors, ghostVars>>

\* findById: a client finds its own settlements only.
Found(i, c) == rows[i] # None /\ rows[i].client = c

\* requireRecord, and the early answer for what was revealed before.
RequireRecord(s) ==
  LET l == req[s]
  IN
  /\ l.pc = "find"
  /\ IF Found(l.id, l.client)
       THEN /\ asked' = IF rows[l.id].client = l.client
                          THEN asked \cup {l.id} ELSE asked
            /\ Become(s, IF rows[l.id].status = "revealed" THEN Idle
                         ELSE [l EXCEPT !.pc = "sendReveal",
                                        !.externalId = rows[l.id].externalId])
       ELSE Become(s, Idle) /\ UNCHANGED asked
  /\ NoError
  /\ UNCHANGED <<rows, chainVars, txs, countVars, abandoned>>

\* The UPDATE, and the audit record, whose error changes nothing any more.
UpdateRevealed(s) ==
  /\ req[s].pc = "updateReveal"
  /\ Patch(req[s].id, "revealed", None, req[s].hash)
  /\ Become(s, Idle)
  /\ NoError
  /\ UNCHANGED <<chainVars, txs, countVars, ghostVars>>

---------------------------------------------------------------------------
(* A process dies, or one of its SQL statements fails outside of the try;  *)
(* this includes the DELETE of the catch.                                  *)

Abort(s) ==
  /\ req[s].pc # "idle"
  /\ Error
  /\ Become(s, Idle)
  /\ abandoned' = IF req[s].pc \in {"send", "wait", "update", "audit", "release"}
                    THEN abandoned \cup {req[s].id} ELSE abandoned
  /\ UNCHANGED <<rows, chainVars, txs, countVars, asked>>

---------------------------------------------------------------------------
(* The specification *)

Steps(s) ==
  \/ Claim(s)
  \/ GetExisting(s)
  \/ WriteContract(s)
  \/ WriteContractReverts(s)
  \/ Receipt(s)
  \/ UpdateRecorded(s)
  \/ AuditRecorded(s)
  \/ Release(s)
  \/ RequireRecord(s)
  \/ UpdateRevealed(s)

Next ==
  \/ \E s \in Slot : Steps(s)
  \/ \E s \in Slot :
       \/ StartRecord(s)
       \/ StartReveal(s)
       \/ WriteContractFails(s)
       \/ ReceiptFails(s)
       \/ RecordFails(s)
       \/ Abort(s)
  \/ \E h \in 1 .. Len(txs) : Mine(h)
  \/ SetRegistrar
  \/ SetAuditor

Spec == Init /\ [][Next]_vars

\* A request that runs goes on, and the chain mines what is in its pool.
FairSpec ==
  /\ Spec
  /\ \A s \in Slot : WF_vars(Steps(s))
  /\ WF_vars(\E h \in 1 .. Len(txs) : Mine(h))

---------------------------------------------------------------------------
(* Properties *)

\* "Claim (client, externalId) before touching the chain, so concurrent
\* requests can't double-record": of the requests of a client for one
\* externalId, at most one is between the claim and its end, so that no
\* request deletes the row another one is working on.
ClaimExclusive ==
  \A s, t \in Slot :
    /\ s # t
    /\ {req[s].pc, req[t].pc} \subseteq {"send", "wait", "update", "audit", "release"}
    => req[s].client # req[t].client \/ req[s].externalId # req[t].externalId

\* A settlement is attested on chain only after its own client has asked for
\* that, although two clients with the same externalId have one settlementId,
\* and one of them may be refused by the registry and still hold a row.
DisclosedByOwner ==
  \A e \in ExternalId :
    records[e].status = "revealed" => records[e].commitment \in asked

\* A row says revealed only when the attestation is on chain, or is still
\* pending, or the auditor lost its role while the transaction was on its
\* way; the receipt's status is never looked at.
RevealedIsAttested ==
  \A i \in Id :
    rows[i] # None /\ rows[i].status = "revealed" =>
      \/ /\ records[rows[i].externalId].status = "revealed"
         /\ records[rows[i].externalId].commitment = i
      \/ txs[rows[i].revealTransactionHash].state = "pending"
      \/ revoked

\* What the registry holds is final: a commitment is never replaced, not by the
\* retry of an attempt that is still in the pool nor by another client's settlement
\* of the same externalId, and a revealed record stays revealed.
CommitmentIsFinal ==
  [][\A e \in ExternalId :
       /\ records[e].status # "none" =>
            records'[e].commitment = records[e].commitment
       /\ records[e].status = "revealed" => records'[e].status = "revealed"
    ]_vars

\* A claim does not last without a transaction: either the hash is noted or
\* the row is given up, so that the externalId can be tried again, whichever
\* call fails.  Only a process that dies leaves a claim behind.
ClaimResolved ==
  \A i \in Id :
    rows[i] # None /\ rows[i].transactionHash = None
      ~> \/ rows[i] = None
         \/ rows[i] # None /\ rows[i].transactionHash # None
         \/ i \in abandoned

---------------------------------------------------------------------------
(* What the docs say, and the code does not keep *)

\* "the preimage stays in AvaSettle so it can be revealed to an auditor later"
\* (settlements.controller.ts): a commitment on chain
\* has its row.
PreimageKept ==
  \A e \in ExternalId :
    records[e].status # "none" => rows[records[e].commitment] # None

=============================================================================
