------------------------- MODULE PayInCreateProofs -------------------------
(***************************************************************************)
(* Proofs about PayInCreate: whatever the interleaving of the requests, no *)
(* two pay-ins share an index, a client is answered with its own pay-ins,  *)
(* retries are answered alike, and a stored idempotency key is final.      *)
(***************************************************************************)
EXTENDS PayInCreate, TLAPS

---------------------------------------------------------------------------
(* The inductive invariant *)

\* The client has asked for the externalId with the key.
AskedWith(c, k, x) ==
  \E b \in asked : b.client = c /\ b.key = k /\ b.externalId = x

\* The row is one that the request may be answered with: the client's own, and
\* for the externalId of the request or another one it used the key for.
Fits(in, id) ==
  /\ payins[id] # None
  /\ payins[id].client = in.client
  /\ \/ payins[id].externalId = in.externalId
     \/ in.key # None /\ AskedWith(in.client, in.key, payins[id].externalId)

\* The unique index on (client_id, external_id).
RowsUnique ==
  \A i, j \in Id :
    /\ payins[i] # None
    /\ payins[j] # None
    /\ payins[i].client = payins[j].client
    /\ payins[i].externalId = payins[j].externalId
    => i = j

\* The counter is above every index that was handed out.
IndexesBelow ==
  /\ \A i \in Id : payins[i] # None /\ payins[i].index # None
                     => payins[i].index < counter
  /\ \A s \in Slot : req[s].index # None => req[s].index < counter

\* No index is handed out twice.
IndexesHeldOnce ==
  \A s, t \in Slot :
    s # t /\ req[s].pc = "insert" /\ req[t].pc = "insert" /\ req[s].index # None
    => req[s].index # req[t].index

\* The row is one of the client's, for an externalId it asked for with the key.
Holds(c, k, id) ==
  /\ payins[id] # None
  /\ payins[id].client = c
  /\ AskedWith(c, k, payins[id].externalId)

\* What is under a key is a row of the client who asked with the key.
KeysOK ==
  \A c \in Client, k \in Key :
    keys[<<c, k>>] # None => Holds(c, k, keys[<<c, k>>])

\* What a running request knows.
RequestOK(s) ==
  /\ req[s].pc # "idle" => req[s].in \in asked
  /\ req[s].pc \in {"findKey", "findById", "store"} => req[s].in.key # None
  /\ req[s].pc \in {"findKey", "findById"} => req[s].index = None
  /\ req[s].pc \in {"findById", "store"} =>
       req[s].id # None /\ Fits(req[s].in, req[s].id)
  /\ req[s].pc = "store" => payins[req[s].id].externalId = req[s].in.externalId

AnswersOK == \A a \in answers : Fits(a.in, a.id)

IInv ==
  /\ TypeOK
  /\ RowsUnique
  /\ IndexesBelow
  /\ IndexesHeldOnce
  /\ AddressesDistinct
  /\ KeysOK
  /\ \A s \in Slot : RequestOK(s)
  /\ AnswersOK

---------------------------------------------------------------------------
(* Types *)

\* An idle slot is a slot.
LEMMA IdleTyped == Idle \in Local
  BY DEF Idle, Local

\* The tables start empty.
LEMMA InitTyped == Init => TypeOK
  BY IdleTyped, CreateAssumption DEF Init, TypeOK

\* A running request has its input, and a place to go to.
LEMMA Running ==
  ASSUME TypeOK, NEW s \in Slot, RequestOK(s), req[s].pc # "idle"
  PROVE  /\ req[s] \in Local
         /\ req[s].in \in Request
         /\ req[s].in \in asked
         /\ AfterKeys(req[s].in) \in {"insert", "index"}
  BY DEF TypeOK, RequestOK, AfterKeys

\* A key of the table, when the request has one.
LEMMA KeyTyped ==
  ASSUME NEW in \in Request, in.key # None
  PROVE  /\ in.client \in Client
         /\ in.key \in Key
         /\ Namespaced(in) = <<in.client, in.key>>
         /\ Namespaced(in) \in NamespacedKey
  BY DEF Request, Namespaced, NamespacedKey

\* An answer is an answer.
LEMMA RespondTyped ==
  ASSUME TypeOK, NEW s \in Slot, req[s].in \in Request, NEW id \in Id,
         Respond(s, id)
  PROVE  /\ answers' \in SUBSET [in: Request, id: Id]
         /\ req' \in [Slot -> Local]
  BY IdleTyped DEF Respond, Become, TypeOK

\* Each SQL statement of createPayIn keeps the types, given that a running
\* request has its input and what it read before.
LEMMA StepTyped ==
  TypeOK /\ (\A s \in Slot : RequestOK(s)) /\ [Next]_vars => TypeOK'
  <1> SUFFICES ASSUME TypeOK, \A s \in Slot : RequestOK(s), [Next]_vars
               PROVE  TypeOK'
    OBVIOUS
  <1>1. ASSUME NEW s \in Slot, Start(s)
        PROVE  TypeOK'
    <2>1. PICK in \in Request :
            /\ asked' = asked \cup {in}
            /\ Become(s, [Idle EXCEPT !.in = in,
                            !.pc = IF in.key = None THEN AfterKeys(in) ELSE "findKey"])
      BY <1>1 DEF Start
    <2>2. [Idle EXCEPT !.in = in,
             !.pc = IF in.key = None THEN AfterKeys(in) ELSE "findKey"] \in Local
      BY DEF Idle, Local, AfterKeys
    <2> QED BY <1>1, <2>1, <2>2, CreateAssumption DEF Start, TypeOK, Become
  <1>2. ASSUME NEW s \in Slot, FindKey(s)
        PROVE  TypeOK'
    <2> DEFINE id == keys[Namespaced(req[s].in)]
    <2>1. req[s].pc = "findKey" /\ RequestOK(s)
      BY <1>2 DEF FindKey
    <2>2. id \in Id \cup {None}
      BY <2>1, Running, KeyTyped DEF TypeOK, RequestOK
    <2>3. /\ [req[s] EXCEPT !.pc = AfterKeys(req[s].in)] \in Local
          /\ [req[s] EXCEPT !.pc = "findById", !.id = id] \in Local
      BY <2>1, <2>2, Running DEF Local
    <2> QED BY <1>2, <2>3 DEF FindKey, Become, TypeOK
  <1>3. ASSUME NEW s \in Slot, FindById(s)
        PROVE  TypeOK'
    <2>1. req[s].pc = "findById" /\ RequestOK(s)
      BY <1>3 DEF FindById
    <2>2. req[s].id \in Id
      BY <2>1 DEF RequestOK, TypeOK, Local
    <2>3. [req[s] EXCEPT !.pc = AfterKeys(req[s].in)] \in Local
      BY <2>1, Running DEF Local
    <2>4. /\ answers' \in SUBSET [in: Request, id: Id]
          /\ req' \in [Slot -> Local]
      <3>1. CASE payins[req[s].id] = None
        BY <1>3, <2>3, <3>1 DEF FindById, Become, TypeOK
      <3>2. CASE payins[req[s].id] # None
        BY <1>3, <2>1, <2>2, <3>2, Running, RespondTyped DEF FindById
      <3> QED BY <3>1, <3>2
    <2> QED BY <1>3, <2>4 DEF FindById, TypeOK
  <1>4. ASSUME NEW s \in Slot, ClaimNextPayInIndex(s)
        PROVE  TypeOK'
    <2>1. [req[s] EXCEPT !.pc = "insert", !.index = counter] \in Local
      BY DEF TypeOK, Local
    <2> QED BY <1>4, <2>1 DEF ClaimNextPayInIndex, Claimed, Become, TypeOK
  <1>5. ASSUME NEW s \in Slot, CreateOrGetExisting(s)
        PROVE  TypeOK'
    <2>1. req[s].pc = "insert" /\ RequestOK(s)
      BY <1>5 DEF CreateOrGetExisting
    <2>2. req[s] \in Local /\ req[s].in \in Request
      BY <2>1, Running
    <2>3. CASE Conflicts(req[s].in) # {}
      <3>1. [req[s] EXCEPT !.pc = "existing"] \in Local
        BY <2>2 DEF Local
      <3> QED BY <1>5, <2>3, <3>1 DEF CreateOrGetExisting, Become, TypeOK
    <2>4. CASE Conflicts(req[s].in) = {}
      <3>1. PICK id \in {i \in Id : payins[i] = None} :
              /\ payins' = [payins EXCEPT ![id] =
                   [client |-> req[s].in.client, externalId |-> req[s].in.externalId,
                    mode |-> req[s].in.mode, index |-> req[s].index]]
              /\ IF req[s].in.key = None
                   THEN Respond(s, id)
                   ELSE /\ Become(s, [req[s] EXCEPT !.pc = "store", !.id = id])
                        /\ UNCHANGED answers
        BY <1>5, <2>4 DEF CreateOrGetExisting
      <3>2. [client |-> req[s].in.client, externalId |-> req[s].in.externalId,
             mode |-> req[s].in.mode, index |-> req[s].index] \in Row
        BY <2>2 DEF Request, Row, Local
      <3>3. payins' \in [Id -> Row \cup {None}]
        BY <3>1, <3>2 DEF TypeOK
      <3>4. [req[s] EXCEPT !.pc = "store", !.id = id] \in Local
        BY <2>2 DEF Local
      <3>5. /\ answers' \in SUBSET [in: Request, id: Id]
            /\ req' \in [Slot -> Local]
        <4>1. CASE req[s].in.key = None
          BY <2>2, <3>1, <4>1, RespondTyped
        <4>2. CASE req[s].in.key # None
          BY <3>1, <3>4, <4>2 DEF Become, TypeOK
        <4> QED BY <4>1, <4>2
      <3> QED BY <1>5, <3>3, <3>5 DEF CreateOrGetExisting, TypeOK
    <2> QED BY <2>3, <2>4
  <1>6. ASSUME NEW s \in Slot, FindByExternalId(s)
        PROVE  TypeOK'
    <2>1. req[s].pc = "existing" /\ RequestOK(s)
      BY <1>6 DEF FindByExternalId
    <2>2. PICK id \in Conflicts(req[s].in) : Respond(s, id)
      BY <1>6 DEF FindByExternalId
    <2>3. id \in Id
      BY DEF Conflicts
    <2>4. /\ answers' \in SUBSET [in: Request, id: Id]
          /\ req' \in [Slot -> Local]
      BY <2>1, <2>2, <2>3, Running, RespondTyped
    <2> QED BY <1>6, <2>4 DEF FindByExternalId, TypeOK
  <1>7. ASSUME NEW s \in Slot, StoreIdempotencyKey(s)
        PROVE  TypeOK'
    <2>1. req[s].pc = "store" /\ RequestOK(s)
      BY <1>7 DEF StoreIdempotencyKey
    <2>2. req[s].id \in Id
      BY <2>1 DEF RequestOK, TypeOK, Local
    <2>3. /\ answers' \in SUBSET [in: Request, id: Id]
          /\ req' \in [Slot -> Local]
      BY <1>7, <2>1, <2>2, Running, RespondTyped DEF StoreIdempotencyKey
    <2>4. keys' \in [NamespacedKey -> Id \cup {None}]
      BY <1>7, <2>2 DEF StoreIdempotencyKey, KeyAfterStore, TypeOK
    <2> QED BY <1>7, <2>3, <2>4 DEF StoreIdempotencyKey, TypeOK
  <1>8. ASSUME NEW s \in Slot, Abort(s)
        PROVE  TypeOK'
    BY <1>8, IdleTyped, CreateAssumption DEF Abort, Become, TypeOK
  <1>9. CASE UNCHANGED vars
    BY <1>9 DEF vars, TypeOK
  <1> QED BY <1>1, <1>2, <1>3, <1>4, <1>5, <1>6, <1>7, <1>8, <1>9 DEF Next

---------------------------------------------------------------------------
(* What a step can change *)

\* The row that a request inserts.
NewRow(s) ==
  [client |-> req[s].in.client, externalId |-> req[s].in.externalId,
   mode |-> req[s].in.mode, index |-> req[s].index]

\* The INSERT of a request that nothing conflicts with.
Inserts(s, id) ==
  /\ req[s].pc = "insert"
  /\ Conflicts(req[s].in) = {}
  /\ payins[id] = None
  /\ payins' = [payins EXCEPT ![id] = NewRow(s)]
  /\ UNCHANGED <<keys, counter, asked>>
  /\ IF req[s].in.key = None
       THEN Respond(s, id)
       ELSE /\ Become(s, [req[s] EXCEPT !.pc = "store", !.id = id])
            /\ UNCHANGED answers

\* Rows are inserted and never changed, requests are never forgotten.
Keeps ==
  /\ \A i \in Id : payins[i] # None => payins'[i] = payins[i]
  /\ asked \subseteq asked'

\* createOrGetExisting is the only statement that writes to the table of
\* pay-ins, and either inserts or finds a conflict.
LEMMA InsertOrConflict ==
  ASSUME NEW s \in Slot, CreateOrGetExisting(s)
  PROVE  \/ /\ payins' = payins
            /\ Become(s, [req[s] EXCEPT !.pc = "existing"])
            /\ UNCHANGED <<keys, counter, asked, answers>>
         \/ \E id \in Id : Inserts(s, id)
  BY DEF CreateOrGetExisting, Inserts, NewRow

\* A step of a request leaves the table of pay-ins alone or is an INSERT.
LEMMA RowsChange ==
  ASSUME [Next]_vars
  PROVE  payins' = payins \/ \E s \in Slot, id \in Id : Inserts(s, id)
  <1>1. ASSUME NEW s \in Slot, CreateOrGetExisting(s)
        PROVE  payins' = payins \/ \E t \in Slot, id \in Id : Inserts(t, id)
    BY <1>1, InsertOrConflict
  <1>2. ASSUME NEW s \in Slot,
               \/ Start(s) \/ FindKey(s) \/ FindById(s) \/ ClaimNextPayInIndex(s)
               \/ FindByExternalId(s) \/ StoreIdempotencyKey(s) \/ Abort(s)
        PROVE  payins' = payins
    BY <1>2 DEF Start, FindKey, FindById, ClaimNextPayInIndex, FindByExternalId,
                StoreIdempotencyKey, Abort
  <1>3. CASE UNCHANGED vars
    BY <1>3 DEF vars
  <1> QED BY <1>1, <1>2, <1>3 DEF Next

\* What an INSERT leaves in the table.
LEMMA RowInserted ==
  ASSUME IInv, NEW s \in Slot, NEW id \in Id, Inserts(s, id)
  PROVE  /\ payins'[id] = NewRow(s)
         /\ \A k \in Id : k # id => payins'[k] = payins[k]
         /\ NewRow(s) \in Row
         /\ NewRow(s) # None
         /\ req[s].in \in Request
  <1>1. req[s] \in Local /\ req[s].in \in Request
    BY Running DEF Inserts, IInv
  <1>2. NewRow(s) \in Row
    BY <1>1 DEF NewRow, Row, Request, Local
  <1> QED BY <1>1, <1>2, NullAssumption DEF Inserts, IInv, TypeOK

\* No step changes or deletes a row.
LEMMA StepKeeps ==
  ASSUME TypeOK, [Next]_vars
  PROVE  Keeps
  <1>1. asked \subseteq asked'
    BY DEF Next, Start, FindKey, FindById, ClaimNextPayInIndex, FindByExternalId,
           StoreIdempotencyKey, Abort, CreateOrGetExisting, vars
  <1>2. \A i \in Id : payins[i] # None => payins'[i] = payins[i]
    BY RowsChange DEF Inserts, TypeOK
  <1> QED BY <1>1, <1>2 DEF Keeps

\* What fits a request goes on fitting it.
LEMMA FitsKept ==
  ASSUME Keeps, NEW in, NEW id \in Id, Fits(in, id)
  PROVE  Fits(in, id)' /\ payins'[id] = payins[id]
  BY DEF Keeps, Fits, AskedWith

\* A key that is held goes on being held.
LEMMA HoldsKept ==
  ASSUME Keeps, NEW c, NEW k, NEW id \in Id, Holds(c, k, id)
  PROVE  Holds(c, k, id)'
  BY DEF Keeps, Holds, AskedWith

\* The slot of an INSERT does not hold its index any longer.
LEMMA InsertMoves ==
  ASSUME TypeOK, NEW s \in Slot, NEW id \in Id, Inserts(s, id)
  PROVE  /\ \/ req'[s].index = req[s].index /\ req'[s].pc # "insert"
            \/ req'[s].index = None /\ req'[s].pc # "insert"
         /\ \A t \in Slot : t # s => req'[t] = req[t]
         /\ counter' = counter
  <1>1. CASE req[s].in.key = None
    <2>1. req' = [req EXCEPT ![s] = Idle]
      BY <1>1 DEF Inserts, Respond, Become
    <2> QED BY <2>1 DEF Idle, TypeOK, Inserts
  <1>2. CASE req[s].in.key # None
    <2>1. req' = [req EXCEPT ![s] = [req[s] EXCEPT !.pc = "store", !.id = id]]
      BY <1>2 DEF Inserts, Become
    <2>2. req[s] \in Local
      BY DEF TypeOK
    <2>3. /\ [req[s] EXCEPT !.pc = "store", !.id = id].index = req[s].index
          /\ [req[s] EXCEPT !.pc = "store", !.id = id].pc = "store"
      BY <2>2 DEF Local
    <2> QED BY <2>1, <2>3 DEF TypeOK, Inserts
  <1> QED BY <1>1, <1>2

---------------------------------------------------------------------------
(* The invariant, part by part *)

\* The INSERT keeps the unique index.
LEMMA RowsUniqueStep ==
  ASSUME TypeOK, RowsUnique, [Next]_vars
  PROVE  RowsUnique'
  <1>1. CASE payins' = payins
    BY <1>1 DEF RowsUnique
  <1>2. ASSUME NEW s \in Slot, NEW id \in Id, Inserts(s, id)
        PROVE  RowsUnique'
    <2> SUFFICES ASSUME NEW i \in Id, NEW j \in Id,
                        payins'[i] # None, payins'[j] # None,
                        payins'[i].client = payins'[j].client,
                        payins'[i].externalId = payins'[j].externalId
                 PROVE  i = j
      BY DEF RowsUnique
    <2>1. /\ payins'[id] = NewRow(s)
          /\ \A k \in Id : k # id => payins'[k] = payins[k]
      BY <1>2 DEF Inserts, TypeOK
    <2>2. /\ NewRow(s).client = req[s].in.client
          /\ NewRow(s).externalId = req[s].in.externalId
      BY DEF NewRow
    <2>3. \A k \in Id : ~(/\ payins[k] # None
                          /\ payins[k].client = req[s].in.client
                          /\ payins[k].externalId = req[s].in.externalId)
      BY <1>2 DEF Inserts, Conflicts
    <2> QED BY <2>1, <2>2, <2>3 DEF RowsUnique
  <1> QED BY <1>1, <1>2, RowsChange

\* How a step may move a slot, as far as indexes are concerned: it keeps its
\* index and does not arrive at the INSERT with it, or comes with none, or
\* claims the value of the counter.
IndexMove(s) ==
  \/ req'[s] = req[s]
  \/ req'[s].index = req[s].index /\ req'[s].pc # "insert"
  \/ req'[s].index = None
  \/ /\ req'[s].index = counter
     /\ counter' = counter + 1
     /\ \A t \in Slot : t # s => req'[t] = req[t]
     /\ payins' = payins

\* Indexes come from the counter only, which moves on with each of them.
LEMMA IndexMoves ==
  ASSUME TypeOK, \A s \in Slot : RequestOK(s), [Next]_vars
  PROVE  /\ \A s \in Slot : IndexMove(s)
         /\ counter' \in {counter, counter + 1}
  <1>1. ASSUME NEW s \in Slot,
               \/ Start(s) \/ FindKey(s) \/ FindById(s)
               \/ FindByExternalId(s) \/ StoreIdempotencyKey(s) \/ Abort(s)
        PROVE  /\ \A t \in Slot : IndexMove(t)
               /\ counter' = counter
    <2>1. req'[s].index = None
      <3> USE DEF TypeOK, Local, Become
      <3>1. CASE Start(s)
        BY <3>1 DEF Start, Idle
      <3>2. CASE FindKey(s)
        BY <3>2 DEF FindKey, RequestOK
      <3>3. CASE FindById(s)
        BY <3>3 DEF FindById, RequestOK, Respond, Idle
      <3>4. CASE FindByExternalId(s) \/ StoreIdempotencyKey(s) \/ Abort(s)
        BY <3>4 DEF FindByExternalId, StoreIdempotencyKey, Abort, Respond, Idle
      <3> QED BY <1>1, <3>1, <3>2, <3>3, <3>4
    <2>2. \A t \in Slot : t # s => req'[t] = req[t]
      BY <1>1 DEF Start, FindKey, FindById, FindByExternalId, StoreIdempotencyKey,
                  Abort, Respond, Become, TypeOK
    <2>3. counter' = counter
      BY <1>1 DEF Start, FindKey, FindById, FindByExternalId, StoreIdempotencyKey,
                  Abort
    <2> QED BY <2>1, <2>2, <2>3 DEF IndexMove
  <1>2. ASSUME NEW s \in Slot, ClaimNextPayInIndex(s)
        PROVE  /\ \A t \in Slot : IndexMove(t)
               /\ counter' = counter + 1
    <2>1. req'[s].index = counter
      BY <1>2 DEF ClaimNextPayInIndex, Become, TypeOK, Local
    <2>2. \A t \in Slot : t # s => req'[t] = req[t]
      BY <1>2 DEF ClaimNextPayInIndex, Become, TypeOK
    <2> QED BY <1>2, <2>1, <2>2 DEF IndexMove, ClaimNextPayInIndex, Claimed
  <1>3. ASSUME NEW s \in Slot, CreateOrGetExisting(s)
        PROVE  /\ \A t \in Slot : IndexMove(t)
               /\ counter' = counter
    <2>1. /\ \/ req'[s].index = req[s].index /\ req'[s].pc # "insert"
             \/ req'[s].index = None
          /\ \A t \in Slot : t # s => req'[t] = req[t]
          /\ counter' = counter
      <3> USE DEF Become, TypeOK, Local
      <3>1. CASE /\ Become(s, [req[s] EXCEPT !.pc = "existing"])
                 /\ counter' = counter
        BY <3>1
      <3>2. ASSUME NEW id \in Id, Inserts(s, id)
            PROVE  /\ \/ req'[s].index = req[s].index /\ req'[s].pc # "insert"
                      \/ req'[s].index = None
                   /\ \A t \in Slot : t # s => req'[t] = req[t]
                   /\ counter' = counter
        BY <3>2, InsertMoves
      <3> QED BY <1>3, <3>1, <3>2, InsertOrConflict
    <2> QED BY <2>1 DEF IndexMove
  <1>4. CASE UNCHANGED vars
    BY <1>4 DEF vars, IndexMove
  <1> QED BY <1>1, <1>2, <1>3, <1>4 DEF Next

\* The counter stays above what it has handed out, and hands nothing out twice.
LEMMA IndexStep ==
  ASSUME IInv, [Next]_vars
  PROVE  IndexesBelow' /\ IndexesHeldOnce' /\ AddressesDistinct'
  <1>1. /\ \A s \in Slot : IndexMove(s)
        /\ counter' \in {counter, counter + 1}
    BY IndexMoves DEF IInv
  <1>2. /\ counter \in Nat
        /\ \A s \in Slot : req[s].index \in Nat \cup {None}
        /\ \A i \in Id : payins[i] # None => payins[i].index \in Nat \cup {None}
    BY DEF IInv, TypeOK, Local, Row
  <1>3. \A s \in Slot : req'[s].index # None => req'[s].index < counter'
    BY <1>1, <1>2 DEF IndexMove, IInv, IndexesBelow
  <1>4. IndexesHeldOnce'
    <2> SUFFICES ASSUME NEW s \in Slot, NEW t \in Slot, s # t,
                        req'[s].pc = "insert", req'[t].pc = "insert",
                        req'[s].index # None, req'[t].index # None
                 PROVE  req'[s].index # req'[t].index
      BY DEF IndexesHeldOnce
    <2>1. CASE req'[s] = req[s] /\ req'[t] = req[t]
      BY <2>1 DEF IInv, IndexesHeldOnce
    <2>2. CASE req'[s].index = counter /\ req'[t] = req[t]
      BY <2>2, <1>2 DEF IInv, IndexesBelow
    <2>3. CASE req'[t].index = counter /\ req'[s] = req[s]
      BY <2>3, <1>2 DEF IInv, IndexesBelow
    <2> QED BY <1>1, <2>1, <2>2, <2>3 DEF IndexMove
  <1>5. CASE payins' = payins
    <2>1. \A i \in Id : payins'[i] # None /\ payins'[i].index # None
                          => payins'[i].index < counter'
      BY <1>1, <1>2, <1>5 DEF IInv, IndexesBelow
    <2>2. \A s \in Slot, i \in Id :
            req'[s].pc = "insert" /\ req'[s].index # None /\ payins'[i] # None =>
              payins'[i].index # req'[s].index
      <3> SUFFICES ASSUME NEW s \in Slot, NEW i \in Id, req'[s].pc = "insert",
                          req'[s].index # None, payins[i] # None
                   PROVE  payins[i].index # req'[s].index
        BY <1>5
      <3>1. CASE req'[s] = req[s]
        BY <3>1 DEF IInv, AddressesDistinct
      <3>2. CASE req'[s].index = counter
        BY <3>2, <1>2, NullAssumption DEF IInv, IndexesBelow
      <3> QED BY <1>1, <3>1, <3>2 DEF IndexMove
    <2>3. AddressesDistinct'
      BY <1>5, <2>2 DEF IInv, AddressesDistinct
    <2> QED BY <1>3, <1>4, <2>1, <2>3 DEF IndexesBelow
  <1>6. ASSUME NEW s \in Slot, NEW id \in Id, Inserts(s, id)
        PROVE  IndexesBelow' /\ AddressesDistinct'
    <2>1. /\ payins'[id] = NewRow(s)
          /\ \A k \in Id : k # id => payins'[k] = payins[k]
          /\ counter' = counter
      BY <1>6 DEF Inserts, IInv, TypeOK
    <2>2. NewRow(s).index = req[s].index
      BY DEF NewRow
    <2>3. /\ req'[s].pc # "insert"
          /\ \A t \in Slot : t # s => req'[t] = req[t]
      BY <1>6, InsertMoves DEF IInv
    <2>4. req[s].pc = "insert"
      BY <1>6 DEF Inserts
    <2>5. \A i \in Id : payins'[i] # None /\ payins'[i].index # None
                          => payins'[i].index < counter'
      BY <2>1, <2>2 DEF IInv, IndexesBelow
    <2>6. \A i, j \in Id :
            payins'[i] # None /\ payins'[j] # None /\ i # j =>
              payins'[i].index = None \/ payins'[i].index # payins'[j].index
      BY <2>1, <2>2, <2>4 DEF IInv, AddressesDistinct
    <2>7. \A t \in Slot, i \in Id :
            req'[t].pc = "insert" /\ req'[t].index # None /\ payins'[i] # None =>
              payins'[i].index # req'[t].index
      <3> SUFFICES ASSUME NEW t \in Slot, NEW i \in Id, req'[t].pc = "insert",
                          req'[t].index # None, payins'[i] # None
                   PROVE  payins'[i].index # req'[t].index
        OBVIOUS
      <3>1. t # s /\ req'[t] = req[t]
        BY <2>3
      <3>2. CASE i = id
        BY <2>1, <2>2, <2>4, <3>1, <3>2 DEF IInv, IndexesHeldOnce
      <3>3. CASE i # id
        BY <2>1, <3>1, <3>3 DEF IInv, AddressesDistinct
      <3> QED BY <3>2, <3>3
    <2> QED BY <1>3, <2>5, <2>6, <2>7 DEF IndexesBelow, AddressesDistinct
  <1> QED BY <1>4, <1>5, <1>6, RowsChange

\* Answers fit, whichever statement the request got its row from.
LEMMA AnswersStep ==
  ASSUME IInv, [Next]_vars
  PROVE  AnswersOK'
  <1>1. Keeps
    BY StepKeeps DEF IInv
  <1>2. \A a \in answers : Fits(a.in, a.id)'
    <2> SUFFICES ASSUME NEW a \in answers
                 PROVE  Fits(a.in, a.id)'
      OBVIOUS
    <2>1. a.id \in Id
      BY DEF IInv, TypeOK
    <2>2. Fits(a.in, a.id)
      BY DEF IInv, AnswersOK
    <2> QED BY <1>1, <2>1, <2>2, FitsKept
  <1>3. ASSUME NEW s \in Slot, NEW id \in Id, Respond(s, id),
               NEW in, in = req[s].in, Fits(in, id)'
        PROVE  AnswersOK'
    <2>1. answers' = answers \cup {[in |-> in, id |-> id]}
      BY <1>3 DEF Respond
    <2>2. ASSUME NEW a \in answers'
          PROVE  Fits(a.in, a.id)'
      <3>1. CASE a \in answers
        BY <1>2, <3>1
      <3>2. CASE a = [in |-> in, id |-> id]
        <4>1. a.in = in /\ a.id = id
          BY <3>2
        <4> QED BY <1>3, <4>1
      <3> QED BY <2>1, <3>1, <3>2
    <2> QED BY <2>2 DEF AnswersOK
  <1>4. CASE answers' = answers
    BY <1>2, <1>4 DEF AnswersOK
  <1>5. ASSUME NEW s \in Slot, FindById(s)
        PROVE  AnswersOK'
    <2>1. /\ req[s].id \in Id
          /\ Fits(req[s].in, req[s].id)
      BY <1>5 DEF FindById, IInv, RequestOK, TypeOK, Local
    <2>2. Respond(s, req[s].id)
      BY <1>5, <2>1 DEF FindById, Fits
    <2> QED BY <1>1, <1>3, <2>1, <2>2, FitsKept
  <1>6. ASSUME NEW s \in Slot, NEW id \in Id, Inserts(s, id)
        PROVE  AnswersOK'
    <2>1. CASE req[s].in.key = None
      <3>1. payins'[id] = NewRow(s) /\ NewRow(s) # None
        BY <1>6, RowInserted
      <3>2. Respond(s, id)
        BY <1>6, <2>1 DEF Inserts
      <3> QED BY <1>3, <3>1, <3>2 DEF Fits, NewRow
    <2>2. CASE req[s].in.key # None
      BY <1>4, <1>6, <2>2 DEF Inserts
    <2> QED BY <2>1, <2>2
  <1>7. ASSUME NEW s \in Slot, FindByExternalId(s)
        PROVE  AnswersOK'
    <2>1. PICK id \in Conflicts(req[s].in) : Respond(s, id)
      BY <1>7 DEF FindByExternalId
    <2>2. id \in Id /\ Fits(req[s].in, id)
      BY DEF Conflicts, Fits
    <2> QED BY <1>1, <1>3, <2>1, <2>2, FitsKept
  <1>8. ASSUME NEW s \in Slot, StoreIdempotencyKey(s)
        PROVE  AnswersOK'
    <2>1. /\ req[s].id \in Id
          /\ Fits(req[s].in, req[s].id)
      BY <1>8 DEF StoreIdempotencyKey, IInv, RequestOK, TypeOK, Local
    <2>2. Respond(s, req[s].id)
      BY <1>8 DEF StoreIdempotencyKey
    <2> QED BY <1>1, <1>3, <2>1, <2>2, FitsKept
  <1>9. ASSUME NEW s \in Slot, CreateOrGetExisting(s)
        PROVE  AnswersOK'
    BY <1>4, <1>6, <1>9, InsertOrConflict
  <1>10. ASSUME NEW s \in Slot,
                Start(s) \/ FindKey(s) \/ ClaimNextPayInIndex(s) \/ Abort(s)
         PROVE  AnswersOK'
    BY <1>4, <1>10 DEF Start, FindKey, ClaimNextPayInIndex, Abort
  <1>11. CASE UNCHANGED vars
    BY <1>4, <1>11 DEF vars
  <1> QED BY <1>5, <1>7, <1>8, <1>9, <1>10, <1>11 DEF Next

\* What is under a key fits those who use it.
LEMMA KeysStep ==
  ASSUME IInv, [Next]_vars
  PROVE  KeysOK'
  <1>1. Keeps
    BY StepKeeps DEF IInv
  <1>2. ASSUME NEW c \in Client, NEW k \in Key, NEW id, id = keys[<<c, k>>], id # None
        PROVE  Holds(c, k, id)'
    <2>1. id \in Id
      BY <1>2 DEF IInv, TypeOK, NamespacedKey
    <2>2. Holds(c, k, id)
      BY <1>2 DEF IInv, KeysOK
    <2> QED BY <1>1, <2>1, <2>2, HoldsKept
  <1>3. CASE keys' = keys
    BY <1>2, <1>3 DEF KeysOK
  <1>4. ASSUME NEW s \in Slot, StoreIdempotencyKey(s)
        PROVE  KeysOK'
    <2> DEFINE in == req[s].in
               id == req[s].id
    <2>1. req[s].pc = "store" /\ RequestOK(s)
      BY <1>4 DEF StoreIdempotencyKey, IInv
    <2>2. in \in Request /\ in \in asked /\ in.key # None
      BY <2>1, Running DEF IInv, RequestOK
    <2>3. id \in Id /\ Fits(in, id) /\ payins[id].externalId = in.externalId
      BY <2>1 DEF IInv, RequestOK, TypeOK, Local
    <2>4. Holds(in.client, in.key, id)
      BY <2>2, <2>3 DEF Holds, Fits, AskedWith
    <2>5. keys' = [keys EXCEPT ![<<in.client, in.key>>] =
                     KeyAfterStore(keys[<<in.client, in.key>>], id)]
      BY <1>4, <2>2, KeyTyped DEF StoreIdempotencyKey
    <2>6. ASSUME NEW c \in Client, NEW k \in Key, NEW i, i = keys'[<<c, k>>], i # None
          PROVE  Holds(c, k, i)'
      <3>1. i = keys[<<c, k>>] \/ (c = in.client /\ k = in.key /\ i = id)
        BY <2>5, <2>6 DEF KeyAfterStore, IInv, TypeOK, NamespacedKey
      <3>2. CASE i = keys[<<c, k>>]
        BY <1>2, <2>6, <3>2
      <3>3. CASE c = in.client /\ k = in.key /\ i = id
        BY <1>1, <2>3, <2>4, <3>3, HoldsKept
      <3> QED BY <3>1, <3>2, <3>3
    <2> QED BY <2>6 DEF KeysOK
  <1>5. ASSUME NEW s \in Slot,
               \/ Start(s) \/ FindKey(s) \/ FindById(s) \/ ClaimNextPayInIndex(s)
               \/ CreateOrGetExisting(s) \/ FindByExternalId(s) \/ Abort(s)
        PROVE  keys' = keys
    BY <1>5 DEF Start, FindKey, FindById, ClaimNextPayInIndex, CreateOrGetExisting,
                FindByExternalId, Abort
  <1>6. CASE UNCHANGED vars
    BY <1>3, <1>6 DEF vars
  <1> QED BY <1>3, <1>4, <1>5, <1>6 DEF Next

\* A request knows what it needs: its input, the key, and a row that fits.
LEMMA RequestsStep ==
  ASSUME IInv, [Next]_vars
  PROVE  \A s \in Slot : RequestOK(s)'
  <1>1. Keeps
    BY StepKeeps DEF IInv
  <1>2. ASSUME NEW t \in Slot, req'[t] = req[t]
        PROVE  RequestOK(t)'
    <2>1. RequestOK(t) /\ req[t] \in Local
      BY DEF IInv, TypeOK
    <2>2. CASE req[t].pc \in {"findById", "store"}
      <3>1. req[t].id \in Id /\ Fits(req[t].in, req[t].id)
        BY <2>1, <2>2 DEF RequestOK, Local
      <3>2. \A in, id : in = req[t].in /\ id = req[t].id =>
              Fits(in, id)' /\ payins'[id] = payins[id]
        BY <1>1, <3>1, FitsKept
      <3> QED BY <1>1, <1>2, <2>1, <2>2, <3>2 DEF RequestOK, Keeps
    <2>3. CASE req[t].pc \notin {"findById", "store"}
      BY <1>1, <1>2, <2>1, <2>3 DEF RequestOK, Keeps
    <2> QED BY <2>2, <2>3
  <1>3. ASSUME NEW t \in Slot, req'[t] = Idle
        PROVE  RequestOK(t)'
    BY <1>3 DEF RequestOK, Idle
  <1>4. ASSUME NEW s \in Slot,
               \/ FindByExternalId(s) \/ StoreIdempotencyKey(s) \/ Abort(s)
        PROVE  \A t \in Slot : req'[t] = req[t] \/ req'[t] = Idle
    BY <1>4 DEF FindByExternalId, StoreIdempotencyKey, Abort, Respond, Become,
                IInv, TypeOK
  <1>5. ASSUME NEW s \in Slot, Start(s)
        PROVE  \A t \in Slot : RequestOK(t)'
    <2>1. PICK in \in Request :
            /\ asked' = asked \cup {in}
            /\ Become(s, [Idle EXCEPT !.in = in,
                            !.pc = IF in.key = None THEN AfterKeys(in) ELSE "findKey"])
      BY <1>5 DEF Start
    <2>2. RequestOK(s)'
      BY <2>1 DEF Become, Idle, RequestOK, AfterKeys, IInv, TypeOK
    <2>3. \A t \in Slot : t # s => req'[t] = req[t]
      BY <2>1 DEF Become, IInv, TypeOK
    <2> QED BY <1>2, <2>2, <2>3
  <1>6. ASSUME NEW s \in Slot, NEW l \in Local, Become(s, l),
               req[s].pc # "idle", l.in = req[s].in,
               l.pc \in {"index", "insert", "existing"}
        PROVE  \A t \in Slot : RequestOK(t)'
    <2>1. req'[s] = l
      BY <1>6 DEF Become, IInv, TypeOK
    <2>2. req[s].in \in asked'
      BY <1>1, <1>6 DEF IInv, RequestOK, Keeps
    <2>3. RequestOK(s)'
      BY <1>6, <2>1, <2>2 DEF RequestOK
    <2>4. \A t \in Slot : t # s => req'[t] = req[t]
      BY <1>6 DEF Become, IInv, TypeOK
    <2> QED BY <1>2, <2>3, <2>4
  <1>7. ASSUME NEW s \in Slot, FindKey(s)
        PROVE  \A t \in Slot : RequestOK(t)'
    <2> DEFINE in == req[s].in
               id == keys[<<in.client, in.key>>]
    <2>1. req[s].pc = "findKey" /\ RequestOK(s)
      BY <1>7 DEF FindKey, IInv
    <2>2. /\ req[s] \in Local /\ in \in Request /\ in \in asked
          /\ AfterKeys(in) \in {"insert", "index"}
      BY <2>1, Running DEF IInv
    <2>3. /\ in.key # None
          /\ in.client \in Client /\ in.key \in Key
          /\ Namespaced(in) = <<in.client, in.key>>
          /\ req[s].index = None
      BY <2>1, <2>2, KeyTyped DEF RequestOK
    <2>4. CASE id = None
      <3>1. Become(s, [req[s] EXCEPT !.pc = AfterKeys(in)])
        BY <1>7, <2>3, <2>4 DEF FindKey
      <3>2. /\ [req[s] EXCEPT !.pc = AfterKeys(in)] \in Local
            /\ [req[s] EXCEPT !.pc = AfterKeys(in)].in = in
            /\ [req[s] EXCEPT !.pc = AfterKeys(in)].pc = AfterKeys(in)
        BY <2>2 DEF Local
      <3> HIDE DEF in, id
      <3> QED BY <1>6, <2>1, <2>2, <3>1, <3>2 DEF in
    <2>5. CASE id # None
      <3>1. Become(s, [req[s] EXCEPT !.pc = "findById", !.id = id])
        BY <1>7, <2>3, <2>5 DEF FindKey
      <3>2. id \in Id /\ Holds(in.client, in.key, id)
        BY <2>3, <2>5 DEF IInv, KeysOK, TypeOK, NamespacedKey
      <3>3. Fits(in, id)
        BY <2>3, <3>2 DEF Fits, Holds
      <3>4. \A x, i : x = in /\ i = id => Fits(x, i)'
        BY <1>1, <3>2, <3>3, FitsKept
      <3>5. /\ req'[s].pc = "findById"
            /\ req'[s].in = in
            /\ req'[s].id = id
            /\ req'[s].index = None
        BY <2>2, <2>3, <3>1 DEF Become, IInv, TypeOK, Local
      <3>6. RequestOK(s)'
        BY <1>1, <2>2, <2>3, <2>5, <3>4, <3>5 DEF RequestOK, Keeps
      <3>7. \A t \in Slot : t # s => req'[t] = req[t]
        BY <3>1 DEF Become, IInv, TypeOK
      <3> QED BY <1>2, <3>6, <3>7
    <2> QED BY <2>4, <2>5
  <1>8. ASSUME NEW s \in Slot, FindById(s)
        PROVE  \A t \in Slot : req'[t] = req[t] \/ req'[t] = Idle
    <2>1. Fits(req[s].in, req[s].id)
      BY <1>8 DEF FindById, IInv, RequestOK
    <2> QED BY <1>8, <2>1 DEF FindById, Fits, Respond, Become, IInv, TypeOK
  <1>9. ASSUME NEW s \in Slot, ClaimNextPayInIndex(s)
        PROVE  \A t \in Slot : RequestOK(t)'
    <2> DEFINE l == [req[s] EXCEPT !.pc = "insert", !.index = counter]
    <2>1. l \in Local /\ l.in = req[s].in /\ l.pc = "insert"
      BY DEF IInv, TypeOK, Local
    <2>2. Become(s, l) /\ req[s].pc # "idle"
      BY <1>9 DEF ClaimNextPayInIndex
    <2> QED BY <1>6, <2>1, <2>2
  <1>10. ASSUME NEW s \in Slot, CreateOrGetExisting(s)
         PROVE  \A t \in Slot : RequestOK(t)'
    <2>1. req[s].pc = "insert" /\ RequestOK(s)
      BY <1>10 DEF CreateOrGetExisting, IInv
    <2>2. CASE Become(s, [req[s] EXCEPT !.pc = "existing"])
      <3> DEFINE l == [req[s] EXCEPT !.pc = "existing"]
      <3>1. l \in Local /\ l.in = req[s].in /\ l.pc = "existing"
        BY DEF IInv, TypeOK, Local
      <3> QED BY <1>6, <2>1, <2>2, <3>1
    <2>3. ASSUME NEW id \in Id, Inserts(s, id)
          PROVE  \A t \in Slot : RequestOK(t)'
      <3>1. CASE req[s].in.key = None
        <4>1. \A t \in Slot : req'[t] = req[t] \/ req'[t] = Idle
          BY <2>3, <3>1 DEF Inserts, Respond, Become, IInv, TypeOK
        <4> QED BY <1>2, <1>3, <4>1
      <3>2. CASE req[s].in.key # None
        <4>1. Become(s, [req[s] EXCEPT !.pc = "store", !.id = id])
          BY <2>3, <3>2 DEF Inserts
        <4>2. /\ req'[s].pc = "store"
              /\ req'[s].in = req[s].in
              /\ req'[s].id = id
          BY <4>1 DEF Become, IInv, TypeOK, Local
        <4>3. /\ payins'[id] = NewRow(s)
              /\ NewRow(s) # None
          BY <2>3, RowInserted
        <4>4. \A x : x = req[s].in =>
                Fits(x, id)' /\ payins'[id].externalId = x.externalId
          BY <4>3 DEF Fits, NewRow
        <4>5. req[s].in \in asked'
          BY <1>1, <2>1 DEF RequestOK, Keeps
        <4>6. id # None
          BY CreateAssumption
        <4>7. RequestOK(s)'
          BY <3>2, <4>2, <4>4, <4>5, <4>6 DEF RequestOK
        <4>8. \A t \in Slot : t # s => req'[t] = req[t]
          BY <4>1 DEF Become, IInv, TypeOK
        <4> QED BY <1>2, <4>7, <4>8
      <3> QED BY <3>1, <3>2
    <2> QED BY <1>10, <2>2, <2>3, InsertOrConflict
  <1>11. CASE UNCHANGED vars
    BY <1>2, <1>11 DEF vars
  <1> QED BY <1>2, <1>3, <1>4, <1>5, <1>7, <1>8, <1>9, <1>10, <1>11 DEF Next

---------------------------------------------------------------------------
(* The theorems *)

\* The invariant holds of the empty tables.
LEMMA InitInv == Init => IInv
  <1> SUFFICES ASSUME Init
               PROVE  IInv
    OBVIOUS
  <1>1. TypeOK
    BY InitTyped
  <1>2. /\ RowsUnique /\ AddressesDistinct /\ IndexesBelow /\ IndexesHeldOnce
        /\ \A s \in Slot : RequestOK(s)
    BY DEF Init, Idle, RowsUnique, AddressesDistinct, IndexesBelow, IndexesHeldOnce,
           RequestOK
  <1>3. KeysOK /\ AnswersOK
    BY DEF Init, KeysOK, AnswersOK, NamespacedKey
  <1> QED BY <1>1, <1>2, <1>3 DEF IInv

\* Every step keeps it.
LEMMA StepInv == IInv /\ [Next]_vars => IInv'
  <1> SUFFICES ASSUME IInv, [Next]_vars
               PROVE  IInv'
    OBVIOUS
  <1>1. TypeOK'
    BY StepTyped DEF IInv
  <1>2. RowsUnique'
    BY RowsUniqueStep DEF IInv
  <1> QED BY <1>1, <1>2, IndexStep, KeysStep, RequestsStep, AnswersStep DEF IInv

\* createPayIn keeps the inductive invariant over every interleaving of its
\* statements.
THEOREM Invariance == Spec => []IInv
  BY InitInv, StepInv, PTL DEF Spec

\* The tables, the counter and the locals of createPayIn keep their types.
THEOREM TypeCorrect == Spec => []TypeOK
  <1>1. IInv => TypeOK
    BY DEF IInv
  <1> QED BY <1>1, Invariance, PTL

\* No two pay-ins have one deposit address, and none that is being created has
\* one of a pay-in in the table (claimNextPayInIndex).
THEOREM NoAddressReused == Spec => []AddressesDistinct
  <1>1. IInv => AddressesDistinct
    BY DEF IInv
  <1> QED BY <1>1, Invariance, PTL

\* createPayIn never answers a client with another client's pay-in.
THEOREM OwnAnswers == Spec => []AnsweredWithOwn
  <1>1. IInv => AnsweredWithOwn
    BY DEF IInv, AnswersOK, Fits, AnsweredWithOwn
  <1> QED BY <1>1, Invariance, PTL

\* A client who uses a key for one externalId only is answered with one pay-in
\* for it, however its requests race and are retried.
THEOREM Idempotent == Spec => []RetriesAgree
  <1>1. ASSUME IInv, NEW a \in answers, KeyUsedFor(a.in)
        PROVE  /\ a.id \in Id
               /\ payins[a.id] # None
               /\ payins[a.id].client = a.in.client
               /\ payins[a.id].externalId = a.in.externalId
    <2>1. Fits(a.in, a.id) /\ a.id \in Id
      BY <1>1 DEF IInv, AnswersOK, TypeOK
    <2> QED BY <1>1, <2>1 DEF Fits, AskedWith, KeyUsedFor
  <1>2. IInv => RetriesAgree
    BY <1>1 DEF RetriesAgree, IInv, RowsUnique
  <1> QED BY <1>2, Invariance, PTL

\* INSERT ... ON CONFLICT (key) DO NOTHING: what is under a key stays there.
THEOREM KeysAreFinal == Spec => KeyIsStable
  <1>1. ASSUME IInv, [Next]_vars
        PROVE  [\A k \in NamespacedKey : keys[k] # None => keys'[k] = keys[k]]_vars
    <2>1. ASSUME NEW s \in Slot, StoreIdempotencyKey(s)
          PROVE  \A k \in NamespacedKey : keys[k] # None => keys'[k] = keys[k]
      BY <1>1, <2>1 DEF StoreIdempotencyKey, KeyAfterStore, IInv, TypeOK
    <2>2. ASSUME NEW s \in Slot,
                 \/ Start(s) \/ FindKey(s) \/ FindById(s) \/ ClaimNextPayInIndex(s)
                 \/ CreateOrGetExisting(s) \/ FindByExternalId(s) \/ Abort(s)
          PROVE  keys' = keys
      BY <2>2 DEF Start, FindKey, FindById, ClaimNextPayInIndex, CreateOrGetExisting,
                  FindByExternalId, Abort
    <2> QED BY <1>1, <2>1, <2>2 DEF Next
  <1> QED BY <1>1, Invariance, PTL DEF Spec, KeyIsStable

=============================================================================
