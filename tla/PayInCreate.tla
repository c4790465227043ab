---------------------------- MODULE PayInCreate ----------------------------
(***************************************************************************)
(* PayinsService.createPayIn: idempotency keys, the derivation counter and *)
(* the unique index on (client_id, external_id).  Requests run at once, in *)
(* one instance or in several, and each of their SQL statements is atomic, *)
(* the request is not.  Clients retry: with the same key, the same         *)
(* externalId, or with one of them changed.                                *)
(***************************************************************************)
EXTENDS Naturals, FiniteSets

CONSTANTS
  Client,       \* authenticated clients; a public checkout has no key
  ExternalId,   \* values of dto.externalId
  Key,          \* values of the idempotency-key header
  None,         \* null
  Slot,         \* slots for requests that run at the same time
  Id,           \* UUIDs of pay-ins
  MaxRequests,  \* bound: requests that are made
  MaxErrors     \* bound: requests that end in an error, or with their process

ASSUME CreateAssumption ==
  /\ None \notin Key \cup Id
  /\ MaxRequests \in Nat
  /\ MaxErrors \in Nat

VARIABLES
  payins,    \* the table avasettle_payins: the row of each id in use
  keys,      \* the table avasettle_idempotency_keys
  counter,   \* the counter payin_address_index
  req,       \* local state of the running requests
  asked,     \* the requests that were ever made
  answers,   \* the answers that were given
  made,      \* number of requests
  errors

vars == <<payins, keys, counter, req, asked, answers, made, errors>>

---------------------------------------------------------------------------
(* Types *)

Mode == {"derived-address", "payment-router"}

\* A PaymentRouter pay-in has no index, null here and -1 in the code.
Row == [client: Client, externalId: ExternalId, mode: Mode,
        index: Nat \cup {None}]

Request == [client: Client, externalId: ExternalId, key: Key \cup {None},
            mode: Mode]

Local == [pc: {"idle", "findKey", "findById", "index", "insert", "existing",
               "store"},
          in: Request \cup {None},
          index: Nat \cup {None},
          id: Id \cup {None}]

Idle == [pc |-> "idle", in |-> None, index |-> None, id |-> None]

\* null is not an index, a row or a request.
ASSUME NullAssumption == None \notin Nat /\ None \notin Row /\ None \notin Request

\* The key of the table is the client and the key of the request.
NamespacedKey == Client \X Key

TypeOK ==
  /\ payins \in [Id -> Row \cup {None}]
  /\ keys \in [NamespacedKey -> Id \cup {None}]
  /\ counter \in Nat
  /\ req \in [Slot -> Local]
  /\ asked \in SUBSET Request
  /\ answers \in SUBSET [in: Request, id: Id]
  /\ made \in 0 .. MaxRequests
  /\ errors \in 0 .. MaxErrors

Init ==
  /\ payins = [i \in Id |-> None]
  /\ keys = [k \in NamespacedKey |-> None]
  /\ counter = 0
  /\ req = [s \in Slot |-> Idle]
  /\ asked = {}
  /\ answers = {}
  /\ made = 0
  /\ errors = 0

Become(s, l) == req' = [req EXCEPT ![s] = l]
Respond(s, id) ==
  /\ answers' = answers \cup {[in |-> req[s].in, id |-> id]}
  /\ Become(s, Idle)

\* Where a request goes when no earlier one answers it: getLatestBlockNumber
\* decides nothing here, and a router invoice takes no index.
AfterKeys(in) == IF in.mode = "payment-router" THEN "insert" ELSE "index"

---------------------------------------------------------------------------
(* createPayIn, a step for each await *)

Start(s) ==
  /\ req[s].pc = "idle"
  /\ made < MaxRequests
  /\ made' = made + 1
  /\ \E in \in Request :
       /\ asked' = asked \cup {in}
       /\ Become(s, [Idle EXCEPT !.in = in,
                       !.pc = IF in.key = None THEN AfterKeys(in) ELSE "findKey"])
  /\ UNCHANGED <<payins, keys, counter, answers, errors>>

\* namespacedKey
NamespacedShared(in) == <<CHOOSE c \in Client : TRUE, in.key>>
Namespaced(in) == <<in.client, in.key>>

\* findByIdempotencyKey: the id under the key, then the row with that id.
FindKey(s) ==
  LET id == keys[Namespaced(req[s].in)]
  IN
  /\ req[s].pc = "findKey"
  /\ Become(s, IF id = None
                 THEN [req[s] EXCEPT !.pc = AfterKeys(req[s].in)]
                 ELSE [req[s] EXCEPT !.pc = "findById", !.id = id])
  /\ UNCHANGED <<payins, keys, counter, asked, answers, made, errors>>

FindById(s) ==
  /\ req[s].pc = "findById"
  /\ IF payins[req[s].id] = None
       THEN /\ Become(s, [req[s] EXCEPT !.pc = AfterKeys(req[s].in)])
            /\ UNCHANGED answers
       ELSE Respond(s, req[s].id)
  /\ UNCHANGED <<payins, keys, counter, asked, made, errors>>

\* UPDATE ... SET value = value + 1 ... RETURNING value - 1
ClaimedStuck == counter
Claimed == counter + 1

ClaimNextPayInIndex(s) ==
  /\ req[s].pc = "index"
  /\ counter' = Claimed
  /\ Become(s, [req[s] EXCEPT !.pc = "insert", !.index = counter])
  /\ UNCHANGED <<payins, keys, asked, answers, made, errors>>

\* Rows that the INSERT conflicts with.
ConflictsNever(in) == {}
Conflicts(in) ==
  {i \in Id : /\ payins[i] # None
              /\ payins[i].client = in.client
              /\ payins[i].externalId = in.externalId}

\* INSERT ... ON CONFLICT (client_id, external_id) DO NOTHING.  A new row goes
\* on to store the key, an old one does not.
CreateOrGetExisting(s) ==
  LET in == req[s].in
  IN
  /\ req[s].pc = "insert"
  /\ IF Conflicts(in) # {}
       THEN /\ Become(s, [req[s] EXCEPT !.pc = "existing"])
            /\ UNCHANGED <<payins, answers>>
       ELSE \E id \in {i \in Id : payins[i] = None} :
              /\ payins' = [payins EXCEPT ![id] =
                   [client |-> in.client, externalId |-> in.externalId,
                    mode |-> in.mode, index |-> req[s].index]]
              /\ IF in.key = None
                   THEN Respond(s, id)
                   ELSE /\ Become(s, [req[s] EXCEPT !.pc = "store", !.id = id])
                        /\ UNCHANGED answers
  /\ UNCHANGED <<keys, counter, asked, made, errors>>

FindByExternalId(s) ==
  /\ req[s].pc = "existing"
  /\ \E id \in Conflicts(req[s].in) : Respond(s, id)
  /\ UNCHANGED <<payins, keys, counter, asked, made, errors>>

\* INSERT ... ON CONFLICT (key) DO NOTHING
KeyAfterStore(old, id) == IF old = None THEN id ELSE old

StoreIdempotencyKey(s) ==
  /\ req[s].pc = "store"
  /\ keys' = [keys EXCEPT ![Namespaced(req[s].in)] = KeyAfterStore(@, req[s].id)]
  /\ Respond(s, req[s].id)
  /\ UNCHANGED <<payins, counter, asked, made, errors>>

\* An RPC or SQL error, or a process that dies.
Abort(s) ==
  /\ req[s].pc # "idle"
  /\ errors < MaxErrors
  /\ errors' = errors + 1
  /\ Become(s, Idle)
  /\ UNCHANGED <<payins, keys, counter, asked, answers, made>>

---------------------------------------------------------------------------
(* The specification *)

Next ==
  \E s \in Slot :
    \/ Start(s)
    \/ FindKey(s)
    \/ FindById(s)
    \/ ClaimNextPayInIndex(s)
    \/ CreateOrGetExisting(s)
    \/ FindByExternalId(s)
    \/ StoreIdempotencyKey(s)
    \/ Abort(s)

Spec == Init /\ [][Next]_vars

---------------------------------------------------------------------------
(* Properties *)

\* No two pay-ins have one deposit address: the counter hands out every index
\* once, also to requests that lose the INSERT or die before it, and an index
\* that is still on its way to the table is not in it yet.
AddressesDistinct ==
  /\ \A i, j \in Id :
       payins[i] # None /\ payins[j] # None /\ i # j =>
         payins[i].index = None \/ payins[i].index # payins[j].index
  /\ \A s \in Slot, i \in Id :
       req[s].pc = "insert" /\ req[s].index # None /\ payins[i] # None =>
         payins[i].index # req[s].index

\* A client is only ever answered with a pay-in of its own, although clients
\* choose their idempotency keys, and their external ids, freely.
AnsweredWithOwn == \A a \in answers : payins[a.id].client = a.in.client

\* The client has not asked for another externalId with this key.
KeyUsedFor(in) ==
  \A b \in asked : in.key # None /\ b.client = in.client /\ b.key = in.key
                     => b.externalId = in.externalId

\* "Duplicate calls return the same pay-in": requests of one client for one
\* externalId are all answered with one pay-in, over races, lost answers and
\* retries, with a key or without, as long as a key is used for one
\* externalId only.
RetriesAgree ==
  \A a, b \in answers :
    /\ a.in.client = b.in.client
    /\ a.in.externalId = b.in.externalId
    /\ KeyUsedFor(a.in) /\ KeyUsedFor(b.in)
    => a.id = b.id

\* What a key was answered with once it is stored, it is answered with for
\* ever: the record under a key is never replaced by that of a request that
\* started before the key was known.
KeyIsStable ==
  [][\A k \in NamespacedKey : keys[k] # None => keys'[k] = keys[k]]_vars

---------------------------------------------------------------------------
(* What the docs say, and the code does not keep *)

\* "if the same key is reused by the same client, the existing record is
\* returned unchanged" (docs/api.md): one key, one pay-in.
KeyNamesOnePayIn ==
  \A a, b \in answers :
    a.in.client = b.in.client /\ a.in.key = b.in.key /\ a.in.key # None
    => a.id = b.id

=============================================================================
