------------------------------- MODULE Access -------------------------------
(***************************************************************************)
(* What a request passes before its handler: ThrottleMiddleware, and       *)
(* ClientApiKeyGuard with the API key cache of ClientsService; and the     *)
(* administration of clients, which changes keys and empties the cache.    *)
(* Several instances share the database, each has a cache and counters of  *)
(* its own in memory.  A lookup or an UPDATE is atomic in the database,    *)
(* its answer is used some time later.                                     *)
(*                                                                         *)
(* Times are counted from the present: an expiresAt or resetAt is the time *)
(* left until then.  So neither time nor the number of requests needs a    *)
(* bound.                                                                  *)
(***************************************************************************)
EXTENDS Naturals, FiniteSets, FiniteSetsExt

CONSTANTS
  Instance,  \* processes of the API
  Client,    \* clients
  Key,       \* API keys, and their hashes
  None,
  Slot,      \* slots for lookups that run at the same time
  Bucket,    \* pairs of an instance and a key whose throttle is followed;
             \* the others let everything pass
  TTL,       \* API_KEY_CACHE_TTL_MS
  Window,    \* windowMs
  Limit,     \* configuration.throttleRps; 0 is no limit
  MaxLag     \* how late an answer of the database may be used

ASSUME AccessAssumption ==
  /\ None \notin Client \cup Key
  /\ Bucket \subseteq Instance \X Key
  /\ {TTL, Window} \subseteq Nat \ {0}
  /\ {Limit, MaxLag} \subseteq Nat

VARIABLES
  clients,   \* the table avasettle_clients
  cache,     \* apiKeyCache of each instance: time left; 0 is no entry
  windows,   \* windows of each instance
  req,       \* lookups in progress
  admin,     \* instances with a call that has changed a client and not yet cleared
  issued,    \* keys that were given out
  age,       \* time since each key was last valid
  gone,      \* pairs of an instance and a key that it has done away with
  accepted,  \* the age of the key that was accepted last
  passed     \* for each bucket, how many requests passed, by the time since

vars == <<clients, cache, windows, req, admin, issued, age, gone, accepted,
          passed>>

---------------------------------------------------------------------------
(* Types *)

\* More than anything is compared with.
Old == TTL + MaxLag + 1

ClientRow == [status: {"active", "disabled"}, key: Key]

\* A lookup: has the database answered, what, and how long ago.
Local == [pc: {"idle", "lookup", "fill"}, instance: Instance \cup {None},
          key: Key \cup {None}, found: Client \cup {None}, wait: 0 .. MaxLag]

Idle == [pc |-> "idle", instance |-> None, key |-> None, found |-> None,
         wait |-> 0]

\* A missing window is not a window.
ASSUME NullAssumption == None \notin [count: Nat, left: Nat]

TypeOK ==
  /\ clients \in [Client -> ClientRow \cup {None}]
  /\ cache \in [Instance -> [Key -> 0 .. TTL]]
  /\ windows \in [Bucket -> [count: 1 .. Limit, left: 0 .. Window] \cup {None}]
  /\ req \in [Slot -> Local]
  /\ admin \subseteq Instance
  /\ issued \subseteq Key
  /\ age \in [Key -> 0 .. Old]
  /\ gone \subseteq Instance \X Key
  /\ accepted \in 0 .. Old
  /\ passed \in [Bucket -> [0 .. Window - 1 -> Nat]]

Init ==
  /\ clients = [c \in Client |-> None]
  /\ cache = [i \in Instance |-> [k \in Key |-> 0]]
  /\ windows = [b \in Bucket |-> None]
  /\ req = [s \in Slot |-> Idle]
  /\ admin = {}
  /\ issued = {}
  /\ age = [k \in Key |-> Old]
  /\ gone = {}
  /\ accepted = 0
  /\ passed = [b \in Bucket |-> [t \in 0 .. Window - 1 |-> 0]]

\* findActiveByApiKeyHash
Holders(rows, k) ==
  {c \in Client : rows[c] # None /\ rows[c].key = k /\ rows[c].status = "active"}
FindActiveByApiKeyHash(k) ==
  IF Holders(clients, k) = {} THEN None ELSE CHOOSE c \in Holders(clients, k) : TRUE

IsValid(k) == Holders(clients, k) # {}

---------------------------------------------------------------------------
(* ThrottleMiddleware.use, before anything else of a request *)

\* There is no window, or it is over.
Over(w) == IF w = None THEN TRUE ELSE w.left = 0

NextWindow(w) ==
  IF Over(w) THEN [count |-> 1, left |-> Window] ELSE [w EXCEPT !.count = @ + 1]

MayPass(w) == IF Over(w) THEN TRUE ELSE w.count < Limit

Throttle(b) ==
  IF b \notin Bucket THEN UNCHANGED <<windows, passed>>
  ELSE /\ MayPass(windows[b])
       /\ windows' = IF Limit = 0 THEN windows
                     ELSE [windows EXCEPT ![b] = NextWindow(@)]
       /\ passed' = IF Limit = 0 THEN passed ELSE [passed EXCEPT ![b][0] = @ + 1]

\* prune: the windows that are over.
PrunableAny(w) == TRUE
Prunable(w) == Over(w)

Prune(i) ==
  /\ windows' = [b \in Bucket |->
       IF b[1] = i /\ Prunable(windows[b]) THEN None ELSE windows[b]]
  /\ UNCHANGED <<clients, cache, req, admin, issued, age, gone, accepted, passed>>

---------------------------------------------------------------------------
(* ClientApiKeyGuard and resolveActiveClientByApiKey *)

\* A request that finds its key in the cache is accepted at once, and the
\* entry stays as it is.
EntryAfterHitRenewed(left) == TTL
EntryAfterHit(left) == left

AcceptCached(i, k) ==
  /\ cache[i][k] > 0
  /\ Throttle(<<i, k>>)
  /\ accepted' = age[k]
  /\ cache' = [cache EXCEPT ![i][k] = EntryAfterHit(@)]
  /\ UNCHANGED <<clients, req, admin, issued, age, gone>>

\* Another one goes to the database.
Arrive(s, i, k) ==
  /\ req[s].pc = "idle"
  /\ cache[i][k] = 0
  /\ Throttle(<<i, k>>)
  /\ req' = [req EXCEPT ![s] = [Idle EXCEPT !.pc = "lookup", !.instance = i,
                                  !.key = k]]
  /\ UNCHANGED <<clients, cache, admin, issued, age, gone, accepted>>

Lookup(s) ==
  /\ req[s].pc = "lookup"
  /\ req' = [req EXCEPT ![s].pc = "fill",
                        ![s].found = FindActiveByApiKeyHash(req[s].key)]
  /\ UNCHANGED <<clients, cache, windows, admin, issued, age, gone, accepted, passed>>

\* The answer is put into the cache, or takes the key out of it.
TimeLeft(found) == IF found = None THEN 0 ELSE TTL

Fill(s) ==
  LET l == req[s]
  IN
  /\ l.pc = "fill"
  /\ cache' = [cache EXCEPT ![l.instance][l.key] = TimeLeft(l.found)]
  /\ req' = [req EXCEPT ![s] = Idle]
  /\ accepted' = IF l.found = None THEN accepted ELSE age[l.key]
  /\ UNCHANGED <<clients, windows, admin, issued, age, gone, passed>>

---------------------------------------------------------------------------
(* The administration *)

\* The table is changed.
Changes(rows) ==
  /\ clients' = rows
  /\ age' = [k \in Key |-> IF Holders(clients, k) \cup Holders(rows, k) # {}
                             THEN 0 ELSE age[k]]
  /\ gone' = {p \in gone : Holders(rows, p[2]) = {}}

\* A new client, with a new key.
CreateClient(c, k) ==
  /\ clients[c] = None
  /\ k \notin issued
  /\ issued' = issued \cup {k}
  /\ Changes([clients EXCEPT ![c] = [status |-> "active", key |-> k]])
  /\ UNCHANGED <<cache, windows, req, admin, accepted, passed>>

\* An UPDATE is in the database.  When its answer is lost the call fails and
\* leaves the cache as it is.
Updated(c, i, row) ==
  /\ clients[c] # None
  /\ Changes([clients EXCEPT ![c] = row])
  /\ admin' \in {admin \cup {i}, admin}
  /\ UNCHANGED <<cache, windows, req, accepted, passed>>

\* updateClient, as far as the status goes.
UpdateClient(c, i, status) ==
  /\ clients[c] # None
  /\ Updated(c, i, [clients[c] EXCEPT !.status = status])
  /\ UNCHANGED issued

RotateApiKey(c, i, k) ==
  /\ clients[c] # None
  /\ k \notin issued
  /\ issued' = issued \cup {k}
  /\ Updated(c, i, [clients[c] EXCEPT !.key = k])

\* An answer for this key, read while it was valid, is on its way here.
OnItsWay(i, k) ==
  \E s \in Slot : /\ req[s].instance = i /\ req[s].key = k
                  /\ req[s].pc = "fill" /\ req[s].found # None

\* apiKeyCache.clear(), on this instance, where another call may be about to do
\* the same.
ClearedCurrent(entries) == [k \in Key |-> IF IsValid(k) THEN 0 ELSE entries[k]]
Cleared(entries) == [k \in Key |-> 0]

ClearCache(i) ==
  /\ i \in admin
  /\ cache' = [cache EXCEPT ![i] = Cleared(@)]
  /\ gone' = gone \cup {<<i, k>> : k \in {k \in issued : ~IsValid(k) /\ ~OnItsWay(i, k)}}
  /\ admin' \in {admin, admin \ {i}}
  /\ UNCHANGED <<clients, windows, req, issued, age, accepted, passed>>

---------------------------------------------------------------------------
(* Time *)

Sooner(n) == IF n = 0 THEN 0 ELSE n - 1
Later(n) == IF n = Old THEN Old ELSE n + 1

\* A moment passes.  An answer of the database is used before MaxLag is over.
Tick ==
  /\ \A s \in Slot : req[s].pc = "fill" => req[s].wait < MaxLag
  /\ cache' = [i \in Instance |-> [k \in Key |-> Sooner(cache[i][k])]]
  /\ windows' = [b \in Bucket |->
       IF windows[b] = None THEN None ELSE [windows[b] EXCEPT !.left = Sooner(@)]]
  /\ req' = [s \in Slot |-> IF req[s].pc = "fill" THEN [req[s] EXCEPT !.wait = @ + 1]
                            ELSE req[s]]
  /\ age' = [k \in Key |-> IF IsValid(k) THEN 0 ELSE Later(age[k])]
  /\ passed' = [b \in Bucket |-> [t \in 0 .. Window - 1 |->
                                    IF t = 0 THEN 0 ELSE passed[b][t - 1]]]
  /\ UNCHANGED <<clients, admin, issued, gone, accepted>>

Next ==
  \/ \E i \in Instance, k \in Key :
       \/ AcceptCached(i, k)
       \/ \E s \in Slot : Arrive(s, i, k)
  \/ \E s \in Slot : Lookup(s) \/ Fill(s)
  \/ \E i \in Instance : Prune(i) \/ ClearCache(i)
  \/ \E c \in Client :
       \/ \E k \in Key : CreateClient(c, k)
       \/ \E i \in Instance, status \in {"active", "disabled"} :
            UpdateClient(c, i, status)
       \/ \E i \in Instance, k \in Key : RotateApiKey(c, i, k)
  \/ Tick

Spec == Init /\ [][Next]_vars

---------------------------------------------------------------------------
(* Properties *)

\* "a disable/rotation propagates to other instances within one TTL": a key
\* is accepted for at most one TTL after it was last valid, and for as long
\* as an answer of the database may be on its way.  This covers an instance
\* that did not make the change, a lookup that read the old row before the
\* UPDATE and fills the cache after clear(), and an UPDATE whose answer is
\* lost.
StaleBounded == accepted <= TTL + MaxLag

\* A key that was rotated, or whose client was disabled, is gone at once from
\* the cache of the instance that made the change, and stays out of it, unless
\* an answer from before the change was still on its way there.
GoneStaysOut == \A p \in gone : cache[p[1]][p[2]] = 0

\* In any span of one window an instance lets pass fewer than twice Limit
\* requests of a key, wherever the span begins: windows begin with a request,
\* and pruning takes no window that still counts.
BurstBounded ==
  Limit > 0 =>
    \A b \in Bucket :
      MapThenSumSet(LAMBDA t : passed[b][t], 0 .. Window - 1) < 2 * Limit

=============================================================================
