--------------------------- MODULE PayoutsProofs ---------------------------
(***************************************************************************)
(* The safety properties of Payouts, for any number of payouts, handlers   *)
(* and transactions.                                                       *)
(*                                                                         *)
(* The invariant speaks of one handler at a time: HandlerOK says what the  *)
(* local state of a handler implies about the table and the chain.  The    *)
(* proof that a step keeps it has two halves.  A lemma per kind of change  *)
(* to the shared state shows that it does not disturb a handler that does  *)
(* not own the payout; a lemma per action shows it for the handler that    *)
(* takes the step.                                                         *)
(***************************************************************************)
EXTENDS Payouts, TLAPS

---------------------------------------------------------------------------
(* The inductive invariant *)

\* The handler that answers for payout p: from the claim to the last write
\* that could end it.
Owns(h, p) ==
  /\ p \in h.legs
  /\ \/ h.pc \in {"balance", "send", "receipt", "record"}
     \/ h.pc = "batchClaim" /\ p \notin h.todo
     \/ h.pc = "rollback" /\ p \in h.todo
     \/ h.pc = "catch" /\ (p \in h.todo \/ p \in h.stray)

\* A claim that can still be given back: before the send, and on every path
\* that returns the payout to prepared.
Unsent(h, p) ==
  /\ p \in h.legs
  /\ \/ h.pc \in {"balance", "send"}
     \/ h.pc = "batchClaim" /\ p \notin h.todo
     \/ h.pc = "rollback" /\ p \in h.todo
     \/ h.pc = "catch" /\ h.goal = "prepared" /\ p \in h.todo

\* A leg that is sent and waits for its record write.
ToRecord(h, p) == h.pc \in {"receipt", "record"} /\ p \in h.todo

\* A leg that the handler may still announce.
ToAnnounce(h, p) ==
  \/ h.pc \in {"receipt", "record"} /\ p \in h.legs
  \/ h.pc = "enqueue" /\ p \in h.todo

\* How the fields of a handler are related, by the place it is at.
Shape(h) ==
  /\ h.todo \subseteq h.legs
  /\ h.stray \subseteq h.legs
  /\ h.pc \in {"authRead", "authClaim", "recQuery", "recWrite"} =>
       \E p \in Payout : h.legs = {p}
  /\ h.stray # {} => h.pc = "catch" /\ h.goal = "failed" /\ h.hash # None
  /\ h.pc \in {"receipt", "record", "enqueue"} => h.hash # None
  /\ h.pc \notin {"receipt", "record", "enqueue", "catch"} => h.hash = None
  /\ h.pc = "receipt" => h.todo = h.legs
  /\ h.pc = "enqueue" => h.confirmed
  /\ h.confirmed => h.hash # None

\* An owned payout is not claimable; while its claim can be given back it is
\* authorized and no transaction carries it; once sent it stays authorized
\* until its record write.
ClaimsOK(h, rw, t) ==
  \A p \in Payout :
    /\ Owns(h, p) => rw[p].status \notin {"absent", "prepared"}
    /\ Unsent(h, p) => /\ rw[p].status = "authorized"
                       /\ \A k \in Hash : p \notin t[k].legs
    /\ ToRecord(h, p) => rw[p].status = "authorized"

\* The handler's hash names the transaction of its legs, and no leg it may
\* still announce was announced.
SentOK(h, t, ev) ==
  /\ h.hash # None => t[h.hash].state # "none" /\ t[h.hash].legs = h.legs
  /\ h.confirmed => t[h.hash].state = "success"
  /\ \A p \in Payout : ToAnnounce(h, p) => ev[p] = 0

\* The columns of one row agree, and its status is true of its transaction.
ColumnsOK(c, t) ==
  /\ c.confirmedAt <=> c.status = "confirmed"
  /\ c.status = "confirmed" => ~c.failureReason
  /\ c.status = "failed" => c.failureReason
  /\ c.status \in {"absent", "prepared", "authorized"} => c.transactionHash = None
  /\ c.status \in {"broadcasted", "confirmed"} => c.transactionHash # None
  /\ c.status = "confirmed" => t[c.transactionHash].state = "success"

\* What a reconciliation read is still about the row's transaction, and what
\* it will write is true of that transaction.
SnapOK(h, rw, t) ==
  h.pc \in {"recQuery", "recWrite"} =>
    /\ ColumnsOK(h.snap, t)
    /\ h.snap.transactionHash # None
    /\ \A p \in h.legs : rw[p].transactionHash = h.snap.transactionHash

HandlerOK(h, rw, t, ev) ==
  Shape(h) /\ ClaimsOK(h, rw, t) /\ SentOK(h, t, ev) /\ SnapOK(h, rw, t)

\* A row and the transactions: the hash on the row pays the payout, nothing
\* claimable was sent, nothing was sent twice, nothing is announced unpaid.
PayoutOK(p, rw, t, ev) ==
  /\ ColumnsOK(rw[p], t)
  /\ rw[p].transactionHash # None => p \in t[rw[p].transactionHash].legs
  /\ rw[p].status \in {"absent", "prepared"} => \A k \in Hash : p \notin t[k].legs
  /\ \A k, l \in Hash : p \in t[k].legs /\ p \in t[l].legs => k = l
  /\ ev[p] <= 1
  /\ ev[p] > 0 => \E k \in Hash : p \in t[k].legs /\ t[k].state = "success"

NoTxNoLegs == \A h \in Hash : tx[h].state = "none" => tx[h].legs = {}

OneOwner ==
  \A r, s \in Req : \A p \in Payout : Owns(req[r], p) /\ Owns(req[s], p) => r = s

OneSender ==
  \A r, s \in Req : req[r].hash # None /\ req[r].hash = req[s].hash => r = s

IInv ==
  /\ TypeOK
  /\ NoTxNoLegs
  /\ OneOwner
  /\ OneSender
  /\ \A r \in Req : HandlerOK(req[r], row, tx, events)
  /\ \A p \in Payout : PayoutOK(p, row, tx, events)

---------------------------------------------------------------------------
(* Changes to the shared state that leave a handler alone *)

\* A write to the row of p does not disturb a handler that does not own p;
\* nor one that does, if the payout already has its hash and stays sent.
LEMMA RowWriteKeepsHandler ==
  ASSUME NEW rw \in [Payout -> Row], NEW t \in [Hash -> Tx],
         NEW ev \in [Payout -> Nat], NEW h \in Handler, NEW p \in Payout,
         NEW c \in Row,
         HandlerOK(h, rw, t, ev), PayoutOK(p, rw, t, ev),
         rw[p].transactionHash # None => c.transactionHash = rw[p].transactionHash,
         Owns(h, p) => /\ rw[p].transactionHash # None
                       /\ c.status \notin {"absent", "prepared"}
  PROVE  HandlerOK(h, [rw EXCEPT ![p] = c], t, ev)
<1> DEFINE new == [rw EXCEPT ![p] = c]
<1>0. new[p] = c /\ \A q \in Payout \ {p} : new[q] = rw[q]
  OBVIOUS
<1> HIDE DEF new
<1>1. ClaimsOK(h, new, t)
  <2> SUFFICES ASSUME NEW q \in Payout
               PROVE  /\ Owns(h, q) => new[q].status \notin {"absent", "prepared"}
                      /\ Unsent(h, q) => /\ new[q].status = "authorized"
                                         /\ \A k \in Hash : q \notin t[k].legs
                      /\ ToRecord(h, q) => new[q].status = "authorized"
    BY DEF ClaimsOK
  <2>1. CASE q # p
    BY <2>1, <1>0 DEF HandlerOK, ClaimsOK
  <2>2. CASE q = p
    <3>1. Unsent(h, p) => Owns(h, p)
      BY DEF Unsent, Owns
    <3>2. ToRecord(h, p) => Owns(h, p)
      BY DEF ToRecord, Owns, HandlerOK, Shape
    <3>3. Owns(h, p) => rw[p].status # "authorized"
      BY DEF PayoutOK, ColumnsOK
    <3> QED BY <2>2, <1>0, <3>1, <3>2, <3>3 DEF HandlerOK, ClaimsOK
  <2> QED BY <2>1, <2>2
<1>2. SnapOK(h, new, t)
  BY <1>0 DEF HandlerOK, SnapOK, Handler
<1> QED BY <1>1, <1>2 DEF HandlerOK, new

\* A step of one handler that touches no shared state.
LEMMA LocalStep ==
  ASSUME IInv, NEW r \in Req, NEW n \in Handler, Become(r, n),
         row' = row, tx' = tx, events' = events,
         faults' \in 0 .. MaxFaults, crashes' \in 0 .. MaxCrashes,
         \A p \in Payout : Owns(n, p) => Owns(req[r], p),
         n.hash \in {None, req[r].hash},
         HandlerOK(n, row, tx, events)
  PROVE  IInv'
<1>0. req'[r] = n /\ \A s \in Req \ {r} : req'[s] = req[s]
  BY DEF IInv, TypeOK, Become
<1>1. TypeOK'
  BY DEF IInv, TypeOK, Become
<1>2. NoTxNoLegs'
  BY DEF IInv, NoTxNoLegs
<1>3. OneOwner'
  BY <1>0 DEF IInv, OneOwner
<1>4. OneSender'
  BY <1>0 DEF IInv, OneSender
<1>5. ASSUME NEW s \in Req PROVE HandlerOK(req'[s], row', tx', events')
  BY <1>0 DEF IInv
<1>6. ASSUME NEW p \in Payout PROVE PayoutOK(p, row', tx', events')
  BY DEF IInv
<1> QED BY <1>1, <1>2, <1>3, <1>4, <1>5, <1>6 DEF IInv

\* A step of one handler that writes the row of p.
LEMMA WriteStep ==
  ASSUME IInv, NEW r \in Req, NEW n \in Handler, Become(r, n),
         NEW p \in Payout, NEW c \in Row, row' = [row EXCEPT ![p] = c],
         tx' = tx, events' = events,
         faults' \in 0 .. MaxFaults, crashes' \in 0 .. MaxCrashes,
         row[p].transactionHash # None => c.transactionHash = row[p].transactionHash,
         \A s \in Req \ {r} :
           Owns(req[s], p) => /\ row[p].transactionHash # None
                              /\ c.status \notin {"absent", "prepared"},
         \A q \in Payout :
           Owns(n, q) => Owns(req[r], q) \/ \A s \in Req : ~Owns(req[s], q),
         n.hash \in {None, req[r].hash},
         HandlerOK(n, row', tx, events),
         PayoutOK(p, row', tx, events)
  PROVE  IInv'
<1>0. req'[r] = n /\ \A s \in Req \ {r} : req'[s] = req[s]
  BY DEF IInv, TypeOK, Become
<1>1. TypeOK'
  BY DEF IInv, TypeOK, Become
<1>2. NoTxNoLegs'
  BY DEF IInv, NoTxNoLegs
<1>3. OneOwner'
  BY <1>0 DEF IInv, OneOwner
<1>4. OneSender'
  BY <1>0 DEF IInv, OneSender
<1>5. ASSUME NEW s \in Req PROVE HandlerOK(req'[s], row', tx', events')
  <2>1. CASE s = r
    BY <2>1, <1>0
  <2>2. CASE s # r
    <3>1. /\ row \in [Payout -> Row] /\ tx \in [Hash -> Tx]
          /\ events \in [Payout -> Nat] /\ req[s] \in Handler
          /\ HandlerOK(req[s], row, tx, events) /\ PayoutOK(p, row, tx, events)
      BY DEF IInv, TypeOK
    <3>2. HandlerOK(req[s], [row EXCEPT ![p] = c], tx, events)
      BY <2>2, <3>1, RowWriteKeepsHandler
    <3> QED BY <2>2, <3>2, <1>0
  <2> QED BY <2>1, <2>2
<1>6. ASSUME NEW q \in Payout PROVE PayoutOK(q, row', tx', events')
  <2>1. CASE q = p
    BY <2>1
  <2>2. CASE q # p
    <3>1. row'[q] = row[q] /\ PayoutOK(q, row, tx, events)
      BY <2>2 DEF IInv, TypeOK
    <3> QED BY <3>1 DEF PayoutOK
  <2> QED BY <2>1, <2>2
<1> QED BY <1>1, <1>2, <1>3, <1>4, <1>5, <1>6 DEF IInv

---------------------------------------------------------------------------
(* The actions *)

\* The idle handler and the missing row are well typed.
LEMMA RowTypes == NoRow \in Row /\ Idle \in Handler
<1>1. NoRow \in Row
  BY DEF NoRow, Row, PayoutStatus
<1> QED BY <1>1 DEF Idle, Handler, Place

\* A handler that is done owns nothing and promises nothing.
LEMMA IdleOK ==
  ASSUME NEW rw, NEW t, NEW ev
  PROVE  HandlerOK(Idle, rw, t, ev) /\ \A p : ~Owns(Idle, p)
BY DEF HandlerOK, Shape, ClaimsOK, SentOK, SnapOK, Owns, Unsent, ToRecord,
       ToAnnounce, Idle

\* The end of a request that writes nothing.
LEMMA FinishStep ==
  ASSUME IInv, NEW r \in Req, Finish(r), row' = row, tx' = tx, events' = events,
         faults' \in 0 .. MaxFaults, crashes' \in 0 .. MaxCrashes
  PROVE  IInv'
<1>1. Become(r, Idle) /\ Idle.hash = None
  BY DEF Finish, Idle
<1> QED BY <1>1, RowTypes, IdleOK, LocalStep

\* A request that starts, or goes on to a place where it owns nothing yet.
LEMMA UnclaimedStep ==
  ASSUME IInv, NEW r \in Req, NEW n \in Handler, Become(r, n),
         row' = row, tx' = tx, events' = events, faults' = faults,
         crashes' = crashes,
         Shape(n),
         n.pc \in {"authRead", "authClaim", "batchRead", "batchBalance", "batchClaim"},
         n.pc = "batchClaim" => n.todo = n.legs,
         n.hash = None
  PROVE  IInv'
<1>1. \A p \in Payout : ~Owns(n, p)
  BY DEF Owns, Shape
<1>2. HandlerOK(n, row, tx, events)
  BY DEF HandlerOK, Shape, ClaimsOK, SentOK, SnapOK, Owns, Unsent, ToRecord,
         ToAnnounce
<1>3. faults' \in 0 .. MaxFaults /\ crashes' \in 0 .. MaxCrashes
  BY DEF IInv, TypeOK
<1> QED BY <1>1, <1>2, <1>3, LocalStep

\* createPayout keeps the invariant: the new row has no hash and no owner.
LEMMA CreatePayoutStep ==
  ASSUME IInv, NEW r \in Req, NEW p \in Payout, CreatePayout(r, p)
  PROVE  IInv'
<1> DEFINE c == [NoRow EXCEPT !.status = "prepared"]
<1>1. c \in Row /\ c.status = "prepared" /\ c.transactionHash = None
      /\ c.confirmedAt = FALSE /\ c.failureReason = FALSE
  BY DEF Row, NoRow, PayoutStatus
<1>2. /\ row' = [row EXCEPT ![p] = c] /\ row[p].status = "absent"
      /\ req[r].pc = "idle"
      /\ tx' = tx /\ events' = events /\ row \in [Payout -> Row]
      /\ faults' \in 0 .. MaxFaults /\ crashes' \in 0 .. MaxCrashes
  BY DEF CreatePayout, IInv, TypeOK
<1> HIDE DEF c
<1>3. row'[p] = c /\ row[p].transactionHash = None /\ PayoutOK(p, row', tx, events)
  <2>1. row'[p] = c
    BY <1>2
  <2>2. PayoutOK(p, row, tx, events)
    BY DEF IInv
  <2> QED BY <1>1, <1>2, <2>1, <2>2 DEF PayoutOK, ColumnsOK
<1>4. \A s \in Req : ~Owns(req[s], p)
  BY <1>2 DEF IInv, HandlerOK, ClaimsOK
<1>5. PICK n \in Handler :
        /\ Become(r, n)
        /\ n.hash \in {None, req[r].hash}
        /\ \A q \in Payout : ~Owns(n, q)
        /\ HandlerOK(n, row', tx, events)
  <2>1. CASE UNCHANGED req
    <3>1. req[r] \in Handler /\ Become(r, req[r])
      BY <2>1 DEF IInv, TypeOK, Become
    <3>2. \A q \in Payout : ~Owns(req[r], q)
      BY <1>2 DEF Owns
    <3>3. HandlerOK(req[r], row', tx, events)
      BY <1>2 DEF IInv, HandlerOK, ClaimsOK, SentOK, SnapOK, Owns, Unsent,
                  ToRecord, ToAnnounce
    <3> QED BY <3>1, <3>2, <3>3
  <2>2. CASE Become(r, [Idle EXCEPT !.pc = "authRead", !.legs = {p}])
    <3> DEFINE n == [Idle EXCEPT !.pc = "authRead", !.legs = {p}]
    <3>1. /\ n \in Handler /\ n.pc = "authRead" /\ n.legs = {p} /\ n.todo = {}
          /\ n.stray = {} /\ n.hash = None /\ ~n.confirmed
      BY RowTypes DEF Idle, Handler, Place
    <3> HIDE DEF n
    <3>2. \A q \in Payout : ~Owns(n, q)
      BY <3>1 DEF Owns
    <3>3. HandlerOK(n, row', tx, events)
      BY <3>1, <3>2 DEF HandlerOK, Shape, ClaimsOK, SentOK, SnapOK, Unsent,
                        ToRecord, ToAnnounce
    <3> QED BY <2>2, <3>1, <3>2, <3>3 DEF n
  <2> QED BY <2>1, <2>2 DEF CreatePayout
<1> QED BY <1>1, <1>2, <1>3, <1>4, <1>5, WriteStep

\* A new authorize request owns nothing yet.
LEMMA StartAuthorizeStep ==
  ASSUME IInv, NEW r \in Req, NEW p \in Payout, StartAuthorize(r, p)
  PROVE  IInv'
<1> DEFINE n == [Idle EXCEPT !.pc = "authRead", !.legs = {p}]
<1>1. n \in Handler /\ n.pc = "authRead" /\ n.hash = None /\ Shape(n)
  BY RowTypes DEF Idle, Handler, Place, Shape
<1> HIDE DEF n
<1>2. /\ Become(r, n) /\ row' = row /\ tx' = tx /\ events' = events
      /\ faults' = faults /\ crashes' = crashes
  BY DEF StartAuthorize, n
<1> QED BY <1>1, <1>2, UnclaimedStep

\* A new batch request owns nothing yet.
LEMMA StartBatchStep ==
  ASSUME IInv, NEW r \in Req, NEW legs \in SUBSET Payout, StartBatch(r, legs)
  PROVE  IInv'
<1> DEFINE n == [Idle EXCEPT !.pc = "batchRead", !.legs = legs, !.todo = legs]
<1>1. n \in Handler /\ n.pc = "batchRead" /\ n.hash = None /\ Shape(n)
  BY RowTypes DEF Idle, Handler, Place, Shape
<1> HIDE DEF n
<1>2. /\ Become(r, n) /\ row' = row /\ tx' = tx /\ events' = events
      /\ faults' = faults /\ crashes' = crashes
  BY DEF StartBatch, n
<1> QED BY <1>1, <1>2, UnclaimedStep

\* authorizePayout's first read claims nothing.
LEMMA AuthorizeReadStep ==
  ASSUME IInv, NEW r \in Req, AuthorizeRead(r)
  PROVE  IInv'
<1>1. /\ row' = row /\ tx' = tx /\ events' = events /\ faults' = faults
      /\ crashes' = crashes /\ req[r].pc = "authRead"
  BY DEF AuthorizeRead
<1>2. CASE Finish(r)
  BY <1>1, <1>2, FinishStep DEF IInv, TypeOK
<1>3. CASE Goto(r, "authClaim")
  <2> DEFINE n == [req[r] EXCEPT !.pc = "authClaim"]
  <2>1. req[r] \in Handler /\ Shape(req[r])
    BY DEF IInv, TypeOK, HandlerOK
  <2>2. n \in Handler /\ n.pc = "authClaim" /\ n.hash = None /\ Shape(n)
    BY <1>1, <2>1 DEF Handler, Place, Shape
  <2> HIDE DEF n
  <2>3. Become(r, n)
    BY <1>3 DEF Goto, n
  <2> QED BY <1>1, <2>2, <2>3, UnclaimedStep
<1> QED BY <1>2, <1>3 DEF AuthorizeRead

\* The reads of a batch claim nothing.
LEMMA BatchReadStep ==
  ASSUME IInv, NEW r \in Req, NEW p \in Payout, BatchRead(r, p)
  PROVE  IInv'
<1> DEFINE n == [req[r] EXCEPT
                   !.pc = IF req[r].todo = {p} THEN "batchBalance" ELSE @,
                   !.todo = @ \ {p}]
<1>1. /\ row' = row /\ tx' = tx /\ events' = events /\ faults' = faults
      /\ crashes' = crashes /\ req[r].pc = "batchRead"
  BY DEF BatchRead
<1>2. CASE Finish(r)
  BY <1>1, <1>2, FinishStep DEF IInv, TypeOK
<1>3. CASE Become(r, n)
  <2>1. req[r] \in Handler /\ Shape(req[r])
    BY DEF IInv, TypeOK, HandlerOK
  <2>2. /\ n \in Handler /\ n.pc \in {"batchRead", "batchBalance"}
        /\ n.hash = None /\ Shape(n)
    BY <1>1, <2>1 DEF Handler, Place, Shape
  <2> HIDE DEF n
  <2> QED BY <1>1, <1>3, <2>2, UnclaimedStep
<1> QED BY <1>2, <1>3 DEF BatchRead

\* A batch's balance check claims nothing.
LEMMA BatchBalanceStep ==
  ASSUME IInv, NEW r \in Req, BatchBalance(r)
  PROVE  IInv'
<1> DEFINE n == [req[r] EXCEPT !.pc = "batchClaim", !.todo = req[r].legs]
<1>1. /\ row' = row /\ tx' = tx /\ events' = events /\ faults' = faults
      /\ crashes' = crashes /\ req[r].pc = "batchBalance"
  BY DEF BatchBalance
<1>2. CASE Finish(r)
  BY <1>1, <1>2, FinishStep DEF IInv, TypeOK
<1>3. CASE Become(r, n)
  <2>1. req[r] \in Handler /\ Shape(req[r])
    BY DEF IInv, TypeOK, HandlerOK
  <2>2. /\ n \in Handler /\ n.pc = "batchClaim" /\ n.todo = n.legs
        /\ n.hash = None /\ Shape(n)
    BY <1>1, <2>1 DEF Handler, Place, Shape
  <2> HIDE DEF n
  <2> QED BY <1>1, <1>3, <2>2, UnclaimedStep
<1> QED BY <1>2, <1>3 DEF BatchBalance

\* Both claims: the new owner is the only one, since a prepared payout has
\* none, and the payout was never sent.
LEMMA ClaimStep ==
  ASSUME IInv, NEW r \in Req, NEW p \in Payout, NEW n \in Handler, Become(r, n),
         row[p].status = "prepared",
         row' = [row EXCEPT ![p].status = "authorized"],
         tx' = tx, events' = events, faults' = faults, crashes' = crashes,
         Shape(n), n.hash = None,
         n.pc \in {"balance", "send", "batchClaim"},
         \A q \in Payout : Owns(n, q) => q = p \/ Unsent(req[r], q)
  PROVE  IInv'
<1> DEFINE c == [row[p] EXCEPT !.status = "authorized"]
<1>0. /\ row \in [Payout -> Row] /\ row[p] \in Row
      /\ faults' \in 0 .. MaxFaults /\ crashes' \in 0 .. MaxCrashes
      /\ PayoutOK(p, row, tx, events)
  BY DEF IInv, TypeOK
<1>1. /\ c \in Row /\ c.status = "authorized"
      /\ c.transactionHash = row[p].transactionHash
      /\ c.confirmedAt = row[p].confirmedAt
      /\ row' = [row EXCEPT ![p] = c]
  BY <1>0 DEF Row, PayoutStatus
<1> HIDE DEF c
<1>2. row'[p] = c /\ \A q \in Payout \ {p} : row'[q] = row[q]
  BY <1>0, <1>1
<1>3. PayoutOK(p, row', tx, events)
  BY <1>0, <1>1, <1>2 DEF PayoutOK, ColumnsOK
<1>4. \A s \in Req : ~Owns(req[s], p)
  BY DEF IInv, HandlerOK, ClaimsOK
<1>5. \A q \in Payout : Owns(n, q) => q = p \/ Owns(req[r], q)
  BY DEF Owns, Unsent
<1>6. HandlerOK(n, row', tx, events)
  <2>1. ClaimsOK(n, row', tx)
    <3> SUFFICES ASSUME NEW q \in Payout, Owns(n, q)
                 PROVE  /\ row'[q].status = "authorized"
                        /\ \A k \in Hash : q \notin tx[k].legs
      BY DEF ClaimsOK, Owns, Unsent, ToRecord
    <3>1. CASE q = p
      BY <3>1, <1>0, <1>1, <1>2 DEF PayoutOK
    <3>2. CASE q # p
      BY <3>2, <1>2 DEF IInv, HandlerOK, ClaimsOK
    <3> QED BY <3>1, <3>2
  <2>2. SentOK(n, tx, events) /\ SnapOK(n, row', tx)
    BY DEF SentOK, SnapOK, ToAnnounce, Shape
  <2> QED BY <2>1, <2>2 DEF HandlerOK
<1>7. /\ \A q \in Payout :
           Owns(n, q) => Owns(req[r], q) \/ \A s \in Req : ~Owns(req[s], q)
      /\ n.hash \in {None, req[r].hash}
  BY <1>4, <1>5
<1> QED BY <1>0, <1>1, <1>3, <1>4, <1>6, <1>7, WriteStep

\* authorizePayout's guarded claim keeps the invariant.
LEMMA AuthorizeClaimStep ==
  ASSUME IInv, NEW r \in Req, AuthorizeClaim(r)
  PROVE  IInv'
<1> DEFINE n == [req[r] EXCEPT !.pc = "balance"]
<1>1. /\ tx' = tx /\ events' = events /\ faults' = faults
      /\ crashes' = crashes /\ req[r].pc = "authClaim"
  BY DEF AuthorizeClaim
<1>2. req[r] \in Handler /\ Shape(req[r])
  BY DEF IInv, TypeOK, HandlerOK
<1>3. PICK p \in Payout : req[r].legs = {p}
  BY <1>1, <1>2 DEF Shape
<1>4. CASE row[p].status = "prepared"
  <2>1. Become(r, n) /\ row' = [row EXCEPT ![p].status = "authorized"]
    BY <1>3, <1>4 DEF AuthorizeClaim, ClaimMatches, Goto
  <2>2. n \in Handler /\ n.pc = "balance" /\ n.hash = None /\ Shape(n) /\ n.legs = {p}
    BY <1>1, <1>2, <1>3 DEF Handler, Place, Shape
  <2> HIDE DEF n
  <2>3. \A q \in Payout : Owns(n, q) => q = p
    BY <2>2 DEF Owns
  <2> QED BY <1>1, <1>4, <2>1, <2>2, <2>3, ClaimStep
<1>5. CASE row[p].status # "prepared"
  <2>1. Finish(r) /\ row' = row
    BY <1>3, <1>5 DEF AuthorizeClaim, ClaimMatches
  <2> QED BY <1>1, <2>1, FinishStep DEF IInv, TypeOK
<1> QED BY <1>4, <1>5

\* So does each claim of a batch; a lost one starts the rollback.
LEMMA BatchClaimStep ==
  ASSUME IInv, NEW r \in Req, NEW p \in Payout, BatchClaim(r, p)
  PROVE  IInv'
<1> DEFINE n == [req[r] EXCEPT !.pc = IF req[r].todo = {p} THEN "send" ELSE @,
                               !.todo = @ \ {p}]
           b == [req[r] EXCEPT !.pc = "rollback",
                               !.todo = req[r].legs \ req[r].todo]
<1>1. /\ tx' = tx /\ events' = events /\ faults' = faults
      /\ crashes' = crashes /\ req[r].pc = "batchClaim" /\ p \in req[r].todo
  BY DEF BatchClaim
<1>2. req[r] \in Handler /\ Shape(req[r])
  BY DEF IInv, TypeOK, HandlerOK
<1>3. CASE row[p].status = "prepared"
  <2>1. Become(r, n) /\ row' = [row EXCEPT ![p].status = "authorized"]
    BY <1>3 DEF BatchClaim, ClaimMatches
  <2>2. /\ n \in Handler /\ n.pc \in {"send", "batchClaim"} /\ n.hash = None
        /\ Shape(n) /\ n.legs = req[r].legs /\ n.todo = req[r].todo \ {p}
        /\ n.pc = "send" => req[r].todo = {p}
    BY <1>1, <1>2 DEF Handler, Place, Shape
  <2> HIDE DEF n
  <2>3. \A q \in Payout : Owns(n, q) => q = p \/ Unsent(req[r], q)
    BY <1>1, <2>2 DEF Owns, Unsent
  <2> QED BY <1>1, <1>3, <2>1, <2>2, <2>3, ClaimStep
<1>4. CASE row[p].status # "prepared"
  <2>1. row' = row /\ (Finish(r) \/ Become(r, b))
    BY <1>4 DEF BatchClaim, ClaimMatches, Finish
  <2>2. CASE Finish(r)
    BY <1>1, <2>1, <2>2, FinishStep DEF IInv, TypeOK
  <2>3. CASE Become(r, b)
    <3>1. /\ b \in Handler /\ b.pc = "rollback" /\ b.hash = None
          /\ Shape(b) /\ b.legs = req[r].legs /\ b.todo = req[r].legs \ req[r].todo
      BY <1>1, <1>2 DEF Handler, Place, Shape
    <3> HIDE DEF b
    <3>2. \A q \in Payout : /\ Owns(b, q) => Owns(req[r], q)
                            /\ Owns(b, q) => Unsent(req[r], q)
      BY <1>1, <3>1 DEF Owns, Unsent
    <3>3. HandlerOK(b, row, tx, events)
      BY <3>1, <3>2 DEF IInv, HandlerOK, Shape, ClaimsOK, SentOK, SnapOK, Owns,
                        Unsent, ToRecord, ToAnnounce
    <3>4. faults' \in 0 .. MaxFaults /\ crashes' \in 0 .. MaxCrashes
      BY <1>1 DEF IInv, TypeOK
    <3> QED BY <1>1, <2>1, <2>3, <3>1, <3>2, <3>3, <3>4, LocalStep
  <2> QED BY <2>1, <2>2, <2>3
<1> QED BY <1>3, <1>4

\* Entering the catch block keeps the claims; the goal prepared is only chosen
\* before the send.
LEMMA CatchStep ==
  ASSUME IInv, NEW r \in Req, NEW g \in {"prepared", "failed"},
         NEW x \in SUBSET req[r].legs, ToCatch(r, g, x),
         row' = row, tx' = tx, events' = events,
         faults' \in 0 .. MaxFaults, crashes' \in 0 .. MaxCrashes,
         req[r].pc \in {"balance", "send", "receipt", "record"},
         g = "prepared" => req[r].pc \in {"balance", "send"},
         x # {} => req[r].pc = "record" /\ g = "failed"
  PROVE  IInv'
<1> DEFINE n == [req[r] EXCEPT !.pc = "catch", !.goal = g,
                               !.todo = req[r].legs, !.stray = x]
<1>1. req[r] \in Handler /\ HandlerOK(req[r], row, tx, events) /\ Become(r, n)
  BY DEF IInv, TypeOK, ToCatch
<1>2. /\ n \in Handler /\ n.pc = "catch" /\ n.goal = g /\ n.legs = req[r].legs
      /\ n.todo = req[r].legs /\ n.stray = x /\ n.hash = req[r].hash
      /\ n.confirmed = req[r].confirmed
  BY <1>1 DEF Handler, Place
<1> HIDE DEF n
<1>3. \A q \in Payout : Owns(n, q) => Owns(req[r], q)
  BY <1>2 DEF Owns
<1>4. \A q \in Payout : Unsent(n, q) => Unsent(req[r], q)
  BY <1>2 DEF Unsent
<1>5. Shape(n)
  BY <1>1, <1>2 DEF HandlerOK, Shape
<1>6. HandlerOK(n, row, tx, events)
  BY <1>1, <1>2, <1>3, <1>4, <1>5 DEF HandlerOK, ClaimsOK, SentOK, SnapOK,
                                      ToRecord, ToAnnounce
<1> QED BY <1>1, <1>2, <1>3, <1>6, LocalStep

\* The balance check keeps the claim, whatever it answers.
LEMMA AuthorizeBalanceStep ==
  ASSUME IInv, NEW r \in Req, AuthorizeBalance(r)
  PROVE  IInv'
<1>1. /\ row' = row /\ tx' = tx /\ events' = events /\ req[r].pc = "balance"
      /\ faults' \in 0 .. MaxFaults /\ crashes' \in 0 .. MaxCrashes
  BY ConstantsAssumption DEF AuthorizeBalance, Fault, NoFault, IInv, TypeOK
<1>2. CASE Goto(r, "send")
  <2> DEFINE n == [req[r] EXCEPT !.pc = "send"]
  <2>1. req[r] \in Handler /\ HandlerOK(req[r], row, tx, events) /\ Become(r, n)
    BY <1>2 DEF IInv, TypeOK, Goto
  <2>2. /\ n \in Handler /\ n.pc = "send" /\ n.legs = req[r].legs
        /\ n.todo = req[r].todo /\ n.stray = req[r].stray
        /\ n.hash = req[r].hash /\ n.confirmed = req[r].confirmed
    BY <2>1 DEF Handler, Place
  <2> HIDE DEF n
  <2>3. \A q \in Payout : /\ Owns(n, q) => Owns(req[r], q)
                          /\ Unsent(n, q) => Unsent(req[r], q)
    BY <1>1, <2>2 DEF Owns, Unsent
  <2>4. HandlerOK(n, row, tx, events)
    BY <1>1, <2>1, <2>2, <2>3 DEF HandlerOK, Shape, ClaimsOK, SentOK, SnapOK,
                                  ToRecord, ToAnnounce
  <2> QED BY <1>1, <2>1, <2>2, <2>3, <2>4, LocalStep
<1>3. CASE ToCatch(r, "prepared", {})
  BY <1>1, <1>3, CatchStep
<1>4. CASE ToCatch(r, "failed", {})
  BY <1>1, <1>4, CatchStep
<1> QED BY <1>2, <1>3, <1>4 DEF AuthorizeBalance, ErrorGoal

\* An error before the broadcast leaves nothing on the chain.
LEMMA SendFailsStep ==
  ASSUME IInv, NEW r \in Req, SendFails(r)
  PROVE  IInv'
<1>1. /\ row' = row /\ tx' = tx /\ events' = events /\ req[r].pc = "send"
      /\ faults' \in 0 .. MaxFaults /\ crashes' \in 0 .. MaxCrashes
  BY ConstantsAssumption DEF SendFails, Fault, NoFault, IInv, TypeOK
<1>2. CASE ToCatch(r, "prepared", {})
  BY <1>1, <1>2, CatchStep
<1>3. CASE ToCatch(r, "failed", {})
  BY <1>1, <1>3, CatchStep
<1> QED BY <1>2, <1>3 DEF SendFails, ErrorGoal

\* The receipt decides whether the execution counts as confirmed.
LEMMA AwaitReceiptStep ==
  ASSUME IInv, NEW r \in Req, AwaitReceipt(r)
  PROVE  IInv'
<1>1. /\ row' = row /\ tx' = tx /\ events' = events /\ req[r].pc = "receipt"
      /\ faults' \in 0 .. MaxFaults /\ crashes' \in 0 .. MaxCrashes
  BY ConstantsAssumption DEF AwaitReceipt, Fault, NoFault, IInv, TypeOK
<1> DEFINE n == [req[r] EXCEPT !.pc = "record",
                   !.confirmed = ExecutionConfirmed(req[r].hash)]
<1>2. CASE Become(r, n)
  <2>1. req[r] \in Handler /\ HandlerOK(req[r], row, tx, events)
    BY DEF IInv, TypeOK
  <2>2. /\ n \in Handler /\ n.pc = "record" /\ n.legs = req[r].legs
        /\ n.todo = req[r].todo /\ n.stray = req[r].stray
        /\ n.hash = req[r].hash
        /\ n.confirmed => tx[n.hash].state = "success"
    BY <2>1 DEF Handler, Place, ExecutionConfirmed
  <2> HIDE DEF n
  <2>3. \A q \in Payout : /\ Owns(n, q) => Owns(req[r], q)
                          /\ ~Unsent(n, q)
                          /\ ToRecord(n, q) => ToRecord(req[r], q)
                          /\ ToAnnounce(n, q) => ToAnnounce(req[r], q)
    BY <1>1, <2>2 DEF Owns, Unsent, ToRecord, ToAnnounce
  <2>4. Shape(n)
    BY <1>1, <2>1, <2>2 DEF HandlerOK, Shape
  <2>5. HandlerOK(n, row, tx, events)
    BY <2>1, <2>2, <2>3, <2>4 DEF HandlerOK, ClaimsOK, SentOK, SnapOK
  <2> QED BY <1>1, <1>2, <2>2, <2>3, <2>5, LocalStep
<1>3. CASE ToCatch(r, "failed", {})
  BY <1>1, <1>3, CatchStep
<1> QED BY <1>2, <1>3 DEF AwaitReceipt, ErrorGoal

\* The record write, by the handler's own Promise.all or left behind by it.
LEMMA RecordStep ==
  ASSUME IInv, NEW r \in Req, NEW p \in Payout, NEW n \in Handler, Become(r, n),
         \/ req[r].pc = "record" /\ p \in req[r].todo
         \/ req[r].pc = "catch" /\ p \in req[r].stray,
         row[p].status = "authorized",
         row' = [row EXCEPT ![p] = Recorded(p, req[r].hash, req[r].confirmed)],
         tx' = tx, events' = events,
         faults' \in 0 .. MaxFaults, crashes' \in 0 .. MaxCrashes,
         n = Idle \/ /\ Shape(n) /\ n.legs = req[r].legs /\ n.hash = req[r].hash
                     /\ n.confirmed = req[r].confirmed
                     /\ n.pc \in {"record", "enqueue", "catch"}
                     /\ n.pc = "catch" => n.goal = "failed"
                     /\ n.pc = "catch" /\ req[r].pc = "catch" =>
                          n.todo \subseteq req[r].todo /\ n.stray \subseteq req[r].stray
                     /\ n.pc # "catch" => req[r].pc = "record"
                     /\ n.pc = "record" => n.todo \subseteq req[r].todo \ {p}
  PROVE  IInv'
<1> DEFINE c == Recorded(p, req[r].hash, req[r].confirmed)
<1>0. /\ row \in [Payout -> Row] /\ row[p] \in Row /\ req[r] \in Handler
      /\ HandlerOK(req[r], row, tx, events) /\ PayoutOK(p, row, tx, events)
  BY DEF IInv, TypeOK
<1>1. /\ c \in Row /\ c.transactionHash = req[r].hash
      /\ c.status = (IF req[r].confirmed THEN "confirmed" ELSE "broadcasted")
      /\ c.confirmedAt = req[r].confirmed /\ c.failureReason = FALSE
  BY <1>0 DEF Recorded, Row, PayoutStatus, Handler
<1> HIDE DEF c
<1>2. /\ row' = [row EXCEPT ![p] = c]
      /\ row'[p] = c /\ \A q \in Payout \ {p} : row'[q] = row[q]
  BY <1>0 DEF c
<1>3. /\ Owns(req[r], p) /\ req[r].hash # None
      /\ tx[req[r].hash].legs = req[r].legs /\ p \in req[r].legs
      /\ req[r].confirmed => tx[req[r].hash].state = "success"
      /\ req[r].pc = "catch" => req[r].goal = "failed"
      /\ req[r].confirmed \in BOOLEAN
  BY <1>0 DEF HandlerOK, Shape, SentOK, Owns, Handler
<1>4. PayoutOK(p, row', tx, events)
  BY <1>0, <1>1, <1>2, <1>3 DEF PayoutOK, ColumnsOK
<1>5. \A s \in Req \ {r} : ~Owns(req[s], p)
  BY <1>3 DEF IInv, OneOwner
<1>6. /\ \A q \in Payout : Owns(n, q) => Owns(req[r], q)
      /\ n.hash \in {None, req[r].hash}
      /\ HandlerOK(n, row', tx, events)
  <2>1. CASE n = Idle
    BY <2>1, IdleOK DEF Idle
  <2>2. CASE n # Idle
    <3>1. \A q \in Payout : /\ Owns(n, q) => Owns(req[r], q)
                            /\ ~Unsent(n, q)
                            /\ ToRecord(n, q) => ToRecord(req[r], q) /\ q # p
                            /\ ToAnnounce(n, q) => ToAnnounce(req[r], q)
      BY <2>2, <1>3 DEF Owns, Unsent, ToRecord, ToAnnounce, Shape
    <3>2. ClaimsOK(n, row', tx)
      BY <3>1, <1>0, <1>1, <1>2 DEF HandlerOK, ClaimsOK
    <3>3. SentOK(n, tx, events) /\ SnapOK(n, row', tx)
      BY <2>2, <3>1, <1>0 DEF HandlerOK, SentOK, SnapOK
    <3> QED BY <2>2, <3>1, <3>2, <3>3 DEF HandlerOK
  <2> QED BY <2>1, <2>2
<1>7. row[p].transactionHash = None
  BY <1>0 DEF PayoutOK, ColumnsOK
<1>8. \A q \in Payout :
        Owns(n, q) => Owns(req[r], q) \/ \A s \in Req : ~Owns(req[s], q)
  BY <1>6
<1> QED BY <1>1, <1>2, <1>4, <1>5, <1>6, <1>7, <1>8, WriteStep

\* The record write of a leg, and its errors.
LEMMA RecordLegStep ==
  ASSUME IInv, NEW r \in Req, NEW p \in Payout, RecordLeg(r, p)
  PROVE  IInv'
<1> DEFINE rest == req[r].todo \ {p}
           goOn == [req[r] EXCEPT !.todo = rest]
           announce == [req[r] EXCEPT !.pc = "enqueue", !.todo = req[r].legs]
           giveUp == [req[r] EXCEPT !.pc = "catch", !.goal = "failed",
                                    !.todo = req[r].legs, !.stray = rest]
           write == row' = [row EXCEPT ![p] = Recorded(p, req[r].hash, req[r].confirmed)]
<1>0. /\ req[r].pc = "record" /\ p \in req[r].todo /\ tx' = tx /\ events' = events
      /\ faults' \in 0 .. MaxFaults /\ crashes' \in 0 .. MaxCrashes
  BY ConstantsAssumption DEF RecordLeg, Fault, NoFault, IInv, TypeOK
<1>1. req[r] \in Handler /\ Shape(req[r]) /\ rest \in SUBSET req[r].legs
  BY DEF IInv, TypeOK, HandlerOK, Shape
<1>2. /\ goOn \in Handler /\ Shape(goOn) /\ goOn.legs = req[r].legs
      /\ goOn.hash = req[r].hash /\ goOn.confirmed = req[r].confirmed
      /\ goOn.pc = "record" /\ goOn.todo = req[r].todo \ {p}
  BY <1>0, <1>1 DEF Handler, Shape
<1>3. ASSUME req[r].confirmed
      PROVE  /\ announce \in Handler /\ Shape(announce)
             /\ announce.legs = req[r].legs /\ announce.hash = req[r].hash
             /\ announce.confirmed = req[r].confirmed /\ announce.pc = "enqueue"
  BY <1>0, <1>1, <1>3 DEF Handler, Shape, Place
<1>4. /\ giveUp \in Handler /\ Shape(giveUp) /\ giveUp.legs = req[r].legs
      /\ giveUp.hash = req[r].hash /\ giveUp.confirmed = req[r].confirmed
      /\ giveUp.pc = "catch" /\ giveUp.goal = "failed"
  BY <1>0, <1>1 DEF Handler, Shape, Place
<1>5. CASE RecordMatches(p) /\ write /\ Become(r, goOn)
  BY <1>0, <1>2, <1>5, RecordStep DEF RecordMatches
<1>6. CASE RecordMatches(p) /\ write /\ req[r].confirmed /\ Become(r, announce)
  BY <1>0, <1>3, <1>6, RecordStep DEF RecordMatches
<1>7. CASE RecordMatches(p) /\ write /\ Become(r, Idle)
  BY <1>0, <1>7, RowTypes, RecordStep DEF RecordMatches
<1>8. CASE RecordMatches(p) /\ write /\ ToCatch(r, "failed", rest)
  <2>1. /\ Become(r, giveUp) /\ row[p].status = "authorized"
        /\ row' = [row EXCEPT ![p] = Recorded(p, req[r].hash, req[r].confirmed)]
    BY <1>8 DEF ToCatch, RecordMatches
  <2> HIDE DEF giveUp
  <2> QED BY <1>0, <1>4, <2>1, RecordStep
<1>9. CASE UNCHANGED row /\ ToCatch(r, "failed", rest)
  <2>1. /\ row' = row
        /\ rest # {} => req[r].pc = "record" /\ "failed" = "failed"
    BY <1>0, <1>9
  <2> HIDE DEF rest
  <2> QED BY <1>0, <1>1, <1>9, <2>1, CatchStep
<1> QED BY <1>5, <1>6, <1>7, <1>8, <1>9 DEF RecordLeg, ErrorGoal

\* A record write left behind by a rejected Promise.all.
LEMMA StrayRecordStep ==
  ASSUME IInv, NEW r \in Req, NEW p \in Payout, StrayRecord(r, p)
  PROVE  IInv'
<1> DEFINE n == IF req[r].todo = {} /\ req[r].stray = {p}
                  THEN Idle ELSE [req[r] EXCEPT !.stray = @ \ {p}]
<1>0. /\ req[r].pc = "catch" /\ p \in req[r].stray /\ tx' = tx /\ events' = events
      /\ faults' \in 0 .. MaxFaults /\ crashes' \in 0 .. MaxCrashes /\ Become(r, n)
  BY DEF StrayRecord, IInv, TypeOK
<1>1. req[r] \in Handler /\ HandlerOK(req[r], row, tx, events)
  BY DEF IInv, TypeOK
<1>2. /\ n \in Handler
      /\ n = Idle \/ /\ Shape(n) /\ n.legs = req[r].legs /\ n.hash = req[r].hash
                     /\ n.confirmed = req[r].confirmed /\ n.pc = "catch"
                     /\ n.goal = "failed" /\ n.todo = req[r].todo
                     /\ n.stray = req[r].stray \ {p}
  BY <1>0, <1>1, RowTypes DEF Handler, HandlerOK, Shape
<1> HIDE DEF n
<1>3. CASE RecordMatches(p)
  <2>1. row' = [row EXCEPT ![p] = Recorded(p, req[r].hash, req[r].confirmed)]
    BY <1>3 DEF StrayRecord
  <2> QED BY <1>0, <1>2, <1>3, <2>1, RecordStep DEF RecordMatches
<1>4. CASE ~RecordMatches(p)
  <2>1. row' = row
    BY <1>4 DEF StrayRecord
  <2>2. CASE n = Idle
    BY <1>0, <2>1, <2>2, FinishStep DEF Finish
  <2>3. CASE n # Idle
    <3>1. \A q \in Payout : /\ Owns(n, q) => Owns(req[r], q)
                            /\ Unsent(n, q) => Unsent(req[r], q)
                            /\ ~ToRecord(n, q) /\ ~ToAnnounce(n, q)
      BY <1>0, <1>2, <2>3 DEF Owns, Unsent, ToRecord, ToAnnounce
    <3>2. HandlerOK(n, row, tx, events)
      BY <1>1, <1>2, <2>3, <3>1 DEF HandlerOK, ClaimsOK, SentOK, SnapOK
    <3> QED BY <1>0, <1>2, <2>1, <2>3, <3>1, <3>2, LocalStep
  <2> QED BY <2>2, <2>3
<1> QED BY <1>3, <1>4

\* The end of a claim: back to prepared if it was never sent, else failed.
LEMMA EndClaimStep ==
  ASSUME IInv, NEW r \in Req, NEW p \in Payout, NEW n \in Handler, Become(r, n),
         NEW c \in Row, row' = [row EXCEPT ![p] = c],
         tx' = tx, events' = events, faults' = faults, crashes' = crashes,
         row[p].status = "authorized", Owns(req[r], p),
         c.transactionHash = row[p].transactionHash,
         c.confirmedAt = row[p].confirmedAt,
         \/ c.status = "prepared" /\ Unsent(req[r], p) /\ ~Owns(n, p)
         \/ c.status = "failed" /\ c.failureReason /\ req[r].goal = "failed",
         n = Idle \/ /\ n.legs = req[r].legs /\ n.hash = req[r].hash
                     /\ n.confirmed = req[r].confirmed
                     /\ n.pc = req[r].pc /\ n.pc \in {"rollback", "catch"}
                     /\ n.pc = "rollback" => c.status = "prepared"
                     /\ n.goal = req[r].goal /\ n.todo = req[r].todo \ {p}
                     /\ n.stray = req[r].stray
  PROVE  IInv'
<1>0. /\ row \in [Payout -> Row] /\ row[p] \in Row /\ req[r] \in Handler
      /\ HandlerOK(req[r], row, tx, events) /\ PayoutOK(p, row, tx, events)
      /\ faults' \in 0 .. MaxFaults /\ crashes' \in 0 .. MaxCrashes
  BY DEF IInv, TypeOK
<1>1. row'[p] = c /\ \A q \in Payout \ {p} : row'[q] = row[q]
  BY <1>0
<1>2. /\ row[p].transactionHash = None /\ row[p].confirmedAt = FALSE
      /\ c.status = "prepared" => \A k \in Hash : p \notin tx[k].legs
  BY <1>0 DEF PayoutOK, ColumnsOK, HandlerOK, ClaimsOK, Row
<1>3. PayoutOK(p, row', tx, events)
  BY <1>0, <1>1, <1>2 DEF PayoutOK, ColumnsOK
<1>4. \A s \in Req \ {r} : ~Owns(req[s], p)
  BY DEF IInv, OneOwner
<1>5. /\ \A q \in Payout : Owns(n, q) => Owns(req[r], q)
      /\ n.hash \in {None, req[r].hash}
      /\ HandlerOK(n, row', tx, events)
  <2>1. CASE n = Idle
    BY <2>1, IdleOK DEF Idle
  <2>2. CASE n # Idle
    <3>1. \A q \in Payout : /\ Owns(n, q) => Owns(req[r], q)
                            /\ Unsent(n, q) => Unsent(req[r], q) /\ q # p
                            /\ ~ToRecord(n, q) /\ ~ToAnnounce(n, q)
      BY <2>2 DEF Owns, Unsent, ToRecord, ToAnnounce
    <3>2. ClaimsOK(n, row', tx)
      BY <3>1, <1>0, <1>1 DEF HandlerOK, ClaimsOK
    <3>3. SentOK(n, tx, events) /\ SnapOK(n, row', tx)
      BY <2>2, <3>1, <1>0 DEF HandlerOK, SentOK, SnapOK
    <3>4. Shape(n)
      BY <2>2, <1>0 DEF HandlerOK, Shape
    <3> QED BY <2>2, <3>1, <3>2, <3>3, <3>4 DEF HandlerOK
  <2> QED BY <2>1, <2>2
<1>6. \A q \in Payout :
        Owns(n, q) => Owns(req[r], q) \/ \A s \in Req : ~Owns(req[s], q)
  BY <1>5
<1> QED BY <1>0, <1>2, <1>3, <1>4, <1>5, <1>6, WriteStep

\* A rollback returns an unsent payout to prepared.
LEMMA RollbackStep ==
  ASSUME IInv, NEW r \in Req, NEW p \in Payout, Rollback(r, p)
  PROVE  IInv'
<1> DEFINE n == IF req[r].todo = {p} THEN Idle
                                     ELSE [req[r] EXCEPT !.todo = @ \ {p}]
           c == [row[p] EXCEPT !.status = "prepared"]
<1>0. /\ req[r].pc = "rollback" /\ p \in req[r].todo /\ tx' = tx
      /\ events' = events /\ faults' = faults /\ crashes' = crashes /\ Become(r, n)
  BY DEF Rollback
<1>1. /\ req[r] \in Handler /\ HandlerOK(req[r], row, tx, events)
      /\ row \in [Payout -> Row] /\ row[p] \in Row
  BY DEF IInv, TypeOK
<1>2. /\ n \in Handler
      /\ n = Idle \/ /\ n.legs = req[r].legs /\ n.hash = req[r].hash
                     /\ n.confirmed = req[r].confirmed /\ n.pc = "rollback"
                     /\ n.goal = req[r].goal /\ n.todo = req[r].todo \ {p}
                     /\ n.stray = req[r].stray
  BY <1>0, <1>1, RowTypes DEF Handler
<1> HIDE DEF n
<1>3. Unsent(req[r], p) /\ Owns(req[r], p) /\ row[p].status = "authorized" /\ ~Owns(n, p)
  <2>1. Unsent(req[r], p) /\ Owns(req[r], p)
    BY <1>0, <1>1 DEF Unsent, Owns, HandlerOK, Shape
  <2>2. ~Owns(n, p)
    BY <1>2, IdleOK DEF Owns
  <2> QED BY <1>1, <2>1, <2>2 DEF HandlerOK, ClaimsOK
<1>4. /\ c \in Row /\ c.status = "prepared"
      /\ c.transactionHash = row[p].transactionHash
      /\ c.confirmedAt = row[p].confirmedAt
  BY <1>1 DEF Row, PayoutStatus
<1>5. row' = [row EXCEPT ![p] = c]
  BY <1>1, <1>3 DEF Rollback, CatchMatches
<1> HIDE DEF c
<1> QED BY <1>0, <1>2, <1>3, <1>4, <1>5, EndClaimStep

\* A catch write ends the claim of a payout that is still authorized.
LEMMA CatchLegStep ==
  ASSUME IInv, NEW r \in Req, NEW p \in Payout, CatchLeg(r, p)
  PROVE  IInv'
<1> DEFINE n == IF req[r].todo = {p} /\ req[r].stray = {}
                  THEN Idle ELSE [req[r] EXCEPT !.todo = @ \ {p}]
           c == [row[p] EXCEPT !.status = req[r].goal, !.failureReason = TRUE]
<1>0. /\ req[r].pc = "catch" /\ p \in req[r].todo /\ tx' = tx
      /\ events' = events /\ faults' = faults /\ crashes' = crashes /\ Become(r, n)
  BY DEF CatchLeg
<1>1. /\ req[r] \in Handler /\ HandlerOK(req[r], row, tx, events)
      /\ row \in [Payout -> Row] /\ row[p] \in Row
      /\ faults' \in 0 .. MaxFaults /\ crashes' \in 0 .. MaxCrashes
  BY <1>0 DEF IInv, TypeOK
<1>2. /\ n \in Handler
      /\ n = Idle \/ /\ n.legs = req[r].legs /\ n.hash = req[r].hash
                     /\ n.confirmed = req[r].confirmed /\ n.pc = "catch"
                     /\ n.goal = req[r].goal /\ n.todo = req[r].todo \ {p}
                     /\ n.stray = req[r].stray
  BY <1>0, <1>1, RowTypes DEF Handler
<1> HIDE DEF n
<1>3. Owns(req[r], p)
  BY <1>0, <1>1 DEF Owns, HandlerOK, Shape
<1>4. CASE row[p].status = "authorized"
  <2>1. /\ c \in Row /\ c.status = req[r].goal /\ c.failureReason
        /\ c.transactionHash = row[p].transactionHash
        /\ c.confirmedAt = row[p].confirmedAt
    BY <1>1 DEF Row, PayoutStatus, Handler
  <2>2. row' = [row EXCEPT ![p] = c]
    BY <1>1, <1>4 DEF CatchLeg, CatchMatches
  <2> HIDE DEF c
  <2>3. \/ c.status = "prepared" /\ Unsent(req[r], p) /\ ~Owns(n, p)
        \/ c.status = "failed" /\ c.failureReason /\ req[r].goal = "failed"
    <3>1. CASE req[r].goal = "failed"
      BY <3>1, <2>1
    <3>2. CASE req[r].goal = "prepared"
      <4>1. Unsent(req[r], p) /\ req[r].stray = {}
        BY <3>2, <1>0, <1>1 DEF Unsent, HandlerOK, Shape
      <4>2. ~Owns(n, p)
        BY <1>2, <4>1, IdleOK DEF Owns
      <4> QED BY <3>2, <2>1, <4>1, <4>2
    <3> QED BY <3>1, <3>2, <1>1 DEF Handler
  <2> QED BY <1>0, <1>2, <1>3, <1>4, <2>1, <2>2, <2>3, EndClaimStep
<1>5. CASE row[p].status # "authorized"
  <2>1. row' = row
    BY <1>5 DEF CatchLeg, CatchMatches
  <2>2. CASE n = Idle
    BY <1>0, <1>1, <2>1, <2>2, FinishStep DEF Finish
  <2>3. CASE n # Idle
    <3>1. \A q \in Payout : /\ Owns(n, q) => Owns(req[r], q)
                            /\ Unsent(n, q) => Unsent(req[r], q)
                            /\ ~ToRecord(n, q) /\ ~ToAnnounce(n, q)
      BY <1>0, <1>2, <2>3 DEF Owns, Unsent, ToRecord, ToAnnounce
    <3>2. HandlerOK(n, row, tx, events)
      <4>1. Shape(n)
        BY <1>0, <1>1, <1>2, <2>3 DEF HandlerOK, Shape
      <4> QED BY <1>1, <1>2, <2>3, <3>1, <4>1 DEF HandlerOK, ClaimsOK, SentOK, SnapOK
    <3> QED BY <1>0, <1>1, <1>2, <2>1, <2>3, <3>1, <3>2, LocalStep
  <2> QED BY <2>2, <2>3
<1> QED BY <1>4, <1>5

\* reconcilePayout reads a row that has its hash.
LEMMA StartReconcileStep ==
  ASSUME IInv, NEW r \in Req, NEW p \in Payout, StartReconcile(r, p)
  PROVE  IInv'
<1> DEFINE n == [Idle EXCEPT !.pc = "recQuery", !.legs = {p}, !.snap = row[p]]
<1>0. /\ row' = row /\ tx' = tx /\ events' = events /\ Become(r, n)
      /\ faults' \in 0 .. MaxFaults /\ crashes' \in 0 .. MaxCrashes
      /\ row[p].transactionHash # None /\ row[p] \in Row
  BY DEF StartReconcile, IInv, TypeOK
<1>1. /\ n \in Handler /\ n.pc = "recQuery" /\ n.legs = {p} /\ n.snap = row[p]
      /\ n.hash = None /\ ~n.confirmed /\ n.todo = {} /\ n.stray = {}
  BY <1>0, RowTypes DEF Idle, Handler, Place
<1> HIDE DEF n
<1>2. \A q \in Payout : ~Owns(n, q)
  BY <1>1 DEF Owns
<1>3. PayoutOK(p, row, tx, events)
  BY DEF IInv
<1>4. HandlerOK(n, row, tx, events)
  BY <1>0, <1>1, <1>3 DEF HandlerOK, Shape, ClaimsOK, SentOK, SnapOK, Owns,
                          Unsent, ToRecord, ToAnnounce, PayoutOK
<1> QED BY <1>0, <1>1, <1>2, <1>4, LocalStep

\* What reconcilePayout decides is true of the transaction it asked about.
LEMMA ReconcileQueryStep ==
  ASSUME IInv, NEW r \in Req, ReconcileQuery(r)
  PROVE  IInv'
<1>0. /\ row' = row /\ tx' = tx /\ events' = events /\ req[r].pc = "recQuery"
      /\ faults' \in 0 .. MaxFaults /\ crashes' \in 0 .. MaxCrashes
      /\ req[r] \in Handler /\ HandlerOK(req[r], row, tx, events)
  BY ConstantsAssumption DEF ReconcileQuery, Fault, NoFault, IInv, TypeOK
<1> DEFINE w == Reconciled(req[r].snap, req[r].snap.transactionHash)
<1>1. /\ ColumnsOK(req[r].snap, tx) /\ req[r].snap.transactionHash # None
      /\ req[r].snap \in Row
  BY <1>0 DEF HandlerOK, SnapOK, Handler
<1>2. w \in Row /\ ColumnsOK(w, tx) /\ w.transactionHash = req[r].snap.transactionHash
  BY <1>1 DEF Row, PayoutStatus, ColumnsOK, Reconciled, Finalized
<1> HIDE DEF w
<1>3. ASSUME NEW c \in {w, req[r].snap},
             Become(r, [req[r] EXCEPT !.pc = "recWrite", !.snap = c])
      PROVE  IInv'
  <2> DEFINE n == [req[r] EXCEPT !.pc = "recWrite", !.snap = c]
  <2>1. /\ n \in Handler /\ n.pc = "recWrite" /\ n.legs = req[r].legs
        /\ n.snap = c /\ n.hash = req[r].hash /\ n.todo = req[r].todo
        /\ n.stray = req[r].stray /\ n.confirmed = req[r].confirmed
    BY <1>0, <1>1, <1>2 DEF Handler, Place
  <2> HIDE DEF n
  <2>2. \A q \in Payout : ~Owns(n, q)
    BY <2>1 DEF Owns
  <2>3. Shape(n)
    BY <1>0, <2>1 DEF HandlerOK, Shape
  <2>4. ColumnsOK(c, tx) /\ c.transactionHash = req[r].snap.transactionHash
    BY <1>1, <1>2
  <2>5. HandlerOK(n, row, tx, events)
    BY <1>0, <1>1, <2>1, <2>3, <2>4 DEF HandlerOK, ClaimsOK, SentOK, SnapOK, Owns,
                                   Unsent, ToRecord, ToAnnounce
  <2>6. Become(r, n)
    BY <1>3 DEF n
  <2> QED BY <1>0, <2>1, <2>2, <2>5, <2>6, LocalStep
<1>4. CASE Goto(r, "recWrite")
  <2>1. [req[r] EXCEPT !.pc = "recWrite"] =
          [req[r] EXCEPT !.pc = "recWrite", !.snap = req[r].snap]
    BY <1>0 DEF Handler
  <2> QED BY <1>3, <1>4, <2>1 DEF Goto
<1>5. CASE Become(r, [req[r] EXCEPT !.pc = "recWrite", !.snap = w])
  BY <1>3, <1>5
<1> QED BY <1>0, <1>4, <1>5 DEF ReconcileQuery, w, Handler

\* The unguarded write: whatever happened since the read, the row still has
\* the transaction that the written status is about.
LEMMA ReconcileWriteStep ==
  ASSUME IInv, NEW r \in Req, ReconcileWrite(r)
  PROVE  IInv'
<1>0. /\ tx' = tx /\ events' = events /\ req[r].pc = "recWrite" /\ Become(r, Idle)
      /\ faults' \in 0 .. MaxFaults /\ crashes' \in 0 .. MaxCrashes
      /\ req[r] \in Handler /\ HandlerOK(req[r], row, tx, events)
      /\ row \in [Payout -> Row]
  BY DEF ReconcileWrite, IInv, TypeOK, Finish
<1>1. PICK p \in Payout : req[r].legs = {p}
  BY <1>0 DEF HandlerOK, Shape
<1> DEFINE snap == req[r].snap
           c == [row[p] EXCEPT !.status = snap.status,
                               !.confirmedAt = snap.confirmedAt,
                               !.failureReason = snap.failureReason]
<1>2. /\ ColumnsOK(snap, tx) /\ snap.transactionHash # None /\ snap \in Row
      /\ row[p].transactionHash = snap.transactionHash /\ row[p] \in Row
  BY <1>0, <1>1 DEF HandlerOK, SnapOK, Handler
<1>3. row' = [row EXCEPT ![p] = c]
  BY <1>0, <1>1 DEF ReconcileWrite
<1> HIDE DEF snap
<1>4. /\ c \in Row /\ c.status = snap.status /\ c.confirmedAt = snap.confirmedAt
      /\ c.failureReason = snap.failureReason
      /\ c.transactionHash = row[p].transactionHash
  BY <1>2 DEF Row
<1> HIDE DEF c
<1>5. c.status \notin {"absent", "prepared"} /\ ColumnsOK(c, tx)
  BY <1>2, <1>4 DEF ColumnsOK
<1>6. PayoutOK(p, row', tx, events)
  <2>1. row'[p] = c /\ PayoutOK(p, row, tx, events)
    BY <1>0, <1>3 DEF IInv
  <2> QED BY <2>1, <1>4, <1>5 DEF PayoutOK
<1>7. /\ \A q \in Payout :
           Owns(Idle, q) => Owns(req[r], q) \/ \A s \in Req : ~Owns(req[s], q)
      /\ HandlerOK(Idle, row', tx, events)
      /\ Idle.hash \in {None, req[r].hash}
  BY IdleOK DEF Idle
<1> QED BY <1>0, <1>2, <1>3, <1>4, <1>5, <1>6, <1>7, RowTypes, WriteStep

\* A handler that dies leaves its claims behind, without an owner.
LEMMA CrashStep ==
  ASSUME IInv, NEW r \in Req, Crash(r)
  PROVE  IInv'
<1>1. /\ row' = row /\ tx' = tx /\ events' = events /\ Finish(r)
      /\ faults' \in 0 .. MaxFaults /\ crashes' \in 0 .. MaxCrashes
  BY ConstantsAssumption DEF Crash, IInv, TypeOK
<1> QED BY <1>1, FinishStep

\* Two handlers cannot both be about to announce p: they would have sent it
\* in the same transaction.
LEMMA EnqueueConfirmedStep ==
  ASSUME IInv, NEW r \in Req, NEW p \in Payout, EnqueueConfirmed(r, p)
  PROVE  IInv'
<1> DEFINE n == IF req[r].todo = {p} THEN Idle
                                     ELSE [req[r] EXCEPT !.todo = @ \ {p}]
<1>0. /\ row' = row /\ tx' = tx /\ Become(r, n) /\ req[r].pc = "enqueue"
      /\ faults' \in 0 .. MaxFaults /\ crashes' \in 0 .. MaxCrashes
      /\ req[r] \in Handler /\ HandlerOK(req[r], row, tx, events)
      /\ p \in req[r].todo /\ events \in [Payout -> Nat]
      /\ events' = [events EXCEPT ![p] = @ + 1] \/ events' = events
  BY ConstantsAssumption DEF EnqueueConfirmed, Fault, NoFault, IInv, TypeOK
<1>1. /\ n \in Handler
      /\ n = Idle \/ /\ n.legs = req[r].legs /\ n.hash = req[r].hash
                     /\ n.confirmed = req[r].confirmed /\ n.pc = "enqueue"
                     /\ n.todo = req[r].todo \ {p} /\ n.stray = req[r].stray
  BY <1>0, RowTypes DEF Handler
<1> HIDE DEF n
<1>2. /\ events' \in [Payout -> Nat] /\ events[p] = 0 /\ events'[p] <= 1
      /\ \A q \in Payout \ {p} : events'[q] = events[q]
  BY <1>0 DEF HandlerOK, SentOK, ToAnnounce
<1>3. req'[r] = n /\ \A s \in Req \ {r} : req'[s] = req[s]
  BY <1>0 DEF IInv, TypeOK, Become
<1>4. /\ req[r].hash # None /\ req[r].hash \in Hash
      /\ tx[req[r].hash].state = "success" /\ p \in tx[req[r].hash].legs
  BY <1>0 DEF HandlerOK, Shape, SentOK, Handler
<1>5. HandlerOK(n, row, tx, events')
  <2>1. CASE n = Idle
    BY <2>1, IdleOK
  <2>2. CASE n # Idle
    <3>1. \A q \in Payout : /\ ~Owns(n, q) /\ ~Unsent(n, q) /\ ~ToRecord(n, q)
                            /\ ToAnnounce(n, q) => ToAnnounce(req[r], q) /\ q # p
      BY <1>0, <1>1, <2>2 DEF Owns, Unsent, ToRecord, ToAnnounce
    <3>2. Shape(n)
      BY <1>0, <1>1, <2>2 DEF HandlerOK, Shape
    <3> QED BY <1>0, <1>1, <1>2, <2>2, <3>1, <3>2 DEF HandlerOK, ClaimsOK, SentOK, SnapOK
  <2> QED BY <2>1, <2>2
<1>6. ASSUME NEW s \in Req, s # r PROVE HandlerOK(req[s], row, tx, events')
  <2>1. HandlerOK(req[s], row, tx, events) /\ req[s] \in Handler
    BY DEF IInv, TypeOK
  <2>2. ~ToAnnounce(req[s], p)
    <3>1. SUFFICES ASSUME ToAnnounce(req[s], p) PROVE FALSE
      OBVIOUS
    <3>2. /\ req[s].hash # None /\ req[s].hash \in Hash
          /\ p \in tx[req[s].hash].legs
      BY <2>1, <3>1 DEF HandlerOK, Shape, SentOK, ToAnnounce, Handler
    <3>3. req[s].hash = req[r].hash
      BY <1>4, <3>2 DEF IInv, PayoutOK
    <3> QED BY <1>4, <1>6, <3>3 DEF IInv, OneSender
  <2> QED BY <1>2, <2>1, <2>2 DEF HandlerOK, SentOK
<1>7. \A s \in Req : HandlerOK(req'[s], row', tx', events')
  BY <1>0, <1>3, <1>5, <1>6
<1>8. ASSUME NEW q \in Payout PROVE PayoutOK(q, row', tx', events')
  <2>1. PayoutOK(q, row, tx, events)
    BY DEF IInv
  <2>2. CASE q = p
    BY <1>0, <1>2, <1>4, <2>1, <2>2 DEF PayoutOK
  <2>3. CASE q # p
    BY <1>0, <1>2, <2>1, <2>3 DEF PayoutOK
  <2> QED BY <2>2, <2>3
<1>9. TypeOK' /\ NoTxNoLegs'
  BY <1>0, <1>1, <1>2 DEF IInv, TypeOK, NoTxNoLegs, Become
<1>10. OneOwner'
  <2>1. \A q \in Payout : ~Owns(n, q)
    BY <1>1, IdleOK DEF Owns
  <2> QED BY <1>3, <2>1 DEF IInv, OneOwner
<1>11. OneSender'
  <2>1. n.hash \in {None, req[r].hash}
    BY <1>1 DEF Idle
  <2> QED BY <1>3, <2>1 DEF IInv, OneSender
<1> QED BY <1>7, <1>8, <1>9, <1>10, <1>11 DEF IInv

\* What the chain does by itself: legs never change, success is final.
LEMMA ChainStep ==
  ASSUME IInv, row' = row, req' = req, events' = events, faults' = faults,
         crashes' = crashes, tx' \in [Hash -> Tx],
         \A k \in Hash : /\ tx'[k].legs = tx[k].legs
                         /\ tx'[k].state = "none" <=> tx[k].state = "none"
                         /\ tx[k].state = "success" => tx'[k].state = "success"
  PROVE  IInv'
<1>1. TypeOK' /\ NoTxNoLegs' /\ OneOwner' /\ OneSender'
  BY DEF IInv, TypeOK, NoTxNoLegs, OneOwner, OneSender
<1>2. ASSUME NEW r \in Req PROVE HandlerOK(req'[r], row', tx', events')
  <2>1. HandlerOK(req[r], row, tx, events) /\ req[r] \in Handler
    BY DEF IInv, TypeOK
  <2>2. ClaimsOK(req[r], row, tx')
    BY <2>1 DEF HandlerOK, ClaimsOK
  <2>3. SentOK(req[r], tx', events)
    BY <2>1 DEF HandlerOK, SentOK, Shape, Handler
  <2>4. SnapOK(req[r], row, tx')
    BY <2>1 DEF HandlerOK, SnapOK, ColumnsOK, Handler, Row
  <2> QED BY <2>1, <2>2, <2>3, <2>4 DEF HandlerOK
<1>3. ASSUME NEW p \in Payout PROVE PayoutOK(p, row', tx', events')
  <2>1. PayoutOK(p, row, tx, events) /\ row[p] \in Row
    BY DEF IInv, TypeOK
  <2> QED BY <2>1 DEF PayoutOK, ColumnsOK, Row
<1> QED BY <1>1, <1>2, <1>3 DEF IInv

\* Inclusion decides the state of a pending transaction.
LEMMA MineStep ==
  ASSUME IInv, NEW h \in Hash, Mine(h)
  PROVE  IInv'
<1>1. PICK s \in {"success", "reverted"} : tx' = [tx EXCEPT ![h].state = s]
  BY DEF Mine
<1>2. tx \in [Hash -> Tx] /\ tx[h].state = "pending"
  BY DEF IInv, TypeOK, Mine
<1>3. tx' \in [Hash -> Tx]
  BY <1>1, <1>2 DEF Tx
<1>4. \A k \in Hash : /\ tx'[k].legs = tx[k].legs
                      /\ tx'[k].state = "none" <=> tx[k].state = "none"
                      /\ tx[k].state = "success" => tx'[k].state = "success"
  BY <1>1, <1>2 DEF Tx
<1> QED BY <1>3, <1>4, ChainStep DEF Mine

\* A block only adds confirmations.
LEMMA NewBlockStep ==
  ASSUME IInv, NewBlock
  PROVE  IInv'
<1>1. tx \in [Hash -> Tx]
  BY DEF IInv, TypeOK
<1>2. ASSUME NEW k \in Hash
      PROVE  /\ tx'[k] \in Tx /\ tx'[k].legs = tx[k].legs
             /\ tx'[k].state = tx[k].state
  BY <1>1, ConstantsAssumption DEF NewBlock, Tx
<1>3. tx' \in [Hash -> Tx]
  BY <1>2 DEF NewBlock
<1> QED BY <1>2, <1>3, ChainStep DEF NewBlock

\* The send: every leg is owned by this handler alone and was never sent, so
\* the new transaction is the first that carries it.
LEMMA BroadcastStep ==
  ASSUME IInv, NEW r \in Req, NEW h \in Hash, Broadcast(r, h)
  PROVE  IInv'
<1> DEFINE L == req[r].legs
           go == [req[r] EXCEPT !.pc = IF WaitForReceipt THEN "receipt" ELSE "record",
                                !.todo = L, !.hash = h]
           lost == [req[r] EXCEPT !.pc = "catch", !.goal = "failed",
                                  !.todo = L, !.stray = {}]
<1>0. /\ row' = row /\ events' = events /\ req[r].pc = "send"
      /\ faults' \in 0 .. MaxFaults /\ crashes' \in 0 .. MaxCrashes
      /\ req[r] \in Handler /\ HandlerOK(req[r], row, tx, events)
      /\ tx \in [Hash -> Tx] /\ tx[h].state = "none"
  BY ConstantsAssumption DEF Broadcast, Fault, NoFault, IInv, TypeOK
<1>1. /\ tx' \in [Hash -> Tx] /\ tx'[h].state = "pending" /\ tx'[h].legs = L
      /\ \A k \in Hash \ {h} : tx'[k] = tx[k]
      /\ tx[h].legs = {}
  <2> DEFINE t == [NoTx EXCEPT !.state = "pending", !.legs = L]
  <2>0. L \in SUBSET Payout /\ 0 \in 0 .. MinConfirmations
    BY <1>0, ConstantsAssumption DEF Handler
  <2>1. t \in Tx /\ t.state = "pending" /\ t.legs = L
    BY <2>0 DEF NoTx, Tx
  <2>2. tx' = [tx EXCEPT ![h] = t]
    BY DEF Broadcast
  <2> HIDE DEF t, L
  <2>3. tx[h].legs = {}
    BY <1>0 DEF IInv, NoTxNoLegs
  <2> QED BY <1>0, <2>1, <2>2, <2>3
<1>2. /\ L \subseteq Payout /\ req[r].hash = None /\ ~req[r].confirmed
      /\ req[r].stray = {}
      /\ \A p \in L : /\ Owns(req[r], p)
                      /\ row[p].status = "authorized"
                      /\ \A k \in Hash : p \notin tx[k].legs
      /\ \A p \in Payout : Owns(req[r], p) <=> p \in L
  <2>1. \A p \in L : Owns(req[r], p) /\ Unsent(req[r], p)
    BY <1>0 DEF Owns, Unsent
  <2>2. \A p \in Payout : Owns(req[r], p) <=> p \in L
    BY <1>0 DEF Owns
  <2>3. L \subseteq Payout
    BY <1>0 DEF Handler
  <2>4. req[r].hash = None /\ ~req[r].confirmed /\ req[r].stray = {}
    BY <1>0 DEF HandlerOK, Shape
  <2> QED BY <1>0, <2>1, <2>2, <2>3, <2>4 DEF HandlerOK, ClaimsOK
<1>3. /\ go \in Handler /\ go.pc \in {"receipt", "record"} /\ go.legs = L
      /\ go.todo = L /\ go.hash = h /\ go.stray = {} /\ ~go.confirmed
  BY <1>0, <1>2, ConstantsAssumption DEF Handler, Place
<1>4. /\ lost \in Handler /\ lost.pc = "catch" /\ lost.legs = L /\ lost.todo = L
      /\ lost.hash = None /\ lost.stray = {} /\ ~lost.confirmed
      /\ lost.goal = "failed"
  BY <1>0, <1>2, ConstantsAssumption DEF Handler, Place
<1>5. Become(r, go) \/ Become(r, lost)
  BY DEF Broadcast, ToCatch, ErrorGoal
<1> HIDE DEF go, lost, L
<1>6. \A p \in L : events[p] = 0
  BY <1>2 DEF IInv, PayoutOK, TypeOK
<1>7. PICK n \in Handler :
        /\ Become(r, n) /\ n.hash \in {None, h}
        /\ \A p \in Payout : Owns(n, p) => Owns(req[r], p)
        /\ HandlerOK(n, row, tx', events)
  <2>1. CASE Become(r, go)
    <3>1. \A p \in Payout : /\ Owns(go, p) => p \in L
                            /\ ~Unsent(go, p)
                            /\ ToRecord(go, p) => p \in L
                            /\ ToAnnounce(go, p) => p \in L
      BY <1>3 DEF Owns, Unsent, ToRecord, ToAnnounce
    <3>2. Shape(go)
      BY <1>3, ConstantsAssumption DEF Shape
    <3>3. ClaimsOK(go, row, tx')
      BY <3>1, <1>2 DEF ClaimsOK
    <3>4. SentOK(go, tx', events) /\ SnapOK(go, row, tx')
      BY <3>1, <1>1, <1>3, <1>6 DEF SentOK, SnapOK
    <3> QED BY <2>1, <3>1, <3>2, <3>3, <3>4, <1>2, <1>3 DEF HandlerOK
  <2>2. CASE Become(r, lost)
    <3>1. \A p \in Payout : /\ Owns(lost, p) => p \in L
                            /\ ~Unsent(lost, p)
                            /\ ~ToRecord(lost, p) /\ ~ToAnnounce(lost, p)
      BY <1>4 DEF Owns, Unsent, ToRecord, ToAnnounce
    <3>2. Shape(lost)
      BY <1>4 DEF Shape
    <3>3. ClaimsOK(lost, row, tx')
      BY <3>1, <1>2 DEF ClaimsOK
    <3>4. SentOK(lost, tx', events) /\ SnapOK(lost, row, tx')
      BY <3>1, <1>4 DEF SentOK, SnapOK
    <3> QED BY <2>2, <3>1, <3>2, <3>3, <3>4, <1>2, <1>4 DEF HandlerOK
  <2> QED BY <1>5, <2>1, <2>2
<1>8. req'[r] = n /\ \A s \in Req \ {r} : req'[s] = req[s]
  BY <1>7 DEF IInv, TypeOK, Become
<1>9. ASSUME NEW s \in Req, s # r
      PROVE  HandlerOK(req[s], row, tx', events) /\ req[s].hash # h
  <2>1. HandlerOK(req[s], row, tx, events) /\ req[s] \in Handler
    BY DEF IInv, TypeOK
  <2>2. req[s].hash # h
    BY <1>0, <2>1, ConstantsAssumption DEF HandlerOK, SentOK
  <2>3. ClaimsOK(req[s], row, tx')
    <3>1. \A p \in Payout : Owns(req[s], p) => p \notin L
      BY <1>2, <1>9 DEF IInv, OneOwner
    <3>2. \A p \in Payout : Unsent(req[s], p) => Owns(req[s], p)
      BY DEF Unsent, Owns
    <3> QED BY <1>1, <2>1, <3>1, <3>2 DEF HandlerOK, ClaimsOK
  <2>4. SentOK(req[s], tx', events)
    BY <1>1, <2>1, <2>2 DEF HandlerOK, SentOK, Shape, Handler
  <2>5. SnapOK(req[s], row, tx')
    BY <1>0, <1>1, <2>1 DEF HandlerOK, SnapOK, ColumnsOK, Handler, Row
  <2> QED BY <2>1, <2>2, <2>3, <2>4, <2>5 DEF HandlerOK
<1>10. \A s \in Req : HandlerOK(req'[s], row', tx', events')
  BY <1>0, <1>7, <1>8, <1>9
<1>11. ASSUME NEW p \in Payout PROVE PayoutOK(p, row', tx', events')
  <2>1. PayoutOK(p, row, tx, events) /\ row[p] \in Row
    BY DEF IInv, TypeOK
  <2>2. ColumnsOK(row[p], tx')
    BY <1>0, <1>1, <2>1 DEF PayoutOK, ColumnsOK, Row
  <2>3. row[p].transactionHash # None =>
          p \in tx'[row[p].transactionHash].legs
    BY <1>1, <2>1 DEF PayoutOK, Row
  <2>4. CASE p \in L
    BY <1>0, <1>1, <1>2, <1>6, <2>1, <2>2, <2>3, <2>4 DEF PayoutOK
  <2>5. CASE p \notin L
    BY <1>0, <1>1, <2>1, <2>2, <2>3, <2>5 DEF PayoutOK
  <2> QED BY <2>4, <2>5
<1>12. TypeOK'
  BY <1>0, <1>1, <1>7 DEF IInv, TypeOK, Become
<1>13. NoTxNoLegs'
  BY <1>1 DEF IInv, NoTxNoLegs
<1>14. OneOwner'
  BY <1>7, <1>8 DEF IInv, OneOwner
<1>15. OneSender'
  BY <1>7, <1>8, <1>9 DEF IInv, OneSender
<1> QED BY <1>10, <1>11, <1>12, <1>13, <1>14, <1>15 DEF IInv

---------------------------------------------------------------------------
(* The theorems *)

\* The empty table satisfies the invariant.
LEMMA InitInv == Init => IInv
<1> SUFFICES ASSUME Init PROVE IInv
  OBVIOUS
<1>1. TypeOK
  BY RowTypes, ConstantsAssumption DEF Init, TypeOK, Tx, NoTx
<1>2. NoTxNoLegs
  BY DEF Init, NoTxNoLegs, NoTx
<1>3. OneOwner /\ OneSender
  BY IdleOK DEF Init, OneOwner, OneSender, Idle
<1>4. \A r \in Req : HandlerOK(req[r], row, tx, events)
  BY IdleOK DEF Init
<1>5. \A p \in Payout : PayoutOK(p, row, tx, events)
  BY DEF Init, PayoutOK, ColumnsOK, NoRow, NoTx
<1> QED BY <1>1, <1>2, <1>3, <1>4, <1>5 DEF IInv

\* Every step keeps the invariant.
LEMMA NextInv == IInv /\ [Next]_vars => IInv'
<1> SUFFICES ASSUME IInv, [Next]_vars PROVE IInv'
  OBVIOUS
<1>1. ASSUME NEW r \in Req, Start(r) PROVE IInv'
  BY <1>1, CreatePayoutStep, StartAuthorizeStep, StartReconcileStep,
     StartBatchStep DEF Start
<1>2. ASSUME NEW r \in Req, Continue(r) PROVE IInv'
  BY <1>2, AuthorizeReadStep, AuthorizeClaimStep, AuthorizeBalanceStep,
     BatchBalanceStep, SendFailsStep, AwaitReceiptStep, ReconcileQueryStep,
     ReconcileWriteStep, BatchReadStep, BatchClaimStep, RollbackStep,
     RecordLegStep, StrayRecordStep, EnqueueConfirmedStep, CatchLegStep,
     BroadcastStep DEF Continue
<1>3. ASSUME NEW r \in Req, Crash(r) PROVE IInv'
  BY <1>3, CrashStep
<1>4. ASSUME NEW h \in Hash, Mine(h) PROVE IInv'
  BY <1>4, MineStep
<1>5. CASE NewBlock
  BY <1>5, NewBlockStep
<1>6. CASE UNCHANGED vars
  <2>1. /\ row' = row /\ req' = req /\ tx' = tx /\ events' = events
        /\ faults' = faults /\ crashes' = crashes
    BY <1>6 DEF vars
  <2> QED BY <2>1, ChainStep DEF IInv, TypeOK
<1> QED BY <1>1, <1>2, <1>3, <1>4, <1>5, <1>6 DEF Next

\* The invariant holds in every reachable state.
LEMMA InductiveInvariant == Spec => []IInv
BY InitInv, NextInv, PTL DEF Spec

\* Every reachable state of the table, the handlers and the chain is well
\* typed.
THEOREM TypeCorrect == Spec => []TypeOK
<1>1. IInv => TypeOK
  BY DEF IInv
<1> QED BY <1>1, InductiveInvariant, PTL

\* However many requests race on a payout, at most one transaction ever
\* carries it (the claim in authorizePayout and authorizePayoutBatch).
THEOREM NeverBroadcastTwice == Spec => []AtMostOneBroadcast
<1>1. IInv => AtMostOneBroadcast
  BY DEF IInv, PayoutOK, AtMostOneBroadcast, Carrying
<1> QED BY <1>1, InductiveInvariant, PTL

\* A payout that can be claimed was never sent: releasing a claim is safe.
THEOREM ClaimableWasNeverSent == Spec => []RetryableUnsent
<1>1. IInv => RetryableUnsent
  BY DEF IInv, PayoutOK, RetryableUnsent, Carrying
<1> QED BY <1>1, InductiveInvariant, PTL

\* A confirmed payout was paid by the transaction on its row, although
\* reconcilePayout writes without a guard what it decided from an older read.
THEOREM ConfirmedWasPaid == Spec => []ConfirmedMeansPaid
<1>1. IInv => ConfirmedMeansPaid
  BY DEF IInv, TypeOK, Row, PayoutOK, ColumnsOK, ConfirmedMeansPaid, Carrying
<1> QED BY <1>1, InductiveInvariant, PTL

\* payout.confirmed is enqueued at most once, and only for a paid payout.
THEOREM AnnouncedOnceAndPaid == Spec => []EventsTruthful
<1>1. IInv => EventsTruthful
  BY DEF IInv, PayoutOK, EventsTruthful, Carrying
<1> QED BY <1>1, InductiveInvariant, PTL

\* Only the handler that claimed a payout can send, record or release it.
THEOREM ClaimIsExclusive == Spec => []ExclusiveClaim
<1>1. ASSUME IInv PROVE ExclusiveClaim
  <2> SUFFICES ASSUME NEW r \in Req, NEW s \in Req, NEW p \in Payout, Holds(r, p)
               PROVE  /\ row[p].status = "authorized"
                      /\ Holds(s, p) => r = s
    BY DEF ExclusiveClaim
  <2>1. ASSUME NEW q \in Req, Holds(q, p) PROVE Owns(req[q], p)
    BY <2>1 DEF Holds, Owns
  <2>2. Unsent(req[r], p) \/ ToRecord(req[r], p)
    BY <1>1 DEF Holds, Unsent, ToRecord, IInv, HandlerOK, Shape
  <2> QED BY <1>1, <2>1, <2>2 DEF IInv, OneOwner, HandlerOK, ClaimsOK
<1> QED BY <1>1, InductiveInvariant, PTL

\* The columns written by authorize, its catch block and reconcile agree.
THEOREM ColumnsAgree == Spec => []RowCoherent
<1>1. IInv => RowCoherent
  BY DEF IInv, PayoutOK, ColumnsOK, RowCoherent
<1> QED BY <1>1, InductiveInvariant, PTL

\* The hash of p on its row stays once it is there.
HashKept(p) ==
  row[p].transactionHash # None => row'[p].transactionHash = row[p].transactionHash

\* The hash that a client was told is never replaced: only a row that is still
\* authorized gets one, and reconcilePayout writes none.
THEOREM HashIsFinal == Spec => HashWrittenOnce
<1>1. ASSUME IInv, Next, NEW p \in Payout
      PROVE  HashKept(p)
  <2>1. row \in [Payout -> Row]
    BY <1>1 DEF IInv, TypeOK
  <2>2. row[p].status \in {"absent", "prepared", "authorized"} => row[p].transactionHash = None
    BY <1>1 DEF IInv, PayoutOK, ColumnsOK
  <2>3. ASSUME row' = row PROVE HashKept(p)
    BY <2>3 DEF HashKept
  <2>4. ASSUME NEW r \in Req, NEW q \in Payout, CreatePayout(r, q)
        PROVE  HashKept(p)
    BY <2>1, <2>2, <2>4 DEF CreatePayout, HashKept
  <2>5. ASSUME NEW r \in Req, AuthorizeClaim(r)
        PROVE  HashKept(p)
    BY <2>1, <2>5 DEF AuthorizeClaim, HashKept, Row
  <2>6. ASSUME NEW r \in Req, NEW q \in Payout,
               BatchClaim(r, q) \/ Rollback(r, q) \/ CatchLeg(r, q)
        PROVE  HashKept(p)
    BY <2>1, <2>6 DEF BatchClaim, Rollback, CatchLeg, HashKept, Row
  <2>7. ASSUME NEW r \in Req, NEW q \in Payout, RecordLeg(r, q) \/ StrayRecord(r, q)
        PROVE  HashKept(p)
    <3>1. \/ row' = row
          \/ \E c : row' = [row EXCEPT ![q] = c] /\ row[q].status = "authorized"
      BY <2>7 DEF RecordLeg, StrayRecord, RecordMatches
    <3> QED BY <3>1, <2>1, <2>2 DEF HashKept
  <2>8. ASSUME NEW r \in Req, ReconcileWrite(r)
        PROVE  HashKept(p)
    BY <2>1, <2>8 DEF ReconcileWrite, HashKept, Row
  <2>9. ASSUME NEW r \in Req, Start(r) PROVE HashKept(p)
    <3>1. ASSUME NEW q \in Payout, StartAuthorize(r, q) \/ StartReconcile(r, q)
          PROVE  row' = row
      BY <3>1 DEF StartAuthorize, StartReconcile
    <3>2. ASSUME NEW legs, StartBatch(r, legs) PROVE row' = row
      BY <3>2 DEF StartBatch
    <3> QED BY <2>3, <2>4, <2>9, <3>1, <3>2 DEF Start
  <2>10. ASSUME NEW r \in Req, Continue(r) PROVE HashKept(p)
    <3>1. ASSUME \/ AuthorizeRead(r) \/ AuthorizeBalance(r) \/ BatchBalance(r) \/ SendFails(r)
                 \/ AwaitReceipt(r) \/ ReconcileQuery(r)
                 \/ \E q \in Payout : BatchRead(r, q) \/ EnqueueConfirmed(r, q)
                 \/ \E h \in Hash : Broadcast(r, h)
          PROVE  row' = row
      BY <3>1 DEF AuthorizeRead, AuthorizeBalance, BatchBalance, SendFails, AwaitReceipt,
                  ReconcileQuery, BatchRead, EnqueueConfirmed, Broadcast
    <3> QED BY <2>3, <2>5, <2>6, <2>7, <2>8, <2>10, <3>1 DEF Continue
  <2>11. ASSUME \/ \E r \in Req : Crash(r)
                \/ \E h \in Hash : Mine(h)
                \/ NewBlock
         PROVE  HashKept(p)
    <3>1. row' = row
      BY <2>11 DEF Crash, Mine, NewBlock
    <3> QED BY <3>1, <2>3
  <2> QED BY <1>1, <2>9, <2>10, <2>11 DEF Next
<1>2. IInv /\ [Next]_vars => [\A p \in Payout : HashKept(p)]_vars
  BY <1>1
<1> QED BY <1>2, InductiveInvariant, PTL DEF Spec, HashWrittenOnce, HashKept

---------------------------------------------------------------------------
(* The refinement of PayOnce *)

\* The refinement mapping, for the chain t and the events ev.
FateIn(t, p) ==
  IF \A h \in Hash : p \notin t[h].legs THEN "unsent"
  ELSE IF \E h \in Hash : p \in t[h].legs /\ t[h].state = "success" THEN "paid"
  ELSE IF \E h \in Hash : p \in t[h].legs /\ t[h].state = "reverted" THEN "bounced"
  ELSE "pending"
Fates(t) == [p \in Payout |-> FateIn(t, p)]
Groups(t) ==
  [p \in Payout |-> {q \in Payout : \E h \in Hash : p \in t[h].legs /\ q \in t[h].legs}]
Announced(ev) == {p \in Payout : ev[p] > 0}

\* It is the one that Payouts states.
LEMMA Mapping ==
  /\ [p \in Payout |-> Fate(p)] = Fates(tx)
  /\ [p \in Payout |-> {q \in Payout : \E h \in Carrying(p) : q \in tx[h].legs}] = Groups(tx)
  /\ {p \in Payout : events[p] > 0} = Announced(events)
  /\ [p \in Payout |-> Fate(p)]' = Fates(tx')
  /\ [p \in Payout |-> {q \in Payout : \E h \in Carrying(p) : q \in tx[h].legs}]' = Groups(tx')
  /\ {p \in Payout : events[p] > 0}' = Announced(events')
<1>1. ASSUME NEW p PROVE Fate(p) = FateIn(tx, p) /\ Fate(p)' = FateIn(tx', p)
  BY DEF Fate, FateIn, Carrying
<1> QED BY <1>1 DEF Fates, Groups, Announced, Carrying

\* A payout that one transaction carries has its fate and its legs.
LEMMA FateCarried ==
  ASSUME NEW t \in [Hash -> Tx], NEW p \in Payout, NEW h \in Hash, p \in t[h].legs,
         \A k \in Hash : p \in t[k].legs => k = h
  PROVE  /\ Fates(t)[p] = IF t[h].state = "success" THEN "paid"
                          ELSE IF t[h].state = "reverted" THEN "bounced"
                          ELSE "pending"
         /\ Groups(t)[p] = t[h].legs
<1>1. Groups(t)[p] = t[h].legs
  BY DEF Groups, Tx
<1> QED BY <1>1 DEF Fates, FateIn

\* A payout without a transaction.
LEMMA FateUncarried ==
  ASSUME NEW t, NEW p \in Payout, \A k \in Hash : p \notin t[k].legs
  PROVE  Fates(t)[p] = "unsent" /\ Groups(t)[p] = {}
BY DEF Fates, FateIn, Groups

\* A change that a payout does not see: neither the legs of its transactions
\* nor their outcomes.
LEMMA FateSame ==
  ASSUME NEW t, NEW u, NEW p \in Payout,
         \A k \in Hash : p \in t[k].legs <=> p \in u[k].legs,
         \A k \in Hash : p \in t[k].legs => u[k].legs = t[k].legs /\ u[k].state = t[k].state
  PROVE  Fates(u)[p] = Fates(t)[p] /\ Groups(u)[p] = Groups(t)[p]
<1>1. Groups(u)[p] = Groups(t)[p]
  BY DEF Groups
<1> QED BY <1>1 DEF Fates, FateIn

\* The three actions of PayOnce and its stutter, through the mapping.
Sends(P) ==
  /\ P # {}
  /\ \A p \in P : Fates(tx)[p] = "unsent"
  /\ \A p \in Payout : /\ Fates(tx')[p] = IF p \in P THEN "pending" ELSE Fates(tx)[p]
                       /\ Groups(tx')[p] = IF p \in P THEN P ELSE Groups(tx)[p]
  /\ events' = events
Settles(p, outcome) ==
  /\ Fates(tx)[p] = "pending"
  /\ \A q \in Payout : /\ Fates(tx')[q] = IF q \in Groups(tx)[p] THEN outcome ELSE Fates(tx)[q]
                       /\ Groups(tx')[q] = Groups(tx)[q]
  /\ events' = events
Announces(p) ==
  /\ Fates(tx)[p] = "paid"
  /\ p \notin Announced(events)
  /\ Announced(events') = Announced(events) \cup {p}
  /\ tx' = tx
Unseen ==
  /\ \A p \in Payout : Fates(tx')[p] = Fates(tx)[p] /\ Groups(tx')[p] = Groups(tx)[p]
  /\ events' = events

Allowed ==
  \/ \E P \in SUBSET Payout : Sends(P)
  \/ \E p \in Payout : \E outcome \in {"paid", "bounced"} : Settles(p, outcome)
  \/ \E p \in Payout : Announces(p)
  \/ Unseen

\* What they allow, PayOnce allows.
LEMMA AllowedIsPayOnce ==
  ASSUME Allowed
  PROVE  [Abstract!Next]_(Abstract!vars)
<1>1. ASSUME NEW P \in SUBSET Payout, Sends(P)
      PROVE  Abstract!Send(P)
  <2>1. Fates(tx') = [p \in Payout |-> IF p \in P THEN "pending" ELSE Fates(tx)[p]]
    BY <1>1 DEF Sends, Fates
  <2>2. Groups(tx') = [p \in Payout |-> IF p \in P THEN P ELSE Groups(tx)[p]]
    BY <1>1 DEF Sends, Groups
  <2>3. Announced(events') = Announced(events)
    BY <1>1 DEF Sends
  <2> QED BY <1>1, <2>1, <2>2, <2>3, Mapping DEF Sends, Abstract!Send
<1>2. ASSUME NEW p \in Payout, NEW outcome \in {"paid", "bounced"}, Settles(p, outcome)
      PROVE  Abstract!Settle(p, outcome)
  <2>1. Fates(tx') = [q \in Payout |-> IF q \in Groups(tx)[p] THEN outcome ELSE Fates(tx)[q]]
    BY <1>2 DEF Settles, Fates
  <2>2. Groups(tx') = Groups(tx)
    BY <1>2 DEF Settles, Groups
  <2>3. Announced(events') = Announced(events)
    BY <1>2 DEF Settles
  <2> QED BY <1>2, <2>1, <2>2, <2>3, Mapping DEF Settles, Abstract!Settle
<1>3. ASSUME NEW p \in Payout, Announces(p)
      PROVE  Abstract!Announce(p)
  BY <1>3, Mapping DEF Announces, Abstract!Announce
<1>4. ASSUME Unseen
      PROVE  UNCHANGED Abstract!vars
  <2>1. Fates(tx') = Fates(tx)
    BY <1>4 DEF Unseen, Fates
  <2>2. Groups(tx') = Groups(tx)
    BY <1>4 DEF Unseen, Groups
  <2>3. Announced(events') = Announced(events)
    BY <1>4 DEF Unseen
  <2> QED BY <2>1, <2>2, <2>3, Mapping DEF Abstract!vars
<1> QED BY <1>1, <1>2, <1>3, <1>4 DEF Allowed, Abstract!Next

\* A broadcast sends the legs of the handler, none of which was sent before.
LEMMA BroadcastSends ==
  ASSUME IInv, NEW r \in Req, NEW h \in Hash, Broadcast(r, h)
  PROVE  Allowed
<1>1. PICK L \in SUBSET Payout : L = req[r].legs
  BY DEF IInv, TypeOK, Handler
<1>2. /\ req[r].pc = "send" /\ tx[h].state = "none" /\ tx[h].legs = {}
      /\ tx' = [tx EXCEPT ![h] = [NoTx EXCEPT !.state = "pending", !.legs = L]]
      /\ events' = events
  BY <1>1 DEF Broadcast, IInv, NoTxNoLegs
<1>3. tx \in [Hash -> Tx] /\ tx' \in [Hash -> Tx]
  <2>1. PICK x : x = [NoTx EXCEPT !.state = "pending", !.legs = L]
    OBVIOUS
  <2>2. x \in Tx
    <3> HIDE <1>1
    <3>1. x = [state |-> "pending", legs |-> L, depth |-> 0]
      BY <2>1 DEF NoTx
    <3>2. 0 \in 0 .. MinConfirmations
      BY ConstantsAssumption
    <3> QED BY <3>1, <3>2 DEF Tx
  <2>3. tx \in [Hash -> Tx]
    BY DEF IInv, TypeOK
  <2> QED BY <1>2, <2>1, <2>2, <2>3
<1>4. /\ tx'[h].state = "pending" /\ tx'[h].legs = L
      /\ \A k \in Hash : k # h => tx'[k] = tx[k]
  BY <1>2, <1>3 DEF NoTx
<1>5. ASSUME NEW p \in L
      PROVE  \A k \in Hash : p \notin tx[k].legs
  <2>1. Unsent(req[r], p)
    BY <1>1, <1>2, <1>5 DEF Unsent
  <2>2. ClaimsOK(req[r], row, tx)
    BY DEF IInv, HandlerOK
  <2> QED BY <2>1, <2>2, <1>1, <1>5 DEF ClaimsOK
<1>6. ASSUME NEW p \in L
      PROVE  /\ Fates(tx)[p] = "unsent"
             /\ Fates(tx')[p] = "pending" /\ Groups(tx')[p] = L
  <2>1. \A k \in Hash : p \in tx'[k].legs => k = h
    BY <1>4, <1>5
  <2>2. Fates(tx)[p] = "unsent"
    BY <1>5, <1>6, FateUncarried
  <2> QED BY <2>1, <2>2, <1>3, <1>4, FateCarried
<1>7. ASSUME NEW p \in Payout, p \notin L
      PROVE  Fates(tx')[p] = Fates(tx)[p] /\ Groups(tx')[p] = Groups(tx)[p]
  <2>1. \A k \in Hash : p \in tx[k].legs <=> p \in tx'[k].legs
    BY <1>2, <1>4, <1>7
  <2>2. \A k \in Hash : p \in tx[k].legs => tx'[k].legs = tx[k].legs /\ tx'[k].state = tx[k].state
    BY <1>2, <1>4
  <2> QED BY <2>1, <2>2, FateSame
<1>8. CASE L = {}
  BY <1>2, <1>7, <1>8 DEF Allowed, Unseen
<1>9. CASE L # {}
  <2>1. Sends(L)
    <3> HIDE <1>1
    <3> QED BY <1>2, <1>6, <1>7, <1>9 DEF Sends
  <2> QED BY <2>1 DEF Allowed
<1> QED BY <1>8, <1>9

\* A transaction that is included settles all of its legs, and only them.
LEMMA MineSettles ==
  ASSUME IInv, NEW h \in Hash, Mine(h)
  PROVE  Allowed
<1>1. PICK s \in {"success", "reverted"} : tx' = [tx EXCEPT ![h].state = s]
  BY DEF Mine
<1>2. tx[h].state = "pending" /\ events' = events /\ tx \in [Hash -> Tx]
  BY DEF Mine, IInv, TypeOK
<1>3. /\ tx'[h].state = s /\ tx'[h].legs = tx[h].legs
      /\ \A k \in Hash : k # h => tx'[k] = tx[k]
      /\ tx' \in [Hash -> Tx]
  BY <1>1, <1>2 DEF Tx
<1>4. ASSUME NEW p \in Payout, p \notin tx[h].legs
      PROVE  Fates(tx')[p] = Fates(tx)[p] /\ Groups(tx')[p] = Groups(tx)[p]
  <2>1. \A k \in Hash : p \in tx[k].legs <=> p \in tx'[k].legs
    BY <1>3
  <2>2. \A k \in Hash : p \in tx[k].legs => tx'[k].legs = tx[k].legs /\ tx'[k].state = tx[k].state
    BY <1>3, <1>4
  <2> QED BY <2>1, <2>2, FateSame
<1>5. PICK outcome \in {"paid", "bounced"} :
        outcome = IF s = "success" THEN "paid" ELSE "bounced"
  OBVIOUS
<1>6. ASSUME NEW p \in Payout, p \in tx[h].legs
      PROVE  /\ Fates(tx)[p] = "pending" /\ Groups(tx)[p] = tx[h].legs
             /\ Fates(tx')[p] = outcome /\ Groups(tx')[p] = tx[h].legs
  <2>1. \A k \in Hash : p \in tx[k].legs => k = h
    BY <1>6 DEF IInv, PayoutOK
  <2>2. \A k \in Hash : p \in tx'[k].legs => k = h
    BY <2>1, <1>3
  <2>3. Fates(tx)[p] = "pending" /\ Groups(tx)[p] = tx[h].legs
    BY <2>1, <1>2, <1>6, FateCarried
  <2>4. Fates(tx')[p] = outcome /\ Groups(tx')[p] = tx[h].legs
    <3>1. PICK t \in [Hash -> Tx] : t = tx'
      BY <1>3
    <3>2. /\ p \in t[h].legs /\ t[h].state = s /\ t[h].legs = tx[h].legs
          /\ \A k \in Hash : p \in t[k].legs => k = h
      BY <3>1, <2>2, <1>3, <1>6
    <3>3. Fates(t)[p] = outcome /\ Groups(t)[p] = tx[h].legs
      <4> HIDE <3>1, <1>1
      <4> QED BY <3>2, <1>5, FateCarried
    <3> QED BY <3>1, <3>3
  <2> QED BY <2>3, <2>4
<1>7. CASE tx[h].legs = {}
  BY <1>2, <1>4, <1>7 DEF Allowed, Unseen
<1>8. CASE tx[h].legs # {}
  <2>1. PICK p \in Payout : p \in tx[h].legs
    BY <1>2, <1>8 DEF Tx
  <2>2. Groups(tx)[p] = tx[h].legs /\ Fates(tx)[p] = "pending"
    BY <1>6, <2>1
  <2>3. Settles(p, outcome)
    BY <1>2, <1>4, <1>6, <2>2 DEF Settles
  <2> QED BY <2>1, <2>3 DEF Allowed
<1> QED BY <1>7, <1>8

\* A block on top of others changes no fate.
LEMMA NewBlockUnseen ==
  ASSUME IInv, NewBlock
  PROVE  Allowed
<1>1. tx \in [Hash -> Tx] /\ events' = events
  BY DEF NewBlock, IInv, TypeOK
<1>2. \A k \in Hash : tx'[k].legs = tx[k].legs /\ tx'[k].state = tx[k].state
  BY <1>1 DEF NewBlock, Tx
<1>3. ASSUME NEW p \in Payout
      PROVE  Fates(tx')[p] = Fates(tx)[p] /\ Groups(tx')[p] = Groups(tx)[p]
  BY <1>2, FateSame
<1> QED BY <1>1, <1>3 DEF Allowed, Unseen

\* An event is the first of its payout, and its payout is paid.
LEMMA EnqueueAnnounces ==
  ASSUME IInv, IInv', NEW r \in Req, NEW p \in Payout, EnqueueConfirmed(r, p)
  PROVE  Allowed
<1>1. tx' = tx /\ tx \in [Hash -> Tx] /\ events \in [Payout -> Nat]
  BY DEF EnqueueConfirmed, IInv, TypeOK
<1>2. CASE events' = events
  BY <1>1, <1>2 DEF Allowed, Unseen
<1>3. CASE events' = [events EXCEPT ![p] = @ + 1]
  <2>1. events'[p] = events[p] + 1 /\ events[p] \in Nat
    BY <1>1, <1>3
  <2>2. PayoutOK(p, row', tx', events')
    BY DEF IInv
  <2>3. events'[p] <= 1
    BY <2>2 DEF PayoutOK
  <2>4. events[p] = 0 /\ events'[p] > 0
    BY <2>1, <2>3
  <2>5. PICK k \in Hash : p \in tx[k].legs /\ tx[k].state = "success"
    BY <2>2, <2>4, <1>1 DEF PayoutOK
  <2>6. \A l \in Hash : p \in tx[l].legs => l = k
    BY <2>5 DEF IInv, PayoutOK
  <2>7. Fates(tx)[p] = "paid"
    BY <2>5, <2>6, <1>1, FateCarried
  <2>8. p \notin Announced(events)
    BY <2>4 DEF Announced
  <2>9. Announced(events') = Announced(events) \cup {p}
    BY <1>1, <1>3, <2>4 DEF Announced
  <2> QED BY <1>1, <2>7, <2>8, <2>9 DEF Allowed, Announces
<1> QED BY <1>2, <1>3 DEF EnqueueConfirmed

\* Every step of the service is one that PayOnce allows.
LEMMA StepAllowed ==
  ASSUME IInv, IInv', [Next]_vars
  PROVE  Allowed
<1>1. ASSUME tx' = tx, events' = events PROVE Allowed
  BY <1>1 DEF Allowed, Unseen
<1>2. ASSUME NEW r \in Req, Start(r) \/ Crash(r) PROVE Allowed
  <2>1. tx' = tx /\ events' = events
    BY <1>2 DEF Start, Crash, CreatePayout, StartAuthorize, StartReconcile, StartBatch
  <2> QED BY <2>1, <1>1
<1>3. ASSUME NEW r \in Req, Continue(r) PROVE Allowed
  <2>1. ASSUME \/ AuthorizeRead(r) \/ AuthorizeClaim(r) \/ AuthorizeBalance(r)
               \/ BatchBalance(r) \/ SendFails(r) \/ AwaitReceipt(r)
               \/ ReconcileQuery(r) \/ ReconcileWrite(r)
        PROVE  tx' = tx /\ events' = events
    BY <2>1 DEF AuthorizeRead, AuthorizeClaim, AuthorizeBalance, BatchBalance, SendFails,
                AwaitReceipt, ReconcileQuery, ReconcileWrite
  <2>2. ASSUME NEW p \in Payout,
               \/ BatchRead(r, p) \/ BatchClaim(r, p) \/ Rollback(r, p) \/ RecordLeg(r, p)
               \/ StrayRecord(r, p) \/ CatchLeg(r, p)
        PROVE  tx' = tx /\ events' = events
    BY <2>2 DEF BatchRead, BatchClaim, Rollback, RecordLeg, StrayRecord, CatchLeg
  <2>3. ASSUME NEW p \in Payout, EnqueueConfirmed(r, p) PROVE Allowed
    BY <2>3, EnqueueAnnounces
  <2>4. ASSUME NEW h \in Hash, Broadcast(r, h) PROVE Allowed
    BY <2>4, BroadcastSends
  <2> QED BY <1>1, <1>3, <2>1, <2>2, <2>3, <2>4 DEF Continue
<1>4. ASSUME NEW h \in Hash, Mine(h) PROVE Allowed
  BY <1>4, MineSettles
<1>5. CASE NewBlock
  BY <1>5, NewBlockUnseen
<1>6. CASE UNCHANGED vars
  BY <1>1, <1>6 DEF vars
<1> QED BY <1>2, <1>3, <1>4, <1>5, <1>6 DEF Next

\* Nothing is sent, settled or announced in the beginning.
LEMMA InitAllowed ==
  ASSUME Init
  PROVE  Abstract!Init
<1>1. \A h \in Hash : tx[h].legs = {}
  BY DEF Init, NoTx
<1>2. ASSUME NEW p \in Payout
      PROVE  Fates(tx)[p] = "unsent" /\ Groups(tx)[p] = {}
  BY <1>1, FateUncarried
<1>3. Fates(tx) = [p \in Payout |-> "unsent"]
  BY <1>2 DEF Fates
<1>4. Groups(tx) = [p \in Payout |-> {}]
  BY <1>2 DEF Groups
<1>5. Announced(events) = {}
  BY DEF Init, Announced
<1> QED BY <1>3, <1>4, <1>5, Mapping DEF Abstract!Init

\* The payout rail implements PayOnce: whatever handlers race, fail, die or
\* write late, a payout leaves the treasury at most once, together with the
\* legs it was sent with, and is announced once and only when it was paid.
THEOREM RailImplementsPayOnce == Spec => ImplementsPayOnce
<1>1. Init => Abstract!Init
  BY InitAllowed
<1>2. IInv /\ IInv' /\ [Next]_vars => [Abstract!Next]_(Abstract!vars)
  BY StepAllowed, AllowedIsPayOnce
<1> QED BY <1>1, <1>2, InductiveInvariant, PTL DEF Spec, ImplementsPayOnce, Abstract!Spec

=============================================================================
