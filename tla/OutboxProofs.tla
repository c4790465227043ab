---------------------------- MODULE OutboxProofs ----------------------------
(***************************************************************************)
(* Proofs about Outbox: how often a row is claimed and an event taken in   *)
(* is bounded by the recoveries and the errors, a row that is delivering   *)
(* has its dispatcher, and what is called delivered was received.  How     *)
(* often an event is posted has a budget of its own, at the end.           *)
(***************************************************************************)
EXTENDS Outbox, FiniteSetTheorems, TLAPS

---------------------------------------------------------------------------
(* The inductive invariant *)

Working == {"post", "setDelivered", "setFailed", "setSkipped", "reschedule"}

\* A dispatcher works on a row it has claimed.
ProcessOK(p) ==
  /\ p.pc \in Working => p.cur \in p.rows
  /\ p.pc \in {"logDelivered", "logFailed"} => p.cur \in Event
  /\ p.pc \in {"idle", "claim"} => p.rows = {}

ProcessesOK == \A d \in Dispatcher : ProcessOK(disp[d])

\* Nobody has anything to do with an event before it is enqueued.
AbsentUntouched ==
  \A e \in Event :
    row[e].status = "absent" =>
      received[e] = 0 /\ \A d \in Dispatcher : ~Holds(d, e)

\* A dispatcher that has the 2xx in hand.
AnsweredReceived ==
  \A d \in Dispatcher :
    disp[d].pc \in {"setDelivered", "logDelivered"} => received[disp[d].cur] > 0

\* The claims under which the event can still be taken in: all but those
\* whose POST was answered.
Unanswered(p, e) == e \in p.rows /\ ~(p.pc = "setDelivered" /\ p.cur = e)
OpenClaims(e) == {d \in Dispatcher : Unanswered(disp[d], e)}

Pending(e) == IF row[e].status = "pending" THEN 1 ELSE 0

\* ReceivedBounded is not inductive: an event that may still be taken in has
\* to be paid for in advance.
ReceiptBudget ==
  \A e \in Event :
    received[e] + Cardinality(OpenClaims(e)) + Pending(e)
      <= 1 + recoveries[e] + errors

IInv ==
  /\ TypeOK
  /\ ProcessesOK
  /\ AbsentUntouched
  /\ ClaimsBounded
  /\ ReceiptBudget
  /\ AnsweredReceived
  /\ DeliveredWasReceived
  /\ NoOrphans

---------------------------------------------------------------------------
(* Lemmas about sets and processes *)

\* Two sets of dispatchers that differ at most in d differ by at most one.
LEMMA CountChange ==
  ASSUME NEW A \in SUBSET Dispatcher, NEW B \in SUBSET Dispatcher,
         NEW d \in Dispatcher, A \ {d} = B \ {d}
  PROVE  /\ Cardinality(A) \in Nat /\ Cardinality(B) \in Nat
         /\ Cardinality(B) + (IF d \in A THEN 1 ELSE 0)
              = Cardinality(A) + (IF d \in B THEN 1 ELSE 0)
  <1>1. IsFiniteSet(A) /\ IsFiniteSet(B)
    BY OutboxAssumption, FS_Subset
  <1>2. Cardinality(A) \in Nat /\ Cardinality(B) \in Nat
    BY <1>1, FS_CardinalityType
  <1>3. Cardinality(A \ {d}) = IF d \in A THEN Cardinality(A) - 1 ELSE Cardinality(A)
    BY <1>1, FS_RemoveElement
  <1>4. Cardinality(B \ {d}) = IF d \in B THEN Cardinality(B) - 1 ELSE Cardinality(B)
    BY <1>1, FS_RemoveElement
  <1> QED BY <1>2, <1>3, <1>4

\* Sets of dispatchers have a cardinality.
LEMMA Countable ==
  ASSUME NEW e
  PROVE  Cardinality(Holders(e)) \in Nat /\ Cardinality(OpenClaims(e)) \in Nat
  <1>1. Holders(e) \in SUBSET Dispatcher /\ OpenClaims(e) \in SUBSET Dispatcher
    BY DEF Holders, OpenClaims
  <1>2. IsFiniteSet(Holders(e)) /\ IsFiniteSet(OpenClaims(e))
    BY <1>1, OutboxAssumption, FS_Subset
  <1> QED BY <1>2, FS_CardinalityType

\* An idle process holds nothing.
LEMMA IdleFacts ==
  /\ Idle \in Process /\ ProcessOK(Idle)
  /\ Idle.pc = "idle" /\ Idle.rows = {}
  BY DEF Idle, Process, Place, ProcessOK, Working

\* The loop goes on with the rows that are left.
LEMMA ResumeFacts ==
  ASSUME NEW p \in Process
  PROVE  /\ Resume(p) \in Process
         /\ Resume(p).rows = p.rows
         /\ Resume(p).pc \in {"idle", "lookup"}
         /\ ProcessOK(Resume(p))
  <1>1. CASE p.rows = {}
    BY <1>1, IdleFacts DEF Resume
  <1>2. CASE p.rows # {}
    BY <1>2 DEF Resume, Process, Place, ProcessOK, Working
  <1> QED BY <1>1, <1>2

\* A row that was dealt with is not held any more.
LEMMA WithoutFacts ==
  ASSUME NEW p \in Process, p.cur \in Event
  PROVE  /\ Without(p) \in Process
         /\ Without(p).rows = p.rows \ {p.cur}
         /\ Without(p).cur = p.cur
         /\ \A l \in Place : /\ [Without(p) EXCEPT !.pc = l] \in Process
                             /\ [Without(p) EXCEPT !.pc = l].pc = l
                             /\ [Without(p) EXCEPT !.pc = l].cur = p.cur
                             /\ [Without(p) EXCEPT !.pc = l].rows = p.rows \ {p.cur}
  BY DEF Without, Process

\* A process that only moves keeps what it holds.
LEMMA MovedFacts ==
  ASSUME NEW p \in Process, NEW l \in Place
  PROVE  /\ [p EXCEPT !.pc = l] \in Process
         /\ [p EXCEPT !.pc = l].pc = l
         /\ [p EXCEPT !.pc = l].cur = p.cur
         /\ [p EXCEPT !.pc = l].rows = p.rows
  BY DEF Process

---------------------------------------------------------------------------
(* What a step of a dispatcher has to respect *)

\* What a process counts for in ClaimsBounded and in ReceiptBudget.
Claims(p, e) == IF e \in p.rows THEN 1 ELSE 0
Opens(p, e) == IF Unanswered(p, e) THEN 1 ELSE 0

\* Dispatcher d becomes p, and every event is worse off nowhere.
Respects(d, p) ==
  /\ p \in Process
  /\ ProcessOK(p)
  /\ disp' = [disp EXCEPT ![d] = p]
  /\ errors <= errors'
  /\ p.pc \in {"setDelivered", "logDelivered"} => received'[p.cur] > 0
  /\ \A e \in Event :
       /\ Claims(p, e) + Pending(e)' + recoveries[e]
            <= Claims(disp[d], e) + Pending(e) + recoveries'[e]
       /\ Opens(p, e) + Pending(e)' + received'[e] + recoveries[e] + errors
            <= Opens(disp[d], e) + Pending(e) + received[e] + recoveries'[e] + errors'
       /\ row'[e].status = "absent" =>
            row[e].status = "absent" /\ received'[e] = 0 /\ e \notin p.rows
       /\ received[e] <= received'[e]
       /\ row'[e].status = "delivered" \/ "success" \in log'[e] =>
            \/ row[e].status = "delivered" \/ "success" \in log[e]
            \/ received'[e] > 0
       /\ row'[e].status = "delivering" /\ errors' = 0 =>
            \/ e \in p.rows
            \/ row[e].status = "delivering" /\ e \notin disp[d].rows

\* Such a step preserves the invariant.
LEMMA RespectfulStep ==
  ASSUME IInv, TypeOK', NEW d \in Dispatcher, NEW p, Respects(d, p)
  PROVE  IInv'
  <1>1. /\ p \in Process /\ ProcessOK(p)
        /\ disp' = [disp EXCEPT ![d] = p]
        /\ disp \in [Dispatcher -> Process]
    BY DEF Respects, IInv, TypeOK
  <1>2. disp'[d] = p /\ \A c \in Dispatcher \ {d} : disp'[c] = disp[c]
    BY <1>1
  <1>3. ProcessesOK'
    BY <1>1, <1>2 DEF IInv, ProcessesOK, ProcessOK
  <1>4. AbsentUntouched'
    BY <1>2 DEF IInv, AbsentUntouched, Respects, Holds
  <1>5. ClaimsBounded'
    <2> SUFFICES ASSUME NEW e \in Event
                 PROVE  Cardinality(Holders(e)') + Pending(e)' <= 1 + recoveries'[e]
      BY DEF ClaimsBounded, Pending
    <2>1. /\ Holders(e) \in SUBSET Dispatcher /\ Holders(e)' \in SUBSET Dispatcher
          /\ Holders(e)' \ {d} = Holders(e) \ {d}
      BY <1>2 DEF Holders, Holds
    <2>2. /\ d \in Holders(e) <=> e \in disp[d].rows
          /\ d \in Holders(e)' <=> e \in p.rows
      BY <1>2 DEF Holders, Holds
    <2>3. /\ Cardinality(Holders(e)) \in Nat /\ Cardinality(Holders(e)') \in Nat
          /\ Cardinality(Holders(e)') + Claims(disp[d], e)
               = Cardinality(Holders(e)) + Claims(p, e)
      BY <2>1, <2>2, CountChange DEF Claims
    <2>4. Cardinality(Holders(e)) + Pending(e) <= 1 + recoveries[e]
      BY DEF IInv, ClaimsBounded, Pending
    <2>5. /\ Claims(p, e) + Pending(e)' + recoveries[e]
               <= Claims(disp[d], e) + Pending(e) + recoveries'[e]
          /\ recoveries[e] \in Nat /\ recoveries'[e] \in Nat
      BY DEF Respects, IInv, TypeOK
    <2>6. /\ Claims(p, e) \in Nat /\ Claims(disp[d], e) \in Nat
          /\ Pending(e) \in Nat /\ Pending(e)' \in Nat
      BY DEF Claims, Pending
    <2> QED BY <2>3, <2>4, <2>5, <2>6
  <1>6. ReceiptBudget'
    <2> SUFFICES ASSUME NEW e \in Event
                 PROVE  received'[e] + Cardinality(OpenClaims(e)') + Pending(e)'
                          <= 1 + recoveries'[e] + errors'
      BY DEF ReceiptBudget
    <2>1. /\ OpenClaims(e) \in SUBSET Dispatcher /\ OpenClaims(e)' \in SUBSET Dispatcher
          /\ OpenClaims(e)' \ {d} = OpenClaims(e) \ {d}
      BY <1>2 DEF OpenClaims
    <2>2. /\ d \in OpenClaims(e) <=> Unanswered(disp[d], e)
          /\ d \in OpenClaims(e)' <=> Unanswered(p, e)
      BY <1>2 DEF OpenClaims
    <2>3. /\ Cardinality(OpenClaims(e)) \in Nat /\ Cardinality(OpenClaims(e)') \in Nat
          /\ Cardinality(OpenClaims(e)') + Opens(disp[d], e)
               = Cardinality(OpenClaims(e)) + Opens(p, e)
      BY <2>1, <2>2, CountChange DEF Opens
    <2>4. received[e] + Cardinality(OpenClaims(e)) + Pending(e)
            <= 1 + recoveries[e] + errors
      BY DEF IInv, ReceiptBudget
    <2>5. /\ Opens(p, e) + Pending(e)' + received'[e] + recoveries[e] + errors
               <= Opens(disp[d], e) + Pending(e) + received[e] + recoveries'[e] + errors'
          /\ recoveries[e] \in Nat /\ recoveries'[e] \in Nat
          /\ received[e] \in Nat /\ received'[e] \in Nat
          /\ errors \in Nat /\ errors' \in Nat
      BY OutboxAssumption DEF Respects, IInv, TypeOK
    <2>6. /\ Opens(p, e) \in Nat /\ Opens(disp[d], e) \in Nat
          /\ Pending(e) \in Nat /\ Pending(e)' \in Nat
      BY DEF Opens, Pending
    <2> QED BY <2>3, <2>4, <2>5, <2>6
  <1>7. AnsweredReceived'
    <2> SUFFICES ASSUME NEW c \in Dispatcher,
                        disp'[c].pc \in {"setDelivered", "logDelivered"}
                 PROVE  received'[disp'[c].cur] > 0
      BY DEF AnsweredReceived
    <2>1. CASE c = d
      BY <2>1, <1>2 DEF Respects
    <2>2. CASE c # d
      <3>1. disp[c].cur \in Event /\ received[disp[c].cur] > 0
        BY <2>2, <1>2, <1>1
           DEF IInv, AnsweredReceived, ProcessesOK, ProcessOK, Working, Process
      <3>2. /\ received[disp[c].cur] <= received'[disp[c].cur]
            /\ received[disp[c].cur] \in Nat /\ received'[disp[c].cur] \in Nat
        BY <3>1 DEF Respects, IInv, TypeOK
      <3> QED BY <2>2, <1>2, <3>1, <3>2
    <2> QED BY <2>1, <2>2
  <1>8. DeliveredWasReceived'
    <2> SUFFICES ASSUME NEW e \in Event,
                        row'[e].status = "delivered" \/ "success" \in log'[e]
                 PROVE  received'[e] > 0
      BY DEF DeliveredWasReceived
    <2>1. /\ received[e] <= received'[e]
          /\ received[e] \in Nat /\ received'[e] \in Nat
          /\ received[e] > 0 \/ received'[e] > 0
      BY DEF Respects, IInv, TypeOK, DeliveredWasReceived
    <2> QED BY <2>1
  <1>9. NoOrphans'
    <2> SUFFICES ASSUME NEW e \in Event, row'[e].status = "delivering", errors' = 0
                 PROVE  \E c \in Dispatcher : e \in disp'[c].rows
      BY DEF NoOrphans, Held, Holds
    <2>1. CASE e \in p.rows
      BY <2>1, <1>2
    <2>2. CASE row[e].status = "delivering" /\ e \notin disp[d].rows
      <3>1. errors = 0
        BY OutboxAssumption DEF Respects, IInv, TypeOK
      <3>2. PICK c \in Dispatcher : e \in disp[c].rows
        BY <2>2, <3>1 DEF IInv, NoOrphans, Held, Holds
      <3> QED BY <2>2, <3>2, <1>2
    <2> QED BY <2>1, <2>2 DEF Respects
  <1> QED BY <1>3, <1>4, <1>5, <1>6, <1>7, <1>8, <1>9 DEF IInv

---------------------------------------------------------------------------
(* The steps of a dispatcher *)

\* Taking the stuck claims away pays for the claims that follow.
LEMMA RecoverStep ==
  ASSUME IInv, NEW d \in Dispatcher, Recover(d)
  PROVE  IInv'
  <1> DEFINE p == [disp[d] EXCEPT !.pc = "claim"]
  <1>1. disp[d] \in Process /\ disp[d].pc = "idle" /\ disp[d].rows = {}
    BY DEF IInv, TypeOK, Recover, ProcessesOK, ProcessOK
  <1>2. p \in Process /\ p.pc = "claim" /\ p.rows = {} /\ ProcessOK(p)
    BY <1>1, MovedFacts DEF Place, ProcessOK, Working
  <1>3. disp' = [disp EXCEPT ![d] = p]
    BY DEF Recover, Goto, Become
  <1> HIDE DEF p
  <1>4. \A e \in Event :
          \/ /\ row[e].status = "delivering" /\ row'[e].status = "pending"
             /\ row'[e] \in Row /\ recoveries'[e] = recoveries[e] + 1
          \/ row'[e] = row[e] /\ recoveries'[e] = recoveries[e]
    <2> SUFFICES ASSUME NEW e \in Event
                 PROVE  \/ /\ row[e].status = "delivering" /\ row'[e].status = "pending"
                           /\ row'[e] \in Row /\ recoveries'[e] = recoveries[e] + 1
                        \/ row'[e] = row[e] /\ recoveries'[e] = recoveries[e]
      OBVIOUS
    <2>1. CASE Stuck(e)
      <3>1. row'[e] = [row[e] EXCEPT !.status = "pending", !.old = FALSE]
        BY <2>1 DEF Recover
      <3>2. row[e] \in Row
        BY DEF IInv, TypeOK
      <3> QED BY <2>1, <3>1, <3>2 DEF Recover, Stuck, Row, Status
    <2>2. CASE ~Stuck(e)
      BY <2>2 DEF Recover
    <2> QED BY <2>1, <2>2
  <1>5. /\ row' = [e \in Event |-> row'[e]]
        /\ recoveries' = [e \in Event |-> recoveries'[e]]
        /\ UNCHANGED <<log, posts, received, slow, errors>>
    BY DEF Recover
  <1>6. TypeOK'
    BY <1>2, <1>3, <1>4, <1>5 DEF IInv, TypeOK
  <1>7. Respects(d, p)
    BY <1>1, <1>2, <1>3, <1>4, <1>5, OutboxAssumption
       DEF IInv, TypeOK, Respects, Claims, Opens, Unanswered, Pending, AbsentUntouched
  <1> QED BY <1>6, <1>7, RespectfulStep

\* A claim takes rows that are pending, and leaves them to nobody else.
LEMMA ClaimStep ==
  ASSUME IInv, NEW d \in Dispatcher, Claim(d)
  PROVE  IInv'
  <1>1. disp[d] \in Process /\ disp[d].rows = {}
    BY DEF IInv, TypeOK, Claim, ProcessesOK, ProcessOK
  <1>2. PICK S \in SUBSET {e \in Event : Claimable(e)} :
          /\ row' = [e \in Event |-> IF e \in S
                                       THEN [row[e] EXCEPT !.status = "delivering",
                                                           !.old = FALSE]
                                       ELSE row[e]]
          /\ Become(d, Resume([Idle EXCEPT
                                 !.rows = S,
                                 !.attempts = [e \in Event |-> IF e \in S
                                                                 THEN row[e].attempts
                                                                 ELSE 0]]))
    BY DEF Claim
  <1> DEFINE q == [Idle EXCEPT !.rows = S,
                               !.attempts = [e \in Event |-> IF e \in S
                                                               THEN row[e].attempts
                                                               ELSE 0]]
             p == Resume(q)
  <1>3. q \in Process /\ q.rows = S
    BY IdleFacts DEF Process, IInv, TypeOK, Row
  <1>4. disp' = [disp EXCEPT ![d] = p]
    BY <1>2 DEF Become
  <1> HIDE DEF q
  <1>5. p \in Process /\ p.rows = S /\ p.pc \in {"idle", "lookup"} /\ ProcessOK(p)
    BY <1>3, ResumeFacts
  <1> HIDE DEF p
  <1>6. UNCHANGED <<log, posts, received, recoveries, slow, errors>>
    BY DEF Claim
  <1>7. TypeOK'
    BY <1>2, <1>4, <1>5, <1>6, ZenonT(30) DEF IInv, TypeOK, Row, Status
  <1>8. \A e \in Event :
          \/ e \in S /\ row[e].status = "pending" /\ row'[e].status = "delivering"
          \/ e \notin S /\ row'[e] = row[e]
    BY <1>2 DEF IInv, TypeOK, Row, Claimable
  <1>9. Respects(d, p)
    BY <1>1, <1>4, <1>5, <1>6, <1>8, OutboxAssumption
       DEF IInv, TypeOK, Respects, Claims, Opens, Unanswered, Pending, AbsentUntouched
  <1> QED BY <1>7, <1>9, RespectfulStep

\* Loading the client changes no claim.
LEMMA LookupStep ==
  ASSUME IInv, NEW d \in Dispatcher, NEW e \in Event, Lookup(d, e)
  PROVE  IInv'
  <1>1. disp[d] \in Process /\ disp[d].pc = "lookup" /\ e \in disp[d].rows
    BY DEF IInv, TypeOK, Lookup
  <1>2. PICK l \in {"post", "setSkipped", "reschedule"} :
          /\ Become(d, [disp[d] EXCEPT !.pc = l, !.cur = e])
          /\ IF l = "reschedule" THEN Error ELSE UNCHANGED errors
    BY DEF Lookup
  <1> DEFINE p == [disp[d] EXCEPT !.pc = l, !.cur = e]
  <1>3. p \in Process /\ p.rows = disp[d].rows /\ p.pc = l /\ ProcessOK(p)
    BY <1>1 DEF Process, Place, ProcessOK, Working
  <1>4. disp' = [disp EXCEPT ![d] = p]
    BY <1>2 DEF Become
  <1> HIDE DEF p
  <1>5. /\ errors \in Nat /\ errors' \in 0 .. MaxErrors /\ errors <= errors'
    BY <1>2, OutboxAssumption DEF IInv, TypeOK, Error
  <1>6. UNCHANGED <<row, log, posts, received, recoveries, slow>>
    BY DEF Lookup
  <1>7. TypeOK'
    BY <1>3, <1>4, <1>5, <1>6 DEF IInv, TypeOK
  <1>8. Respects(d, p)
    BY <1>1, <1>3, <1>4, <1>5, <1>6
       DEF IInv, TypeOK, Respects, Claims, Opens, Unanswered, Pending, AbsentUntouched,
           Holds
  <1> QED BY <1>7, <1>8, RespectfulStep

\* A dispatcher at work has a current row, which it holds.
LEMMA CurrentFacts ==
  ASSUME IInv, NEW d \in Dispatcher, disp[d].pc \in Working
  PROVE  /\ disp[d] \in Process
         /\ disp[d].cur \in Event /\ disp[d].cur \in disp[d].rows
         /\ disp[d].attempts[disp[d].cur] \in Nat /\ Attempted(d) \in Nat
         /\ row[disp[d].cur].status # "absent"
  <1>1. disp[d] \in Process /\ ProcessOK(disp[d])
    BY DEF IInv, TypeOK, ProcessesOK
  <1>2. disp[d].cur \in Event /\ disp[d].cur \in disp[d].rows
    BY <1>1 DEF ProcessOK, Process
  <1>3. disp[d].attempts[disp[d].cur] \in Nat /\ Attempted(d) \in Nat
    BY <1>1, <1>2 DEF Process, Attempted
  <1> QED BY <1>1, <1>2, <1>3 DEF IInv, AbsentUntouched, Holds

\* An UPDATE of one row leaves the others alone.
LEMMA UpdatedFacts ==
  ASSUME TypeOK, NEW e \in Event, NEW st \in Status, NEW n \in Nat, Updated(e, st, n)
  PROVE  /\ row' \in [Event -> Row]
         /\ row'[e].status = st
         /\ \A f \in Event \ {e} : row'[f] = row[f]
  BY DEF TypeOK, Updated, Row

\* An outcome is written and the row let go.  It may be pending again only if
\* the POST was not answered with a 2xx.
LEMMA OutcomeStep ==
  ASSUME IInv, NEW d \in Dispatcher, disp[d].pc \in Working,
         row' \in [Event -> Row],
         row'[disp[d].cur].status \in Terminal \cup {"pending"},
         \A f \in Event \ {disp[d].cur} : row'[f] = row[f],
         disp[d].pc = "setDelivered" => row'[disp[d].cur].status # "pending",
         row'[disp[d].cur].status = "delivered" => received[disp[d].cur] > 0,
         UNCHANGED <<log, posts, received, recoveries, slow, errors>>,
         NEW p \in Process, ProcessOK(p),
         p.rows = disp[d].rows \ {disp[d].cur},
         p.pc # "setDelivered",
         p.pc = "logDelivered" => p.cur = disp[d].cur /\ received[disp[d].cur] > 0,
         disp' = [disp EXCEPT ![d] = p]
  PROVE  IInv'
  <1> DEFINE c == disp[d].cur
  <1>1. c \in Event /\ c \in disp[d].rows
    BY CurrentFacts
  <1>2. TypeOK'
    BY DEF IInv, TypeOK
  <1>3. Respects(d, p)
    <2>1. \A f \in Event : row'[f].status = "absent" => row[f].status = "absent" /\ f # c
      BY <1>1 DEF Terminal
    <2>2. ASSUME NEW f \in Event
          PROVE  /\ Claims(p, f) + Pending(f)' <= Claims(disp[d], f) + Pending(f)
                 /\ Opens(p, f) + Pending(f)' <= Opens(disp[d], f) + Pending(f)
      BY <1>1 DEF Claims, Opens, Unanswered, Pending
    <2>3. ASSUME NEW f \in Event
          PROVE  /\ Claims(p, f) \in Nat /\ Claims(disp[d], f) \in Nat
                 /\ Opens(p, f) \in Nat /\ Opens(disp[d], f) \in Nat
                 /\ Pending(f) \in Nat /\ Pending(f)' \in Nat
                 /\ recoveries[f] \in Nat /\ received[f] \in Nat /\ errors \in Nat
      BY OutboxAssumption DEF Claims, Opens, Pending, IInv, TypeOK
    <2>4. ASSUME NEW f \in Event
          PROVE  /\ row'[f].status = "absent" =>
                      row[f].status = "absent" /\ received'[f] = 0 /\ f \notin p.rows
                 /\ row'[f].status = "delivered" \/ "success" \in log'[f] =>
                      \/ row[f].status = "delivered" \/ "success" \in log[f]
                      \/ received'[f] > 0
                 /\ row'[f].status = "delivering" =>
                      row[f].status = "delivering" /\ (f \in p.rows \/ f \notin disp[d].rows)
      BY <1>1, <2>1 DEF IInv, AbsentUntouched, Holds, Terminal
    <2>5. ASSUME NEW f \in Event
          PROVE  /\ Claims(p, f) + Pending(f)' + recoveries[f]
                      <= Claims(disp[d], f) + Pending(f) + recoveries'[f]
                 /\ Opens(p, f) + Pending(f)' + received'[f] + recoveries[f] + errors
                      <= Opens(disp[d], f) + Pending(f) + received[f] + recoveries'[f] + errors'
                 /\ received[f] <= received'[f]
      BY <2>2, <2>3
    <2>6. errors <= errors'
      BY OutboxAssumption DEF IInv, TypeOK
    <2>7. p.pc \in {"setDelivered", "logDelivered"} => received'[p.cur] > 0
      OBVIOUS
    <2> QED BY <2>4, <2>5, <2>6, <2>7 DEF Respects
  <1> QED BY <1>2, <1>3, RespectfulStep

\* The delivered row was answered with a 2xx.
LEMMA SetDeliveredStep ==
  ASSUME IInv, NEW d \in Dispatcher, SetDelivered(d)
  PROVE  IInv'
  <1> DEFINE p == [Without(disp[d]) EXCEPT !.pc = "logDelivered"]
  <1>1. disp[d].pc = "setDelivered" /\ disp[d].pc \in Working
    BY DEF SetDelivered, Working
  <1>2. /\ p \in Process /\ p.pc = "logDelivered" /\ p.cur = disp[d].cur
        /\ p.rows = disp[d].rows \ {disp[d].cur}
    BY <1>1, CurrentFacts, WithoutFacts DEF Place
  <1>3. disp' = [disp EXCEPT ![d] = p]
    BY DEF SetDelivered, Become
  <1> HIDE DEF p
  <1>4. ProcessOK(p)
    BY <1>1, <1>2, CurrentFacts DEF ProcessOK, Working
  <1>5. /\ row' \in [Event -> Row]
        /\ row'[disp[d].cur].status = "delivered"
        /\ \A f \in Event \ {disp[d].cur} : row'[f] = row[f]
    BY <1>1, CurrentFacts, UpdatedFacts DEF SetDelivered, IInv, Status
  <1>6. received[disp[d].cur] > 0
    BY <1>1 DEF IInv, AnsweredReceived
  <1> QED BY <1>1, <1>2, <1>3, <1>4, <1>5, <1>6, OutcomeStep DEF SetDelivered, Terminal

\* An event that is given up.
LEMMA SetFailedStep ==
  ASSUME IInv, NEW d \in Dispatcher, SetFailed(d)
  PROVE  IInv'
  <1> DEFINE p == [Without(disp[d]) EXCEPT !.pc = "logFailed"]
  <1>1. disp[d].pc = "setFailed" /\ disp[d].pc \in Working
    BY DEF SetFailed, Working
  <1>2. /\ p \in Process /\ p.pc = "logFailed" /\ p.cur = disp[d].cur
        /\ p.rows = disp[d].rows \ {disp[d].cur}
    BY <1>1, CurrentFacts, WithoutFacts DEF Place
  <1>3. disp' = [disp EXCEPT ![d] = p]
    BY DEF SetFailed, Become
  <1> HIDE DEF p
  <1>4. ProcessOK(p)
    BY <1>1, <1>2, CurrentFacts DEF ProcessOK, Working
  <1>5. /\ row' \in [Event -> Row]
        /\ row'[disp[d].cur].status = "failed"
        /\ \A f \in Event \ {disp[d].cur} : row'[f] = row[f]
    BY <1>1, CurrentFacts, UpdatedFacts DEF SetFailed, IInv, Status
  <1> QED BY <1>1, <1>2, <1>3, <1>4, <1>5, OutcomeStep DEF SetFailed, Terminal

\* A row without an endpoint, or one that comes back later.
LEMMA SetSkippedStep ==
  ASSUME IInv, NEW d \in Dispatcher, SetSkipped(d)
  PROVE  IInv'
  <1> DEFINE p == Resume(Without(disp[d]))
  <1>1. disp[d].pc = "setSkipped" /\ disp[d].pc \in Working
    BY DEF SetSkipped, Working
  <1>2. /\ p \in Process /\ p.pc \in {"idle", "lookup"} /\ ProcessOK(p)
        /\ p.rows = disp[d].rows \ {disp[d].cur}
    BY <1>1, CurrentFacts, WithoutFacts, ResumeFacts
  <1>3. disp' = [disp EXCEPT ![d] = p]
    BY DEF SetSkipped, Become
  <1> HIDE DEF p
  <1>4. /\ row' \in [Event -> Row]
        /\ row'[disp[d].cur].status = "skipped"
        /\ \A f \in Event \ {disp[d].cur} : row'[f] = row[f]
    BY <1>1, CurrentFacts, UpdatedFacts DEF SetSkipped, IInv, Status
  <1> QED BY <1>1, <1>2, <1>3, <1>4, OutcomeStep DEF SetSkipped, Terminal

\* A row that comes back later.
LEMMA RescheduleStep ==
  ASSUME IInv, NEW d \in Dispatcher, Reschedule(d)
  PROVE  IInv'
  <1> DEFINE p == Resume(Without(disp[d]))
  <1>1. disp[d].pc = "reschedule" /\ disp[d].pc \in Working
    BY DEF Reschedule, Working
  <1>2. /\ p \in Process /\ p.pc \in {"idle", "lookup"} /\ ProcessOK(p)
        /\ p.rows = disp[d].rows \ {disp[d].cur}
    BY <1>1, CurrentFacts, WithoutFacts, ResumeFacts
  <1>3. disp' = [disp EXCEPT ![d] = p]
    BY DEF Reschedule, Become
  <1> HIDE DEF p
  <1>4. /\ row' \in [Event -> Row]
        /\ row'[disp[d].cur].status = "pending"
        /\ \A f \in Event \ {disp[d].cur} : row'[f] = row[f]
    BY <1>1, CurrentFacts DEF Reschedule, Rescheduled, IInv, TypeOK, Row, Status
  <1> QED BY <1>1, <1>2, <1>3, <1>4, OutcomeStep DEF Reschedule, Terminal

\* A POST that is taken in uses up the claim, or is paid for by an error.
LEMMA PostStep ==
  ASSUME IInv, NEW d \in Dispatcher, Post(d)
  PROVE  IInv'
  <1> DEFINE c == disp[d].cur
             Taken == received' = [received EXCEPT ![c] = @ + 1]
  <1>1. disp[d].pc = "post" /\ disp[d].pc \in Working
    BY DEF Post, Working
  <1>2. disp[d] \in Process /\ c \in Event /\ c \in disp[d].rows /\ row[c].status # "absent"
    BY <1>1, CurrentFacts
  <1>3. PICK l \in {"setDelivered", "setFailed", "reschedule"} :
          /\ disp' = [disp EXCEPT ![d] = [disp[d] EXCEPT !.pc = l]]
          /\ \/ l = "setDelivered" /\ Taken /\ errors' = errors
             \/ l # "setDelivered" /\ received' = received /\ errors' = errors
             \/ l # "setDelivered" /\ Taken /\ Error
    BY DEF Post, AfterFailure, AfterOk, Goto, Become
  <1> DEFINE p == [disp[d] EXCEPT !.pc = l]
  <1>4. p \in Process /\ p.pc = l /\ p.cur = c /\ p.rows = disp[d].rows
    BY <1>2 DEF Process, Place
  <1>5. disp' = [disp EXCEPT ![d] = p]
    BY <1>3
  <1> HIDE DEF p
  <1>6. ProcessOK(p)
    BY <1>2, <1>4 DEF ProcessOK
  <1>7. /\ UNCHANGED <<row, log, recoveries, slow>>
        /\ posts' = [posts EXCEPT ![c] = @ + 1]
    BY DEF Post
  <1>8. /\ errors \in Nat /\ errors' \in 0 .. MaxErrors /\ errors <= errors'
        /\ received \in [Event -> Nat] /\ received' \in [Event -> Nat]
        /\ recoveries \in [Event -> Nat]
    BY <1>2, <1>3, OutboxAssumption DEF IInv, TypeOK, Error
  <1>9. TypeOK'
    <2>1. posts' \in [Event -> Nat]
      BY <1>2, <1>7 DEF IInv, TypeOK
    <2>2. disp' \in [Dispatcher -> Process]
      BY <1>4, <1>5 DEF IInv, TypeOK
    <2> QED BY <2>1, <2>2, <1>7, <1>8 DEF IInv, TypeOK
  <1>10. ASSUME NEW f \in Event
         PROVE  /\ received[f] <= received'[f]
                /\ f # c => received'[f] = received[f]
                /\ Opens(p, f) + received'[f] + errors
                     <= Opens(disp[d], f) + received[f] + errors'
                /\ Claims(p, f) = Claims(disp[d], f)
                /\ Pending(f)' = Pending(f) /\ Pending(f) \in Nat
                /\ Opens(p, f) \in Nat /\ Opens(disp[d], f) \in Nat
                /\ Claims(p, f) \in Nat
    <2>1. CASE f = c
      BY <2>1, <1>1, <1>2, <1>3, <1>4, <1>7, <1>8
         DEF Opens, Claims, Unanswered, Pending, Error
    <2>2. CASE f # c
      BY <2>2, <1>1, <1>2, <1>3, <1>4, <1>7, <1>8
         DEF Opens, Claims, Unanswered, Pending, Error
    <2> QED BY <2>1, <2>2
  <1>11. p.pc \in {"setDelivered", "logDelivered"} => received'[p.cur] > 0
    BY <1>2, <1>3, <1>4, <1>8
  <1>12. ASSUME NEW f \in Event, row'[f].status = "absent"
         PROVE  row[f].status = "absent" /\ received'[f] = 0 /\ f \notin p.rows
    BY <1>12, <1>2, <1>4, <1>7, <1>10 DEF IInv, AbsentUntouched, Holds
  <1>13. Respects(d, p)
    <2>1. ASSUME NEW f \in Event
          PROVE  /\ Claims(p, f) + Pending(f)' + recoveries[f]
                      <= Claims(disp[d], f) + Pending(f) + recoveries'[f]
                 /\ Opens(p, f) + Pending(f)' + received'[f] + recoveries[f] + errors
                      <= Opens(disp[d], f) + Pending(f) + received[f] + recoveries'[f] + errors'
      BY <1>7, <1>8, <1>10
    <2> QED BY <2>1, <1>4, <1>5, <1>6, <1>7, <1>8, <1>10, <1>11, <1>12 DEF Respects
  <1> QED BY <1>9, <1>13, RespectfulStep

\* A 2xx whose record fails counts as an error, and the claim is open again.
LEMMA SetDeliveredFailsStep ==
  ASSUME IInv, NEW d \in Dispatcher, SetDeliveredFails(d)
  PROVE  IInv'
  <1> DEFINE c == disp[d].cur
  <1>1. disp[d].pc = "setDelivered" /\ disp[d].pc \in Working
    BY DEF SetDeliveredFails, Working
  <1>2. /\ disp[d] \in Process /\ c \in Event /\ c \in disp[d].rows
        /\ row[c].status # "absent" /\ received[c] > 0
    BY <1>1, CurrentFacts DEF IInv, AnsweredReceived
  <1>3. PICK l \in {"setFailed", "reschedule"} :
          disp' = [disp EXCEPT ![d] = [disp[d] EXCEPT !.pc = l]]
    BY DEF SetDeliveredFails, AfterFailure, Goto, Become
  <1> DEFINE p == [disp[d] EXCEPT !.pc = l]
  <1>4. p \in Process /\ p.pc = l /\ p.cur = c /\ p.rows = disp[d].rows
    BY <1>2 DEF Process, Place
  <1>5. disp' = [disp EXCEPT ![d] = p]
    BY <1>3
  <1> HIDE DEF p
  <1>6. ProcessOK(p)
    BY <1>2, <1>4 DEF ProcessOK
  <1>7. /\ row' \in [Event -> Row]
        /\ row'[c].status = "delivered" \/ row'[c] = row[c]
        /\ \A f \in Event \ {c} : row'[f] = row[f]
    <2>1. CASE Updated(c, "delivered", Attempted(d))
      BY <2>1, <1>1, CurrentFacts, UpdatedFacts DEF IInv, Status
    <2>2. CASE UNCHANGED row
      BY <2>2 DEF IInv, TypeOK
    <2> QED BY <2>1, <2>2 DEF SetDeliveredFails
  <1>8. /\ UNCHANGED <<log, posts, received, recoveries, slow>>
        /\ errors \in Nat /\ errors' = errors + 1 /\ errors' \in 0 .. MaxErrors
        /\ received \in [Event -> Nat] /\ recoveries \in [Event -> Nat]
    BY OutboxAssumption DEF SetDeliveredFails, Error, IInv, TypeOK
  <1>9. TypeOK'
    BY <1>4, <1>5, <1>7, <1>8 DEF IInv, TypeOK
  <1>10. ASSUME NEW f \in Event
         PROVE  /\ Opens(p, f) \in 0 .. 1 /\ Opens(disp[d], f) \in 0 .. 1
                /\ Claims(p, f) = Claims(disp[d], f) /\ Claims(p, f) \in Nat
                /\ Pending(f)' <= Pending(f)
                /\ Pending(f)' \in Nat /\ Pending(f) \in Nat
    BY <1>4, <1>7 DEF Opens, Claims, Pending
  <1>11. ASSUME NEW f \in Event
         PROVE  /\ Claims(p, f) + Pending(f)' + recoveries[f]
                     <= Claims(disp[d], f) + Pending(f) + recoveries'[f]
                /\ Opens(p, f) + Pending(f)' + received'[f] + recoveries[f] + errors
                     <= Opens(disp[d], f) + Pending(f) + received[f] + recoveries'[f] + errors'
                /\ received[f] <= received'[f]
    BY <1>8, <1>10
  <1>12. ASSUME NEW f \in Event
         PROVE  /\ row'[f].status = "absent" =>
                     row[f].status = "absent" /\ received'[f] = 0 /\ f \notin p.rows
                /\ row'[f].status = "delivered" \/ "success" \in log'[f] =>
                     \/ row[f].status = "delivered" \/ "success" \in log[f]
                     \/ received'[f] > 0
    BY <1>2, <1>4, <1>7, <1>8 DEF IInv, AbsentUntouched, Holds
  <1>13. errors <= errors' /\ errors' # 0
    BY <1>8
  <1>14. Respects(d, p)
    BY <1>3, <1>4, <1>5, <1>6, <1>11, <1>12, <1>13 DEF Respects
  <1> QED BY <1>9, <1>14, RespectfulStep

\* The log gets a success only for an answered POST.
LEMMA RecordDeliveryStep ==
  ASSUME IInv, NEW d \in Dispatcher, RecordDelivery(d)
  PROVE  IInv'
  <1> DEFINE c == disp[d].cur
             p == Resume(disp[d])
  <1>1. /\ disp[d] \in Process /\ disp[d].pc \in {"logDelivered", "logFailed"}
        /\ c \in Event
        /\ disp[d].pc = "logDelivered" => received[c] > 0
    BY DEF RecordDelivery, IInv, TypeOK, ProcessesOK, ProcessOK, AnsweredReceived
  <1>2. /\ p \in Process /\ p.pc \in {"idle", "lookup"} /\ ProcessOK(p)
        /\ p.rows = disp[d].rows
    BY <1>1, ResumeFacts
  <1>3. disp' = [disp EXCEPT ![d] = p]
    BY DEF RecordDelivery, Become
  <1> HIDE DEF p
  <1>4. UNCHANGED <<row, posts, received, recoveries, slow>>
    BY DEF RecordDelivery
  <1>5. /\ errors \in Nat /\ errors' \in 0 .. MaxErrors /\ errors <= errors'
        /\ received \in [Event -> Nat] /\ recoveries \in [Event -> Nat]
    BY OutboxAssumption DEF RecordDelivery, Error, IInv, TypeOK
  <1>6. /\ log' \in [Event -> SUBSET {"success", "failure"}]
        /\ \A f \in Event : "success" \in log'[f] =>
             "success" \in log[f] \/ received[f] > 0
    BY <1>1 DEF RecordDelivery, IInv, TypeOK
  <1>7. TypeOK'
    BY <1>2, <1>3, <1>4, <1>5, <1>6 DEF IInv, TypeOK
  <1>8. ASSUME NEW f \in Event
        PROVE  /\ Claims(p, f) = Claims(disp[d], f) /\ Claims(p, f) \in Nat
               /\ Opens(p, f) = Opens(disp[d], f) /\ Opens(p, f) \in Nat
               /\ Pending(f)' = Pending(f) /\ Pending(f) \in Nat
    BY <1>1, <1>2, <1>4 DEF Claims, Opens, Unanswered, Pending
  <1>9. Respects(d, p)
    BY <1>2, <1>3, <1>4, <1>5, <1>6, <1>8
       DEF Respects, IInv, AbsentUntouched, Holds
  <1> QED BY <1>7, <1>9, RespectfulStep

\* A dispatcher that stops only leaves claims behind.
LEMMA AbortStep ==
  ASSUME IInv, NEW d \in Dispatcher, Abort(d)
  PROVE  IInv'
  <1>1. disp' = [disp EXCEPT ![d] = Idle]
    BY DEF Abort, Become
  <1>2. /\ UNCHANGED <<row, log, posts, received, recoveries, slow>>
        /\ errors \in Nat /\ errors' = errors + 1 /\ errors' \in 0 .. MaxErrors
        /\ received \in [Event -> Nat] /\ recoveries \in [Event -> Nat]
    BY OutboxAssumption DEF Abort, Error, IInv, TypeOK
  <1>3. TypeOK'
    BY <1>1, <1>2, IdleFacts DEF IInv, TypeOK
  <1>4. ASSUME NEW f \in Event
        PROVE  /\ Claims(Idle, f) = 0 /\ Opens(Idle, f) = 0
               /\ Claims(disp[d], f) \in Nat /\ Opens(disp[d], f) \in Nat
               /\ Pending(f)' = Pending(f) /\ Pending(f) \in Nat
    BY <1>2, IdleFacts DEF Claims, Opens, Unanswered, Pending
  <1>5. Respects(d, Idle)
    BY <1>1, <1>2, <1>4, IdleFacts DEF Respects, IInv, AbsentUntouched
  <1> QED BY <1>3, <1>5, RespectfulStep

---------------------------------------------------------------------------
(* The steps of the environment *)

\* A step that leaves the dispatchers and the receipts alone, and makes a row
\* pending only when it was absent.
LEMMA QuietStep ==
  ASSUME IInv, row' \in [Event -> Row], slow' \in 0 .. MaxSlow,
         UNCHANGED <<disp, log, posts, received, recoveries, errors>>,
         \A e \in Event :
           \/ row'[e].status = row[e].status
           \/ row[e].status = "absent" /\ row'[e].status = "pending"
  PROVE  IInv'
  <1>1. TypeOK' /\ ProcessesOK' /\ AnsweredReceived'
    BY DEF IInv, TypeOK, ProcessesOK, AnsweredReceived
  <1>2. AbsentUntouched' /\ DeliveredWasReceived' /\ NoOrphans'
    BY DEF IInv, AbsentUntouched, DeliveredWasReceived, NoOrphans, Held, Holds
  <1>3. ASSUME NEW e \in Event
        PROVE  /\ Cardinality(Holders(e)') + Pending(e)' <= 1 + recoveries'[e]
               /\ received'[e] + Cardinality(OpenClaims(e)') + Pending(e)'
                    <= 1 + recoveries'[e] + errors'
    <2>1. Holders(e)' = Holders(e) /\ OpenClaims(e)' = OpenClaims(e)
      BY DEF Holders, Holds, OpenClaims, Unanswered
    <2>2. CASE row'[e].status = row[e].status
      BY <2>1, <2>2 DEF IInv, ClaimsBounded, ReceiptBudget, Pending
    <2>3. CASE row[e].status = "absent" /\ row'[e].status = "pending"
      <3>1. received[e] = 0 /\ Holders(e) = {} /\ OpenClaims(e) = {}
        BY <2>3 DEF IInv, AbsentUntouched, Holders, OpenClaims, Unanswered, Holds
      <3>2. recoveries[e] \in Nat /\ errors \in Nat /\ Pending(e)' = 1
        BY <2>3, OutboxAssumption DEF IInv, TypeOK, Pending
      <3> QED BY <2>1, <3>1, <3>2, FS_EmptySet
    <2> QED BY <2>2, <2>3
  <1>4. ClaimsBounded' /\ ReceiptBudget'
    BY <1>3 DEF ClaimsBounded, ReceiptBudget, Pending
  <1> QED BY <1>1, <1>2, <1>4 DEF IInv

\* Enqueueing, and the passing of time.
LEMMA EnvironmentStep ==
  ASSUME IInv, NEW e \in Event, Enqueue(e) \/ BecomeDue(e) \/ Age(e)
  PROVE  IInv'
  <1>1. CASE Enqueue(e)
    BY <1>1, QuietStep DEF Enqueue, IInv, TypeOK, Row, NoRow, Status
  <1>2. CASE BecomeDue(e)
    BY <1>2, QuietStep DEF BecomeDue, IInv, TypeOK, Row
  <1>3. CASE Age(e)
    <2>1. /\ row' \in [Event -> Row]
          /\ \A f \in Event : row'[f].status = row[f].status
      BY <1>3, ZenonT(30) DEF Age, IInv, TypeOK, Row
    <2>2. slow' \in 0 .. MaxSlow
      BY <1>3, OutboxAssumption DEF Age, IInv, TypeOK
    <2> QED BY <1>3, <2>1, <2>2, QuietStep DEF Age
  <1> QED BY <1>1, <1>2, <1>3

---------------------------------------------------------------------------
(* The theorems *)

\* An empty outbox with idle dispatchers satisfies the invariant.
LEMMA InitIInv == Init => IInv
  <1> SUFFICES ASSUME Init
               PROVE  IInv
    OBVIOUS
  <1>1. \A d \in Dispatcher : disp[d] = Idle
    BY DEF Init
  <1>2. \A e \in Event : row[e] = NoRow /\ row[e].status = "absent"
    BY DEF Init, NoRow
  <1>3. TypeOK
    BY IdleFacts, OutboxAssumption DEF Init, TypeOK, NoRow, Row, Status
  <1>4. ProcessesOK /\ AnsweredReceived
    BY <1>1, IdleFacts DEF ProcessesOK, AnsweredReceived
  <1>5. AbsentUntouched /\ DeliveredWasReceived /\ NoOrphans
    BY <1>1, <1>2, IdleFacts
       DEF Init, AbsentUntouched, Holds, DeliveredWasReceived, NoOrphans
  <1>6. \A e \in Event : Holders(e) = {} /\ OpenClaims(e) = {} /\ Pending(e) = 0
    BY <1>1, <1>2, IdleFacts DEF Holders, Holds, OpenClaims, Unanswered, Pending
  <1>7. ASSUME NEW e \in Event
        PROVE  /\ Cardinality(Holders(e)) = 0 /\ Cardinality(OpenClaims(e)) = 0
               /\ Pending(e) = 0 /\ received[e] = 0 /\ recoveries[e] = 0 /\ errors = 0
    BY <1>6, FS_EmptySet DEF Init
  <1>8. ClaimsBounded
    BY <1>7, <1>2 DEF ClaimsBounded
  <1>9. ReceiptBudget
    BY <1>7 DEF ReceiptBudget
  <1> QED BY <1>3, <1>4, <1>5, <1>8, <1>9 DEF IInv

\* Every step preserves the invariant.
LEMMA NextIInv == IInv /\ [Next]_vars => IInv'
  <1> SUFFICES ASSUME IInv, [Next]_vars
               PROVE  IInv'
    OBVIOUS
  <1>1. ASSUME NEW d \in Dispatcher, Recover(d) \/ Continue(d) \/ Abort(d)
        PROVE  IInv'
    BY <1>1, RecoverStep, ClaimStep, LookupStep, PostStep, SetDeliveredStep,
       SetDeliveredFailsStep, SetFailedStep, SetSkippedStep, RescheduleStep,
       RecordDeliveryStep, AbortStep DEF Continue
  <1>2. CASE UNCHANGED vars
    <2>1. row' \in [Event -> Row] /\ slow' \in 0 .. MaxSlow
      BY <1>2 DEF IInv, TypeOK, vars
    <2> QED BY <1>2, <2>1, QuietStep DEF vars
  <1> QED BY <1>1, <1>2, EnvironmentStep DEF Next

\* The invariant holds throughout.
LEMMA Invariance == Spec => []IInv
  BY InitIInv, NextIInv, PTL DEF Spec

\* Types, for any numbers of events, dispatchers, attempts and errors.
THEOREM TypeCorrect == Spec => []TypeOK
  <1>1. IInv => TypeOK
    BY DEF IInv
  <1> QED BY <1>1, Invariance, PTL

\* The SKIP LOCKED claim hands a row out once, plus once for each recovery.
THEOREM ClaimIsExclusive == Spec => []ClaimsBounded
  <1>1. IInv => ClaimsBounded
    BY DEF IInv
  <1> QED BY <1>1, Invariance, PTL

\* A client takes an event in once, plus once for each recovery or error.
THEOREM DuplicatesExplained == Spec => []ReceivedBounded
  <1>1. IInv => ReceivedBounded
    <2> SUFFICES ASSUME IInv, NEW e \in Event
                 PROVE  received[e] <= 1 + recoveries[e] + errors
      BY DEF ReceivedBounded
    <2>1. Pending(e) \in Nat
      BY DEF Pending
    <2>2. received[e] \in Nat /\ recoveries[e] \in Nat /\ errors \in Nat
      BY OutboxAssumption DEF IInv, TypeOK
    <2> QED BY <2>1, <2>2, Countable DEF IInv, ReceiptBudget
  <1> QED BY <1>1, Invariance, PTL

\* Without an error, a row that is delivering is in a dispatcher's hands.
THEOREM DeliveringIsHeld == Spec => []NoOrphans
  <1>1. IInv => NoOrphans
    BY DEF IInv
  <1> QED BY <1>1, Invariance, PTL

\* The status delivered and a logged success are true.
THEOREM DeliveredIsTrue == Spec => []DeliveredWasReceived
  <1>1. IInv => DeliveredWasReceived
    BY DEF IInv
  <1> QED BY <1>1, Invariance, PTL

---------------------------------------------------------------------------
(* The attempts of an event *)

\* The POSTs that a row with so many attempts may still lead to: there is one
\* also when lookups that failed have used the attempts up.
Left(attempts) == IF attempts < MaxAttempts THEN MaxAttempts - attempts ELSE 1

\* The POSTs a dispatcher may still make, or cause by putting the row back.
Owes(p, e) ==
  IF e \notin p.rows THEN 0
  ELSE IF p.cur # e THEN Left(p.attempts[e])
  ELSE IF p.pc = "reschedule" THEN Left(p.attempts[e] + 1)
  ELSE IF p.pc = "setDelivered" THEN
    IF p.attempts[e] + 1 < MaxAttempts THEN MaxAttempts - (p.attempts[e] + 1) ELSE 0
  ELSE IF p.pc \in {"setFailed", "setSkipped"} THEN 0
  ELSE Left(p.attempts[e])

PendingOwes(e) == IF row[e].status = "pending" THEN Left(row[e].attempts) ELSE 0

\* One for each POST that a dispatcher may still make of the event.
Owed(e) == {t \in Dispatcher \X (1 .. MaxAttempts) : t[2] <= Owes(disp[t[1]], e)}

\* PostsBounded is not inductive: what may still be posted has to be paid for
\* in advance, as in ReceiptBudget.
PostBudget ==
  \A e \in Event :
    /\ posts[e] + Cardinality(Owed(e)) + PendingOwes(e) <= MaxAttempts * (1 + recoveries[e])
    /\ row[e].status = "absent" => posts[e] = 0

\* Attempts are numbers, and leave no more POSTs than there may be.
LEMMA LeftFacts ==
  /\ MaxAttempts \in Nat \ {0}
  /\ \A n \in Nat : Left(n) \in 1 .. MaxAttempts
  /\ \A n \in Nat : Left(n + 1) <= Left(n)
  /\ Left(0) = MaxAttempts
  BY OutboxAssumption DEF MaxAttempts, Left

\* So does a process.
LEMMA OwesFacts ==
  ASSUME NEW p \in Process, NEW e \in Event
  PROVE  Owes(p, e) \in 0 .. MaxAttempts
  <1>1. p.attempts[e] \in Nat /\ p.attempts[e] + 1 \in Nat
    BY DEF Process
  <1>2. /\ Left(p.attempts[e]) \in 0 .. MaxAttempts
        /\ Left(p.attempts[e] + 1) \in 0 .. MaxAttempts
    BY <1>1, LeftFacts
  <1>3. MaxAttempts \in Nat
    BY LeftFacts
  <1> QED BY <1>1, <1>2, <1>3 DEF Owes

\* Those of one dispatcher, and the others.
LEMMA Column ==
  ASSUME NEW A \in SUBSET (Dispatcher \X (1 .. MaxAttempts)),
         NEW d \in Dispatcher, NEW m \in 0 .. MaxAttempts,
         \A k \in 1 .. MaxAttempts : <<d, k>> \in A <=> k <= m
  PROVE  /\ Cardinality({t \in A : t[1] # d}) \in Nat
         /\ Cardinality(A) = Cardinality({t \in A : t[1] # d}) + m
  <1> DEFINE C == {t \in A : t[1] # d}
             D == {d} \X (1 .. m)
  <1>0. m \in Nat /\ m \in Int /\ MaxAttempts \in Int /\ 1 \in Int
    BY LeftFacts
  <1>1. /\ IsFiniteSet(1 .. MaxAttempts)
        /\ IsFiniteSet(1 .. m) /\ Cardinality(1 .. m) = m
    <2>1. IsFiniteSet(1 .. MaxAttempts) /\ IsFiniteSet(1 .. m)
      BY <1>0, FS_Interval
    <2>2. Cardinality(1 .. m) = IF 1 > m THEN 0 ELSE m - 1 + 1
      BY <1>0, FS_Interval
    <2> QED BY <1>0, <2>1, <2>2
  <1>2. IsFiniteSet(Dispatcher \X (1 .. MaxAttempts))
    BY <1>1, OutboxAssumption, FS_Product
  <1>3. IsFiniteSet(C) /\ Cardinality(C) \in Nat
    BY <1>2, FS_Subset, FS_CardinalityType
  <1>4. IsFiniteSet(D) /\ Cardinality(D) = m
    <2>1. IsFiniteSet({d}) /\ Cardinality({d}) = 1
      BY FS_Singleton
    <2> QED BY <1>1, <2>1, FS_Product
  <1>5. A = C \cup D
    <2>1. ASSUME NEW t \in A, t[1] = d
          PROVE  t \in D
      <3>1. t[2] \in 1 .. MaxAttempts /\ t = <<d, t[2]>>
        BY <2>1
      <3>2. t[2] <= m
        BY <3>1
      <3> QED BY <3>1, <3>2, LeftFacts
    <2>2. ASSUME NEW k \in 1 .. m
          PROVE  <<d, k>> \in A
      BY LeftFacts
    <2> QED BY <2>1, <2>2
  <1>6. C \cap D = {}
    OBVIOUS
  <1>7. Cardinality(C \cap D) = 0
    BY <1>6, FS_EmptySet
  <1> HIDE DEF C, D
  <1>8. Cardinality(A) = Cardinality(C) + m
    <2>1. Cardinality(C \cup D) = Cardinality(C) + Cardinality(D) - Cardinality(C \cap D)
      BY <1>3, <1>4, FS_Union
    <2> QED BY <1>0, <1>3, <1>4, <1>5, <1>7, <2>1
  <1> QED BY <1>3, <1>8 DEF C

\* When dispatcher d becomes p, what is owed changes by what d owes.
LEMMA OwedChange ==
  ASSUME TypeOK, NEW d \in Dispatcher, NEW p \in Process,
         disp' = [disp EXCEPT ![d] = p], NEW e \in Event
  PROVE  /\ Cardinality(Owed(e)) \in Nat /\ Cardinality(Owed(e)') \in Nat
         /\ Cardinality(Owed(e)') + Owes(disp[d], e) = Cardinality(Owed(e)) + Owes(p, e)
  <1>1. /\ disp[d] \in Process /\ disp'[d] = p
        /\ \A c \in Dispatcher \ {d} : disp'[c] = disp[c]
    BY DEF TypeOK
  <1>2. Owes(disp[d], e) \in 0 .. MaxAttempts /\ Owes(p, e) \in 0 .. MaxAttempts
    BY <1>1, OwesFacts
  <1>3. /\ Owed(e) \in SUBSET (Dispatcher \X (1 .. MaxAttempts))
        /\ Owed(e)' \in SUBSET (Dispatcher \X (1 .. MaxAttempts))
    BY DEF Owed
  <1>4. /\ \A k \in 1 .. MaxAttempts : <<d, k>> \in Owed(e) <=> k <= Owes(disp[d], e)
        /\ \A k \in 1 .. MaxAttempts : <<d, k>> \in Owed(e)' <=> k <= Owes(p, e)
    BY <1>1 DEF Owed
  <1>5. {t \in Owed(e) : t[1] # d} = {t \in Owed(e)' : t[1] # d}
    BY <1>1 DEF Owed
  <1>6. /\ Cardinality({t \in Owed(e) : t[1] # d}) \in Nat
        /\ Cardinality(Owed(e)) = Cardinality({t \in Owed(e) : t[1] # d}) + Owes(disp[d], e)
    BY <1>2, <1>3, <1>4, Column
  <1>7. Cardinality(Owed(e)') = Cardinality({t \in Owed(e)' : t[1] # d}) + Owes(p, e)
    BY <1>2, <1>3, <1>4, Column
  <1> QED BY <1>2, <1>5, <1>6, <1>7

\* Dispatcher d becomes p, and no event is posted or owed more, except what
\* a recovery pays for.
Affords(d, p) ==
  /\ p \in Process
  /\ disp' = [disp EXCEPT ![d] = p]
  /\ \A e \in Event :
       /\ \/ /\ recoveries'[e] = recoveries[e]
             /\ posts'[e] + Owes(p, e) + PendingOwes(e)'
                  <= posts[e] + Owes(disp[d], e) + PendingOwes(e)
          \/ /\ recoveries'[e] = recoveries[e] + 1
             /\ posts'[e] + Owes(p, e) + PendingOwes(e)'
                  <= posts[e] + Owes(disp[d], e) + PendingOwes(e) + MaxAttempts
       /\ row'[e].status = "absent" => row[e].status = "absent" /\ posts'[e] = posts[e]

\* Such a step keeps to the budget.
LEMMA AffordedStep ==
  ASSUME TypeOK, TypeOK', PostBudget, NEW d \in Dispatcher, NEW p, Affords(d, p)
  PROVE  PostBudget'
  <1> SUFFICES ASSUME NEW e \in Event
               PROVE  /\ posts'[e] + Cardinality(Owed(e)') + PendingOwes(e)'
                           <= MaxAttempts * (1 + recoveries'[e])
                      /\ row'[e].status = "absent" => posts'[e] = 0
    BY DEF PostBudget
  <1>1. /\ posts[e] \in Nat /\ posts'[e] \in Nat /\ recoveries[e] \in Nat
        /\ row[e].attempts \in Nat /\ row'[e].attempts \in Nat
    BY DEF TypeOK, Row
  <1>2. PendingOwes(e) \in Nat /\ PendingOwes(e)' \in Nat /\ MaxAttempts \in Nat
    BY <1>1, LeftFacts DEF PendingOwes
  <1>3. /\ Cardinality(Owed(e)) \in Nat /\ Cardinality(Owed(e)') \in Nat
        /\ Cardinality(Owed(e)') + Owes(disp[d], e) = Cardinality(Owed(e)) + Owes(p, e)
    BY OwedChange DEF Affords
  <1>4. Owes(p, e) \in Nat /\ Owes(disp[d], e) \in Nat
    BY <1>2, OwesFacts DEF Affords, TypeOK
  <1>5. posts[e] + Cardinality(Owed(e)) + PendingOwes(e) <= MaxAttempts * (1 + recoveries[e])
    BY DEF PostBudget
  <1>6. /\ MaxAttempts * (1 + recoveries[e]) \in Nat
        /\ MaxAttempts * (1 + (recoveries[e] + 1))
             = MaxAttempts * (1 + recoveries[e]) + MaxAttempts
    BY <1>1, <1>2
  <1>7. CASE /\ recoveries'[e] = recoveries[e]
             /\ posts'[e] + Owes(p, e) + PendingOwes(e)'
                  <= posts[e] + Owes(disp[d], e) + PendingOwes(e)
    <2>1. MaxAttempts * (1 + recoveries'[e]) = MaxAttempts * (1 + recoveries[e])
      BY <1>7
    <2> DEFINE b == MaxAttempts * (1 + recoveries[e])
    <2> HIDE DEF b
    <2>2. posts[e] + Cardinality(Owed(e)) + PendingOwes(e) <= b /\ b \in Nat
      BY <1>5, <1>6 DEF b
    <2>3. posts'[e] + Cardinality(Owed(e)') + PendingOwes(e)' <= b
      BY <1>1, <1>2, <1>3, <1>4, <1>7, <2>2
    <2> QED BY <2>1, <2>3 DEF b, PostBudget, Affords
  <1>8. CASE /\ recoveries'[e] = recoveries[e] + 1
             /\ posts'[e] + Owes(p, e) + PendingOwes(e)'
                  <= posts[e] + Owes(disp[d], e) + PendingOwes(e) + MaxAttempts
    <2> DEFINE b == MaxAttempts * (1 + recoveries[e])
    <2> HIDE DEF b
    <2>1. MaxAttempts * (1 + recoveries'[e]) = b + MaxAttempts
      BY <1>6, <1>8 DEF b
    <2>2. posts[e] + Cardinality(Owed(e)) + PendingOwes(e) <= b /\ b \in Nat
      BY <1>5, <1>6 DEF b
    <2>3. posts'[e] + Cardinality(Owed(e)') + PendingOwes(e)' <= b + MaxAttempts
      BY <1>1, <1>2, <1>3, <1>4, <1>8, <2>2
    <2> QED BY <2>1, <2>3 DEF PostBudget, Affords
  <1> QED BY <1>7, <1>8 DEF Affords, PostBudget

\* A step that is about no event but one, which d has in hand.
LEMMA OneAffords ==
  ASSUME TypeOK, TypeOK', NEW d \in Dispatcher, NEW p \in Process,
         disp' = [disp EXCEPT ![d] = p],
         NEW c \in Event, row[c].status # "absent", row'[c].status # "absent",
         UNCHANGED recoveries,
         posts'[c] + Owes(p, c) + PendingOwes(c)'
           <= posts[c] + Owes(disp[d], c) + PendingOwes(c),
         \A e \in Event \ {c} :
           posts'[e] = posts[e] /\ row'[e] = row[e] /\ Owes(p, e) = Owes(disp[d], e)
  PROVE  Affords(d, p)
  <1>1. ASSUME NEW e \in Event \ {c}
        PROVE  /\ posts'[e] + Owes(p, e) + PendingOwes(e)'
                    <= posts[e] + Owes(disp[d], e) + PendingOwes(e)
               /\ row'[e].status = "absent" =>
                    row[e].status = "absent" /\ posts'[e] = posts[e]
    <2>1. posts[e] \in Nat /\ Owes(p, e) \in Nat /\ PendingOwes(e) \in Nat
      BY LeftFacts, OwesFacts DEF TypeOK, Row, PendingOwes
    <2>2. /\ posts'[e] = posts[e] /\ row'[e] = row[e] /\ Owes(p, e) = Owes(disp[d], e)
          /\ PendingOwes(e)' = PendingOwes(e)
      BY DEF PendingOwes
    <2> QED BY <2>1, <2>2
  <1> QED BY <1>1 DEF Affords

\* What is owed by a process that goes on to its next row.
LEMMA ResumeOwes ==
  ASSUME NEW p \in Process, NEW e \in Event
  PROVE  Owes(Resume(p), e) = IF e \in p.rows THEN Left(p.attempts[e]) ELSE 0
  <1>1. CASE p.rows = {}
    BY <1>1, IdleFacts DEF Resume, Owes
  <1>2. CASE p.rows # {}
    <2>1. /\ Resume(p).rows = p.rows /\ Resume(p).attempts = p.attempts
          /\ Resume(p).cur = None
      BY <1>2 DEF Resume, Process
    <2> QED BY <2>1, OutboxAssumption DEF Owes
  <1> QED BY <1>1, <1>2

\* A step between two rows, or before the first: the table is left alone.
LEMMA StillAffords ==
  ASSUME TypeOK, NEW d \in Dispatcher, NEW p \in Process,
         disp' = [disp EXCEPT ![d] = p],
         UNCHANGED <<row, posts, recoveries>>,
         \A e \in Event : Owes(p, e) <= Owes(disp[d], e)
  PROVE  Affords(d, p)
  <1>1. ASSUME NEW e \in Event
        PROVE  posts'[e] + Owes(p, e) + PendingOwes(e)'
                 <= posts[e] + Owes(disp[d], e) + PendingOwes(e)
    <2>1. /\ posts[e] \in Nat /\ PendingOwes(e) \in Nat
          /\ Owes(p, e) \in Nat /\ Owes(disp[d], e) \in Nat
      BY LeftFacts, OwesFacts DEF TypeOK, Row, PendingOwes
    <2>2. posts'[e] = posts[e] /\ PendingOwes(e)' = PendingOwes(e)
      BY DEF PendingOwes
    <2> QED BY <2>1, <2>2
  <1> QED BY <1>1 DEF Affords

\* A recovery may start an event anew, and counts itself.
LEMMA RecoverAffords ==
  ASSUME IInv, NEW d \in Dispatcher, Recover(d)
  PROVE  \E p : Affords(d, p)
  <1> DEFINE p == [disp[d] EXCEPT !.pc = "claim"]
  <1>1. disp[d] \in Process /\ disp[d].rows = {} /\ disp' = [disp EXCEPT ![d] = p]
    BY DEF IInv, TypeOK, Recover, ProcessesOK, ProcessOK, Goto, Become
  <1>2. p \in Process /\ p.rows = {}
    BY <1>1, MovedFacts DEF Place
  <1> HIDE DEF p
  <1>3. \A e \in Event : Owes(p, e) = 0 /\ Owes(disp[d], e) = 0
    BY <1>1, <1>2 DEF Owes
  <1>4. ASSUME NEW e \in Event
        PROVE  /\ \/ /\ recoveries'[e] = recoveries[e]
                     /\ PendingOwes(e)' <= PendingOwes(e)
                  \/ /\ recoveries'[e] = recoveries[e] + 1
                     /\ PendingOwes(e)' <= PendingOwes(e) + MaxAttempts
               /\ row'[e].status = "absent" => row[e].status = "absent"
               /\ posts'[e] = posts[e] /\ posts[e] \in Nat
               /\ PendingOwes(e) \in Nat /\ PendingOwes(e)' \in Nat
    <2>1. /\ row[e] \in Row /\ row[e].attempts \in Nat /\ posts[e] \in Nat
          /\ Left(row[e].attempts) \in 1 .. MaxAttempts /\ MaxAttempts \in Nat
      BY LeftFacts DEF IInv, TypeOK, Row
    <2>2. CASE Stuck(e)
      <3>1. /\ row'[e] = [row[e] EXCEPT !.status = "pending", !.old = FALSE]
            /\ recoveries'[e] = recoveries[e] + 1 /\ posts' = posts
        BY <2>2 DEF Recover
      <3>2. row'[e].status = "pending" /\ row'[e].attempts = row[e].attempts
        BY <2>1, <3>1 DEF Row
      <3>3. PendingOwes(e) = 0 /\ PendingOwes(e)' = Left(row[e].attempts)
        BY <2>2, <3>2 DEF PendingOwes, Stuck
      <3> QED BY <2>1, <3>1, <3>2, <3>3
    <2>3. CASE ~Stuck(e)
      <3>1. row'[e] = row[e] /\ recoveries'[e] = recoveries[e] /\ posts' = posts
        BY <2>3 DEF Recover
      <3>2. PendingOwes(e)' = PendingOwes(e) /\ PendingOwes(e) \in Nat
        BY <2>1, <3>1 DEF PendingOwes
      <3> QED BY <2>1, <3>1, <3>2
    <2> QED BY <2>2, <2>3
  <1>5. MaxAttempts \in Nat
    BY LeftFacts
  <1>6. ASSUME NEW e \in Event
        PROVE  \/ /\ recoveries'[e] = recoveries[e]
                  /\ posts'[e] + Owes(p, e) + PendingOwes(e)'
                       <= posts[e] + Owes(disp[d], e) + PendingOwes(e)
               \/ /\ recoveries'[e] = recoveries[e] + 1
                  /\ posts'[e] + Owes(p, e) + PendingOwes(e)'
                       <= posts[e] + Owes(disp[d], e) + PendingOwes(e) + MaxAttempts
    BY <1>3, <1>4, <1>5
  <1> QED BY <1>1, <1>2, <1>4, <1>6 DEF Affords

\* What the row owed, its claim owes.
LEMMA ClaimAffords ==
  ASSUME IInv, NEW d \in Dispatcher, Claim(d)
  PROVE  \E p : Affords(d, p)
  <1>1. disp[d] \in Process /\ disp[d].rows = {}
    BY DEF IInv, TypeOK, Claim, ProcessesOK, ProcessOK
  <1>2. PICK S \in SUBSET {e \in Event : Claimable(e)} :
          /\ row' = [e \in Event |-> IF e \in S
                                       THEN [row[e] EXCEPT !.status = "delivering",
                                                           !.old = FALSE]
                                       ELSE row[e]]
          /\ Become(d, Resume([Idle EXCEPT
                                 !.rows = S,
                                 !.attempts = [e \in Event |-> IF e \in S
                                                                 THEN row[e].attempts
                                                                 ELSE 0]]))
    BY DEF Claim
  <1> DEFINE q == [Idle EXCEPT !.rows = S,
                               !.attempts = [e \in Event |-> IF e \in S
                                                               THEN row[e].attempts
                                                               ELSE 0]]
             p == Resume(q)
  <1>3. /\ q \in Process /\ q.rows = S
        /\ \A e \in S : q.attempts[e] = row[e].attempts
    BY IdleFacts DEF Process, IInv, TypeOK, Row, Idle
  <1>4. disp' = [disp EXCEPT ![d] = p]
    BY <1>2 DEF Become
  <1> HIDE DEF q
  <1>5. p \in Process
    BY <1>3, ResumeFacts
  <1>6. \A e \in Event : Owes(p, e) = IF e \in S THEN Left(row[e].attempts) ELSE 0
    BY <1>3, ResumeOwes
  <1> HIDE DEF p
  <1>7. UNCHANGED <<posts, recoveries>>
    BY DEF Claim
  <1>8. ASSUME NEW e \in Event
        PROVE  /\ posts'[e] + Owes(p, e) + PendingOwes(e)'
                    <= posts[e] + Owes(disp[d], e) + PendingOwes(e)
               /\ row'[e].status = "absent" => row[e].status = "absent"
    <2>1. /\ posts[e] \in Nat /\ row[e] \in Row /\ Owes(disp[d], e) = 0
          /\ Left(row[e].attempts) \in Nat
      BY <1>1, LeftFacts DEF IInv, TypeOK, Owes, Row
    <2>2. CASE e \in S
      <3>1. row[e].status = "pending" /\ row'[e].status = "delivering"
        BY <1>2, <2>1, <2>2 DEF Claimable, Row
      <3>2. PendingOwes(e) = Left(row[e].attempts) /\ PendingOwes(e)' = 0
        BY <3>1 DEF PendingOwes
      <3> QED BY <1>6, <1>7, <2>1, <2>2, <3>1, <3>2
    <2>3. CASE e \notin S
      <3>1. row'[e] = row[e]
        BY <1>2, <2>3
      <3>2. PendingOwes(e)' = PendingOwes(e) /\ PendingOwes(e) \in Nat
        BY <2>1, <3>1 DEF PendingOwes
      <3> QED BY <1>6, <1>7, <2>1, <2>3, <3>1, <3>2
    <2> QED BY <2>2, <2>3
  <1> QED BY <1>4, <1>5, <1>7, <1>8 DEF Affords

\* A lookup that fails uses an attempt without a POST.
LEMMA LookupAffords ==
  ASSUME IInv, IInv', NEW d \in Dispatcher, NEW e \in Event, Lookup(d, e)
  PROVE  \E p : Affords(d, p)
  <1>1. disp[d] \in Process /\ disp[d].pc = "lookup" /\ e \in disp[d].rows
    BY DEF IInv, TypeOK, Lookup
  <1>2. PICK l \in {"post", "setSkipped", "reschedule"} :
          Become(d, [disp[d] EXCEPT !.pc = l, !.cur = e])
    BY DEF Lookup
  <1> DEFINE p == [disp[d] EXCEPT !.pc = l, !.cur = e]
  <1>3. /\ p \in Process /\ p.rows = disp[d].rows /\ p.pc = l /\ p.cur = e
        /\ p.attempts = disp[d].attempts
    BY <1>1 DEF Process, Place
  <1>4. disp' = [disp EXCEPT ![d] = p]
    BY <1>2 DEF Become
  <1> HIDE DEF p
  <1>5. UNCHANGED <<row, posts, recoveries>>
    BY DEF Lookup
  <1>6. ASSUME NEW f \in Event
        PROVE  Owes(p, f) <= Owes(disp[d], f)
    <2> DEFINE a == disp[d].attempts[f]
    <2>1. /\ a \in Nat /\ Left(a) \in Nat /\ Left(a + 1) \in Nat
          /\ Left(a + 1) <= Left(a)
      BY <1>1, LeftFacts DEF Process
    <2>2. Owes(disp[d], f) = IF f \in disp[d].rows THEN Left(a) ELSE 0
      BY <1>1 DEF Owes
    <2>3. Owes(p, f) \in IF f \in disp[d].rows THEN {Left(a), Left(a + 1), 0} ELSE {0}
      BY <1>3 DEF Owes
    <2> QED BY <2>1, <2>2, <2>3
  <1> QED BY <1>3, <1>4, <1>5, <1>6, StillAffords DEF IInv

\* A process that only moves owes the same of all but its current row.
LEMMA MovedOwes ==
  ASSUME NEW p \in Process, NEW l \in Place, NEW f \in Event \ {p.cur}
  PROVE  Owes([p EXCEPT !.pc = l], f) = Owes(p, f)
  <1>1. /\ [p EXCEPT !.pc = l].rows = p.rows /\ [p EXCEPT !.pc = l].cur = p.cur
        /\ [p EXCEPT !.pc = l].attempts = p.attempts
    BY DEF Process
  <1> QED BY <1>1 DEF Owes

\* After a failure the row comes back only with an attempt left.
LEMMA FailureOwes ==
  ASSUME IInv, NEW d \in Dispatcher, disp[d].pc \in Working,
         NEW l \in {"setDelivered", "setFailed", "reschedule"},
         l = "reschedule" => Attempted(d) < MaxAttempts
  PROVE  LET c == disp[d].cur
             p == [disp[d] EXCEPT !.pc = l]
             a == disp[d].attempts[c]
         IN  /\ p \in Process /\ Owes(p, c) \in Nat
             /\ Owes(p, c) <= IF a + 1 < MaxAttempts THEN MaxAttempts - (a + 1) ELSE 0
             /\ \A f \in Event \ {c} : Owes(p, f) = Owes(disp[d], f)
  <1> DEFINE c == disp[d].cur
             p == [disp[d] EXCEPT !.pc = l]
             a == disp[d].attempts[c]
  <1>1. /\ disp[d] \in Process /\ c \in Event /\ c \in disp[d].rows /\ a \in Nat
    BY CurrentFacts
  <1>2. l \in Place
    BY DEF Place
  <1>3. /\ p \in Process /\ p.pc = l /\ p.cur = c /\ p.rows = disp[d].rows
        /\ p.attempts[c] = a
    BY <1>1, <1>2 DEF Process
  <1>4. \A f \in Event \ {c} : Owes(p, f) = Owes(disp[d], f)
    BY <1>1, <1>2, MovedOwes
  <1>5. Attempted(d) = a + 1
    BY DEF Attempted
  <1> HIDE DEF p, a
  <1>6. /\ Owes(p, c) \in Nat
        /\ Owes(p, c) <= IF a + 1 < MaxAttempts THEN MaxAttempts - (a + 1) ELSE 0
    <2>1. Owes(p, c) = CASE l = "reschedule" -> Left(a + 1)
                         [] l = "setFailed" -> 0
                         [] l = "setDelivered" ->
                              IF a + 1 < MaxAttempts THEN MaxAttempts - (a + 1) ELSE 0
      BY <1>1, <1>3 DEF Owes
    <2>2. MaxAttempts \in Nat
      BY LeftFacts
    <2> QED BY <2>1, <2>2, <1>1, <1>5 DEF Left
  <1> QED BY <1>3, <1>4, <1>6 DEF p, a

\* What a row owes is a number.
LEMMA PendingFacts ==
  ASSUME TypeOK, TypeOK', NEW e \in Event
  PROVE  PendingOwes(e) \in Nat /\ PendingOwes(e)' \in Nat
  <1>1. row[e].attempts \in Nat /\ row'[e].attempts \in Nat
    BY DEF TypeOK, Row
  <1> QED BY <1>1, LeftFacts DEF PendingOwes

\* A POST is paid for by what its claim owed.
LEMMA PostAffords ==
  ASSUME IInv, IInv', NEW d \in Dispatcher, Post(d)
  PROVE  \E p : Affords(d, p)
  <1>1. disp[d].pc = "post" /\ disp[d].pc \in Working
    BY DEF Post, Working
  <1>0. PICK c \in Event : c = disp[d].cur
    BY <1>1, CurrentFacts
  <1> DEFINE a == disp[d].attempts[c]
  <1>2. /\ disp[d] \in Process /\ c \in Event /\ c \in disp[d].rows /\ a \in Nat
        /\ row[c].status # "absent"
    BY <1>0, <1>1, CurrentFacts
  <1>3. PICK l \in {"setDelivered", "setFailed", "reschedule"} :
          /\ disp' = [disp EXCEPT ![d] = [disp[d] EXCEPT !.pc = l]]
          /\ l = "reschedule" => Attempted(d) < MaxAttempts
    <2>1. /\ Attempted(d) \in Nat /\ MaxAttempts \in Nat
      BY <1>1, CurrentFacts, LeftFacts
    <2> QED BY <2>1 DEF Post, AfterFailure, AfterOk, Goto, Become, GivesUp
  <1> DEFINE p == [disp[d] EXCEPT !.pc = l]
  <1>4. /\ p \in Process /\ Owes(p, c) \in Nat
        /\ Owes(p, c) <= IF a + 1 < MaxAttempts THEN MaxAttempts - (a + 1) ELSE 0
        /\ \A f \in Event \ {c} : Owes(p, f) = Owes(disp[d], f)
    BY <1>0, <1>1, <1>3, FailureOwes
  <1>5. disp' = [disp EXCEPT ![d] = p]
    BY <1>3
  <1> HIDE DEF p
  <1>6. Owes(disp[d], c) = Left(a)
    BY <1>0, <1>1, <1>2 DEF Owes
  <1>7. UNCHANGED <<row, recoveries>> /\ posts' = [posts EXCEPT ![c] = @ + 1]
    BY <1>0 DEF Post
  <1>8. /\ posts[c] \in Nat /\ posts'[c] = posts[c] + 1
        /\ \A f \in Event \ {c} : posts'[f] = posts[f]
    BY <1>2, <1>7 DEF IInv, TypeOK
  <1>9. PendingOwes(c) \in Nat /\ PendingOwes(c)' = PendingOwes(c)
    BY <1>7, PendingFacts DEF PendingOwes, IInv
  <1>10. Owes(p, c) + 1 <= Owes(disp[d], c) /\ Owes(disp[d], c) \in Nat
    <2>1. MaxAttempts \in Nat
      BY LeftFacts
    <2> HIDE DEF a
    <2> QED BY <2>1, <1>2, <1>4, <1>6 DEF Left
  <1>11. posts'[c] + Owes(p, c) + PendingOwes(c)'
           <= posts[c] + Owes(disp[d], c) + PendingOwes(c)
    BY <1>4, <1>8, <1>9, <1>10
  <1>12. TypeOK /\ TypeOK'
    BY DEF IInv
  <1>13. /\ UNCHANGED recoveries /\ row'[c].status # "absent"
         /\ \A f \in Event \ {c} :
              posts'[f] = posts[f] /\ row'[f] = row[f] /\ Owes(p, f) = Owes(disp[d], f)
    BY <1>2, <1>4, <1>7, <1>8
  <1> QED BY <1>2, <1>4, <1>5, <1>11, <1>12, <1>13, OneAffords, ZenonT(30)

\* A row that is let go owes what its claim would have owed, or nothing.
LEMMA OutcomeAffords ==
  ASSUME IInv, IInv', NEW d \in Dispatcher, disp[d].pc \in Working,
         NEW c \in Event, c = disp[d].cur,
         \/ row'[c].status \in Terminal
         \/ PendingOwes(c)' <= Owes(disp[d], c) /\ row'[c].status = "pending",
         \A f \in Event \ {c} : row'[f] = row[f],
         UNCHANGED <<posts, recoveries>>,
         NEW p \in Process, disp' = [disp EXCEPT ![d] = p],
         \A f \in Event : Owes(p, f) = IF f \in disp[d].rows \ {c}
                                         THEN Left(disp[d].attempts[f]) ELSE 0
  PROVE  \E q : Affords(d, q)
  <1>1. /\ disp[d] \in Process /\ c \in Event /\ c \in disp[d].rows
        /\ row[c].status # "absent"
    BY CurrentFacts
  <1>2. \A f \in Event \ {c} : Owes(p, f) = Owes(disp[d], f)
    BY <1>1 DEF Owes
  <1>3. /\ posts[c] \in Nat /\ Owes(disp[d], c) \in Nat
        /\ PendingOwes(c) \in Nat /\ PendingOwes(c)' \in Nat
    BY <1>1, OwesFacts, PendingFacts DEF IInv, TypeOK
  <1>4. PendingOwes(c)' <= Owes(disp[d], c) /\ row'[c].status # "absent"
    BY <1>3 DEF PendingOwes, Terminal
  <1>5. Owes(p, c) = 0
    BY <1>1
  <1>6. posts'[c] + Owes(p, c) + PendingOwes(c)'
          <= posts[c] + Owes(disp[d], c) + PendingOwes(c)
    BY <1>3, <1>4, <1>5
  <1>7. \A f \in Event \ {c} :
          posts'[f] = posts[f] /\ row'[f] = row[f] /\ Owes(p, f) = Owes(disp[d], f)
    BY <1>2
  <1>8. TypeOK /\ TypeOK'
    BY DEF IInv
  <1>9. Affords(d, p)
    BY <1>1, <1>4, <1>6, <1>7, <1>8, OneAffords, ZenonT(30)
  <1> QED BY <1>9

\* The process that has let its row go.
LEMMA LetGo ==
  ASSUME IInv, NEW d \in Dispatcher, disp[d].pc \in Working
  PROVE  LET q == Without(disp[d])
         IN  /\ Resume(q) \in Process
             /\ \A f \in Event : Owes(Resume(q), f) =
                  IF f \in disp[d].rows \ {disp[d].cur}
                    THEN Left(disp[d].attempts[f]) ELSE 0
             /\ \A l \in {"logDelivered", "logFailed"} :
                  /\ [q EXCEPT !.pc = l] \in Process
                  /\ \A f \in Event : Owes([q EXCEPT !.pc = l], f) =
                       IF f \in disp[d].rows \ {disp[d].cur}
                         THEN Left(disp[d].attempts[f]) ELSE 0
  <1> DEFINE q == Without(disp[d])
  <1>1. /\ disp[d] \in Process /\ disp[d].cur \in Event
    BY CurrentFacts
  <1>2. /\ q \in Process /\ q.rows = disp[d].rows \ {disp[d].cur}
        /\ q.cur = disp[d].cur
    BY <1>1, WithoutFacts
  <1>3. \A f \in Event \ {disp[d].cur} : q.attempts[f] = disp[d].attempts[f]
    BY <1>1 DEF Without, Process
  <1> HIDE DEF q
  <1>4. /\ Resume(q) \in Process
        /\ \A f \in Event : Owes(Resume(q), f) =
             IF f \in disp[d].rows \ {disp[d].cur}
               THEN Left(disp[d].attempts[f]) ELSE 0
    BY <1>2, <1>3, ResumeFacts, ResumeOwes
  <1>5. ASSUME NEW l \in {"logDelivered", "logFailed"}
        PROVE  /\ [q EXCEPT !.pc = l] \in Process
               /\ \A f \in Event : Owes([q EXCEPT !.pc = l], f) =
                    IF f \in disp[d].rows \ {disp[d].cur}
                      THEN Left(disp[d].attempts[f]) ELSE 0
    <2> DEFINE p == [q EXCEPT !.pc = l]
    <2>1. /\ p \in Process /\ p.rows = q.rows /\ p.cur = q.cur
          /\ p.attempts = q.attempts
      BY <1>2 DEF Process, Place
    <2> HIDE DEF p
    <2>2. \A f \in Event : Owes(p, f) =
            IF f \in disp[d].rows \ {disp[d].cur}
              THEN Left(disp[d].attempts[f]) ELSE 0
      BY <1>2, <1>3, <2>1 DEF Owes
    <2> QED BY <2>1, <2>2 DEF p
  <1> QED BY <1>4, <1>5 DEF q

\* A final status ends what the claim owed.
LEMMA FinalAffords ==
  ASSUME IInv, IInv', NEW d \in Dispatcher,
         SetDelivered(d) \/ SetFailed(d) \/ SetSkipped(d)
  PROVE  \E p : Affords(d, p)
  <1>1. disp[d].pc \in Working
    BY DEF SetDelivered, SetFailed, SetSkipped, Working
  <1>2. PICK st \in Terminal, n \in Nat : Updated(disp[d].cur, st, n)
    BY <1>1, CurrentFacts DEF SetDelivered, SetFailed, SetSkipped, Terminal
  <1>3. /\ disp[d].cur \in Event /\ st \in Status
    BY <1>1, <1>2, CurrentFacts DEF Terminal, Status
  <1>4. /\ row'[disp[d].cur].status = st
        /\ \A f \in Event \ {disp[d].cur} : row'[f] = row[f]
    BY <1>2, <1>3, UpdatedFacts DEF IInv
  <1>5. UNCHANGED <<posts, recoveries>>
    BY DEF SetDelivered, SetFailed, SetSkipped
  <1>6. PICK p \in Process :
          /\ disp' = [disp EXCEPT ![d] = p]
          /\ \A f \in Event : Owes(p, f) = IF f \in disp[d].rows \ {disp[d].cur}
                                             THEN Left(disp[d].attempts[f]) ELSE 0
    BY <1>1, LetGo DEF SetDelivered, SetFailed, SetSkipped, Become
  <1>7. PICK c \in Event : c = disp[d].cur
    BY <1>3
  <1>8. /\ \/ row'[c].status \in Terminal
           \/ PendingOwes(c)' <= Owes(disp[d], c) /\ row'[c].status = "pending"
        /\ \A f \in Event \ {c} : row'[f] = row[f]
        /\ \A f \in Event : Owes(p, f) = IF f \in disp[d].rows \ {c}
                                           THEN Left(disp[d].attempts[f]) ELSE 0
    BY <1>2, <1>4, <1>6, <1>7
  <1> QED BY <1>1, <1>5, <1>6, <1>7, <1>8, OutcomeAffords

\* A row that is put back owes what its claim still owed.
LEMMA RescheduleAffords ==
  ASSUME IInv, IInv', NEW d \in Dispatcher, Reschedule(d)
  PROVE  \E p : Affords(d, p)
  <1>1. disp[d].pc = "reschedule" /\ disp[d].pc \in Working
    BY DEF Reschedule, Working
  <1>0. PICK c \in Event : c = disp[d].cur
    BY <1>1, CurrentFacts
  <1>2. c \in disp[d].rows
    BY <1>0, <1>1, CurrentFacts
  <1>3. /\ row'[c] = Rescheduled(row[c], Attempted(d))
        /\ \A f \in Event \ {c} : row'[f] = row[f]
    BY <1>0, <1>2 DEF Reschedule, IInv, TypeOK
  <1>4. row'[c].status = "pending" /\ PendingOwes(c)' = Left(Attempted(d))
    <2>1. row'[c].status = "pending" /\ row'[c].attempts = Attempted(d)
      BY <1>3 DEF Rescheduled
    <2> QED BY <2>1 DEF PendingOwes
  <1>5. Owes(disp[d], c) = Left(Attempted(d))
    BY <1>0, <1>1, <1>2 DEF Owes, Attempted
  <1>6. PendingOwes(c)' <= Owes(disp[d], c)
    BY <1>4, <1>5, <1>1, CurrentFacts, LeftFacts
  <1>7. UNCHANGED <<posts, recoveries>>
    BY DEF Reschedule
  <1>8. PICK p \in Process :
          /\ disp' = [disp EXCEPT ![d] = p]
          /\ \A f \in Event : Owes(p, f) = IF f \in disp[d].rows \ {disp[d].cur}
                                             THEN Left(disp[d].attempts[f]) ELSE 0
    BY <1>1, LetGo DEF Reschedule, Become
  <1> QED BY <1>0, <1>1, <1>3, <1>4, <1>6, <1>7, <1>8, OutcomeAffords

\* A 2xx whose record fails owes what is left of the attempts.
LEMMA SetDeliveredFailsAffords ==
  ASSUME IInv, IInv', NEW d \in Dispatcher, SetDeliveredFails(d)
  PROVE  \E p : Affords(d, p)
  <1>1. disp[d].pc = "setDelivered" /\ disp[d].pc \in Working
    BY DEF SetDeliveredFails, Working
  <1>2. PICK c \in Event : c = disp[d].cur
    BY <1>1, CurrentFacts
  <1> DEFINE a == disp[d].attempts[c]
  <1>3. /\ disp[d] \in Process /\ c \in disp[d].rows /\ a \in Nat
        /\ row[c].status # "absent"
    BY <1>1, <1>2, CurrentFacts
  <1>4. PICK l \in {"setFailed", "reschedule"} :
          /\ disp' = [disp EXCEPT ![d] = [disp[d] EXCEPT !.pc = l]]
          /\ l = "reschedule" => Attempted(d) < MaxAttempts
    <2>1. /\ Attempted(d) \in Nat /\ MaxAttempts \in Nat
      BY <1>1, CurrentFacts, LeftFacts
    <2>2. AfterFailure(d, TRUE)
      BY DEF SetDeliveredFails
    <2>3. CASE GivesUp(Attempted(d), TRUE)
      BY <2>2, <2>3 DEF AfterFailure, Goto, Become
    <2>4. CASE ~GivesUp(Attempted(d), TRUE)
      <3>1. Attempted(d) < MaxAttempts
        BY <2>1, <2>4 DEF GivesUp
      <3> QED BY <2>2, <2>4, <3>1 DEF AfterFailure, Goto, Become
    <2> QED BY <2>3, <2>4
  <1> DEFINE p == [disp[d] EXCEPT !.pc = l]
  <1>5. /\ p \in Process /\ Owes(p, c) \in Nat
        /\ Owes(p, c) <= IF a + 1 < MaxAttempts THEN MaxAttempts - (a + 1) ELSE 0
        /\ \A f \in Event \ {c} : Owes(p, f) = Owes(disp[d], f)
    BY <1>1, <1>2, <1>4, FailureOwes
  <1>6. disp' = [disp EXCEPT ![d] = p]
    BY <1>4
  <1> HIDE DEF p
  <1>7. Owes(disp[d], c) = IF a + 1 < MaxAttempts THEN MaxAttempts - (a + 1) ELSE 0
    BY <1>1, <1>2, <1>3 DEF Owes
  <1>8. /\ row'[c].status = "delivered" \/ row'[c] = row[c]
        /\ \A f \in Event \ {c} : row'[f] = row[f]
    <2>1. CASE Updated(c, "delivered", Attempted(d))
      BY <2>1, <1>1, CurrentFacts, UpdatedFacts DEF IInv, Status
    <2>2. CASE UNCHANGED row
      BY <2>2
    <2> QED BY <2>1, <2>2, <1>2 DEF SetDeliveredFails
  <1>9. UNCHANGED <<posts, recoveries>> /\ posts[c] \in Nat
    BY DEF SetDeliveredFails, IInv, TypeOK
  <1>10. /\ PendingOwes(c) \in Nat /\ PendingOwes(c)' \in Nat
         /\ PendingOwes(c)' <= PendingOwes(c) /\ row'[c].status # "absent"
    <2>1. PendingOwes(c) \in Nat /\ PendingOwes(c)' \in Nat
      BY PendingFacts DEF IInv
    <2>2. PendingOwes(c)' \in {0, PendingOwes(c)}
      BY <1>8 DEF PendingOwes
    <2> QED BY <2>1, <2>2, <1>3, <1>8
  <1>11. posts'[c] + Owes(p, c) + PendingOwes(c)'
           <= posts[c] + Owes(disp[d], c) + PendingOwes(c)
    <2>1. Owes(p, c) <= Owes(disp[d], c) /\ Owes(disp[d], c) \in Nat
      BY <1>3, <1>5, <1>7, OwesFacts
    <2> QED BY <2>1, <1>5, <1>9, <1>10
  <1>12. TypeOK /\ TypeOK'
    BY DEF IInv
  <1>13. /\ UNCHANGED recoveries
         /\ \A f \in Event \ {c} :
              posts'[f] = posts[f] /\ row'[f] = row[f] /\ Owes(p, f) = Owes(disp[d], f)
    BY <1>5, <1>8, <1>9
  <1> QED BY <1>3, <1>5, <1>6, <1>10, <1>11, <1>12, <1>13, OneAffords, ZenonT(30)

\* The log is written between two rows; a dispatcher that stops owes nothing.
LEMMA EndAffords ==
  ASSUME IInv, NEW d \in Dispatcher, RecordDelivery(d) \/ Abort(d)
  PROVE  \E p : Affords(d, p)
  <1>1. disp[d] \in Process
    BY DEF IInv, TypeOK
  <1>2. UNCHANGED <<row, posts, recoveries>>
    BY DEF RecordDelivery, Abort
  <1>3. CASE RecordDelivery(d)
    <2> DEFINE p == Resume(disp[d])
    <2>1. p \in Process /\ disp' = [disp EXCEPT ![d] = p]
      BY <1>1, <1>3, ResumeFacts DEF RecordDelivery, Become
    <2>2. \A e \in Event : Owes(p, e) = Owes(disp[d], e)
      <3>1. disp[d].pc \in {"logDelivered", "logFailed"}
        BY <1>3 DEF RecordDelivery
      <3> QED BY <1>1, <3>1, ResumeOwes DEF Owes
    <2> HIDE DEF p
    <2>3. \A e \in Event : Owes(p, e) <= Owes(disp[d], e)
      BY <1>1, <2>2, OwesFacts
    <2> QED BY <1>2, <2>1, <2>3, StillAffords DEF IInv
  <1>4. CASE Abort(d)
    <2>1. disp' = [disp EXCEPT ![d] = Idle]
      BY <1>4 DEF Abort, Become
    <2>2. \A e \in Event : Owes(Idle, e) = 0
      BY IdleFacts DEF Owes
    <2>3. \A e \in Event : Owes(Idle, e) <= Owes(disp[d], e)
      BY <1>1, <2>2, OwesFacts
    <2> QED BY <1>2, <2>1, <2>3, IdleFacts, StillAffords DEF IInv
  <1> QED BY <1>3, <1>4

\* A new row owes what a new event may be posted, and nothing else is touched.
LEMMA EnvironmentPosts ==
  ASSUME IInv, IInv', PostBudget,
         \/ UNCHANGED vars
         \/ \E e \in Event : Enqueue(e) \/ BecomeDue(e) \/ Age(e)
  PROVE  PostBudget'
  <1>1. UNCHANGED <<disp, posts, recoveries>>
    BY DEF vars, Enqueue, BecomeDue, Age
  <1> SUFFICES ASSUME NEW f \in Event
               PROVE  /\ posts'[f] + Cardinality(Owed(f)') + PendingOwes(f)'
                           <= MaxAttempts * (1 + recoveries'[f])
                      /\ row'[f].status = "absent" => posts'[f] = 0
    BY DEF PostBudget
  <1>2. Owed(f)' = Owed(f)
    BY <1>1 DEF Owed
  <1>3. /\ posts[f] + Cardinality(Owed(f)) + PendingOwes(f) <= MaxAttempts * (1 + recoveries[f])
        /\ row[f].status = "absent" => posts[f] = 0
    BY DEF PostBudget
  <1>4. \/ row'[f].status = row[f].status /\ row'[f].attempts = row[f].attempts
        \/ /\ row[f].status = "absent" /\ row'[f].status = "pending"
           /\ row'[f].attempts = 0
    <2>1. ASSUME NEW e \in Event, Enqueue(e)
          PROVE  \/ row'[f] = row[f]
                 \/ /\ row[f].status = "absent" /\ row'[f].status = "pending"
                    /\ row'[f].attempts = 0
      BY <2>1 DEF Enqueue, NoRow, IInv, TypeOK
    <2>2. ASSUME NEW e \in Event, BecomeDue(e) \/ Age(e)
          PROVE  row'[f].status = row[f].status /\ row'[f].attempts = row[f].attempts
      <3>1. \/ row' = [row EXCEPT ![e].due = TRUE]
            \/ row' = [row EXCEPT ![e].old = TRUE]
        BY <2>2 DEF BecomeDue, Age
      <3>2. row \in [Event -> Row] /\ row[f] \in Row
        BY DEF IInv, TypeOK
      <3>3. \/ row'[f] = row[f]
            \/ row'[f] = [row[f] EXCEPT !.due = TRUE]
            \/ row'[f] = [row[f] EXCEPT !.old = TRUE]
        BY <3>1, <3>2
      <3> QED BY <3>2, <3>3 DEF Row
    <2> QED BY <2>1, <2>2 DEF vars
  <1>5. CASE row'[f].status = row[f].status /\ row'[f].attempts = row[f].attempts
    <2>1. PendingOwes(f)' = PendingOwes(f)
      BY <1>5 DEF PendingOwes
    <2> QED BY <1>1, <1>2, <1>3, <1>5, <2>1
  <1>6. CASE /\ row[f].status = "absent" /\ row'[f].status = "pending"
             /\ row'[f].attempts = 0
    <2>1. posts[f] = 0 /\ \A d \in Dispatcher : f \notin disp[d].rows
      BY <1>3, <1>6 DEF IInv, AbsentUntouched, Holds
    <2>2. \A d \in Dispatcher : Owes(disp[d], f) = 0
      BY <2>1 DEF Owes
    <2>3. Owed(f) = {}
      BY <2>2 DEF Owed
    <2>4. Cardinality(Owed(f)') = 0
      BY <1>2, <2>3, FS_EmptySet
    <2>5. PendingOwes(f)' = MaxAttempts
      BY <1>6, LeftFacts DEF PendingOwes
    <2>6. recoveries[f] \in Nat /\ MaxAttempts \in Nat
      BY LeftFacts DEF IInv, TypeOK
    <2>7. MaxAttempts * recoveries[f] \in Nat
      BY <2>6
    <2>8. MaxAttempts * (1 + recoveries[f]) = MaxAttempts + MaxAttempts * recoveries[f]
      BY <2>6
    <2>9. MaxAttempts <= MaxAttempts * (1 + recoveries[f])
      BY <2>6, <2>7, <2>8
    <2> QED BY <1>1, <1>6, <2>1, <2>4, <2>5, <2>6, <2>9
  <1> QED BY <1>4, <1>5, <1>6

\* The budget is there at the beginning, and every step keeps to it.
LEMMA PostInvariance == Spec => []PostBudget
  <1>1. Init => PostBudget
    <2> SUFFICES ASSUME Init, NEW e \in Event
                 PROVE  /\ posts[e] + Cardinality(Owed(e)) + PendingOwes(e)
                             <= MaxAttempts * (1 + recoveries[e])
                        /\ posts[e] = 0
      BY DEF PostBudget
    <2>1. \A d \in Dispatcher : Owes(disp[d], e) = 0
      BY IdleFacts DEF Init, Owes
    <2>2. Owed(e) = {}
      BY <2>1 DEF Owed
    <2>3. Cardinality(Owed(e)) = 0 /\ PendingOwes(e) = 0 /\ posts[e] = 0 /\ recoveries[e] = 0
      BY <2>2, FS_EmptySet DEF Init, PendingOwes, NoRow
    <2> QED BY <2>3, LeftFacts
  <1>2. ASSUME IInv, IInv', PostBudget, [Next]_vars
        PROVE  PostBudget'
    <2>1. ASSUME NEW d \in Dispatcher, Recover(d) \/ Continue(d) \/ Abort(d)
          PROVE  PostBudget'
      <3>1. \E p : Affords(d, p)
        BY <1>2, <2>1, RecoverAffords, ClaimAffords, LookupAffords, PostAffords,
           FinalAffords, SetDeliveredFailsAffords, RescheduleAffords, EndAffords
           DEF Continue
      <3> QED BY <1>2, <3>1, AffordedStep DEF IInv
    <2> QED BY <1>2, <2>1, EnvironmentPosts DEF Next
  <1> QED BY <1>1, <1>2, Invariance, PTL DEF Spec

\* A client is sent an event no more often than configured, plus as often
\* again for each recovery: reschedule and the claims of deliverOnce count.
THEOREM AttemptsBounded == Spec => []PostsBounded
  <1>1. IInv /\ PostBudget => PostsBounded
    <2> SUFFICES ASSUME IInv, PostBudget, NEW e \in Event
                 PROVE  posts[e] <= MaxAttempts * (1 + recoveries[e])
      BY DEF PostsBounded
    <2>1. posts[e] \in Nat /\ recoveries[e] \in Nat /\ MaxAttempts \in Nat
      BY LeftFacts DEF IInv, TypeOK
    <2>2. PendingOwes(e) \in Nat
      BY LeftFacts DEF PendingOwes, IInv, TypeOK, Row
    <2>3. Cardinality(Owed(e)) \in Nat
      <3>1. IsFiniteSet(1 .. MaxAttempts)
        BY <2>1, FS_Interval
      <3>2. IsFiniteSet(Dispatcher \X (1 .. MaxAttempts))
        BY <3>1, OutboxAssumption, FS_Product
      <3>3. Owed(e) \in SUBSET (Dispatcher \X (1 .. MaxAttempts))
        BY DEF Owed
      <3> QED BY <3>2, <3>3, FS_Subset, FS_CardinalityType
    <2> DEFINE b == MaxAttempts * (1 + recoveries[e])
    <2>4. b \in Nat /\ posts[e] + Cardinality(Owed(e)) + PendingOwes(e) <= b
      BY <2>1 DEF PostBudget
    <2> HIDE DEF b
    <2>5. posts[e] <= b
      BY <2>1, <2>2, <2>3, <2>4
    <2> QED BY <2>5 DEF b
  <1> QED BY <1>1, Invariance, PostInvariance, PTL

=============================================================================
