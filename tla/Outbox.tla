------------------------------- MODULE Outbox -------------------------------
(***************************************************************************)
(* The webhook outbox: WebhookService.enqueue, which the other services    *)
(* call, and the dispatchers (one for each instance of the service) that   *)
(* claim due rows, post each to its client's endpoint, and write the       *)
(* outcome back.                                                           *)
(*                                                                         *)
(* A dispatcher is suspended at every await; a SQL statement is one step.  *)
(* Time is abstracted to two facts about a row: its next attempt is due,   *)
(* and its claim is older than STUCK_DELIVERY_TIMEOUT.  A POST has no time *)
(* limit of its own, so a claim can get that old while its dispatcher is   *)
(* alive.                                                                  *)
(***************************************************************************)
EXTENDS Naturals, FiniteSets

CONSTANTS
  Event,         \* events, i.e. rows of the outbox
  Dispatcher,    \* instances of the service
  None,          \* no event
  RetryAttempts, \* AVASETTLE_WEBHOOK_RETRY_ATTEMPTS
  BatchSize,     \* rows claimed at once
  MaxSlow,       \* bound: claims that get old while they are being worked on
  MaxErrors      \* bound: SQL errors, crashes and lost answers

ASSUME OutboxAssumption ==
  /\ None \notin Event
  /\ IsFiniteSet(Dispatcher)
  /\ RetryAttempts \in Nat
  /\ BatchSize \in Nat \ {0}
  /\ MaxSlow \in Nat
  /\ MaxErrors \in Nat

VARIABLES
  row,        \* the table avasettle_webhook_outbox
  disp,       \* the local state of every dispatcher
  log,        \* avasettle_webhook_deliveries: the outcomes logged for an event
  posts,      \* POSTs made for each event
  received,   \* POSTs that the endpoint took in
  recoveries, \* times a claim of each event was taken away as stuck
  slow,
  errors

vars == <<row, disp, log, posts, received, recoveries, slow, errors>>

---------------------------------------------------------------------------
(* Types *)

Status == {"absent", "pending", "delivering", "delivered", "failed", "skipped"}
Terminal == {"delivered", "failed", "skipped"}

Row == [status: Status, attempts: Nat,
        due: BOOLEAN,      \* next_attempt_at <= now()
        old: BOOLEAN]      \* updated_at < now() - STUCK_DELIVERY_TIMEOUT

NoRow == [status |-> "absent", attempts |-> 0, due |-> FALSE, old |-> FALSE]

\* The await a dispatcher is suspended at.  Idle: running is false.
Place == {"idle", "claim", "lookup", "post",
          "setDelivered", "setFailed", "setSkipped", "reschedule",
          "logDelivered", "logFailed"}

Process == [pc: Place,
            rows: SUBSET Event,        \* claimed, and no outcome written yet
            cur: Event \cup {None},    \* the row of deliverOnce
            attempts: [Event -> Nat]]  \* as the claim returned them

Idle == [pc |-> "idle", rows |-> {}, cur |-> None,
         attempts |-> [e \in Event |-> 0]]

TypeOK ==
  /\ row \in [Event -> Row]
  /\ disp \in [Dispatcher -> Process]
  /\ log \in [Event -> SUBSET {"success", "failure"}]
  /\ posts \in [Event -> Nat]
  /\ received \in [Event -> Nat]
  /\ recoveries \in [Event -> Nat]
  /\ slow \in 0 .. MaxSlow
  /\ errors \in 0 .. MaxErrors

Init ==
  /\ row = [e \in Event |-> NoRow]
  /\ disp = [d \in Dispatcher |-> Idle]
  /\ log = [e \in Event |-> {}]
  /\ posts = [e \in Event |-> 0]
  /\ received = [e \in Event |-> 0]
  /\ recoveries = [e \in Event |-> 0]
  /\ slow = 0
  /\ errors = 0

---------------------------------------------------------------------------
(* Helpers *)

Become(d, p) == disp' = [disp EXCEPT ![d] = p]
Goto(d, l) == Become(d, [disp[d] EXCEPT !.pc = l])
Error == errors < MaxErrors /\ errors' = errors + 1

MaxAttempts == IF RetryAttempts < 1 THEN 1 ELSE RetryAttempts

\* Every UPDATE sets updated_at by a trigger, so a written row is not old.
Updated(e, status, attempts) ==
  row' = [row EXCEPT ![e] = [@ EXCEPT !.status = status, !.attempts = attempts,
                                      !.old = FALSE]]

\* deliverOnce is over for the current row: the loop takes the next, or ends.
Resume(p) ==
  IF p.rows = {} THEN Idle ELSE [p EXCEPT !.pc = "lookup", !.cur = None]

\* The same process without the row it was working on.
Without(p) == [p EXCEPT !.rows = @ \ {p.cur}, !.attempts[p.cur] = 0]

\* After an attempt that failed: give up, or come back later.
GivesUpLate(attempts, retryable) == ~retryable \/ attempts > MaxAttempts
GivesUp(attempts, retryable) == ~retryable \/ attempts >= MaxAttempts

\* After a 2xx.
AfterOkRetry == "reschedule"
AfterOk == "setDelivered"

Attempted(d) == disp[d].attempts[disp[d].cur] + 1

AfterFailureIgnored(d, retryable) == Goto(d, "setDelivered")
AfterFailure(d, retryable) ==
  Goto(d, IF GivesUp(Attempted(d), retryable) THEN "setFailed" ELSE "reschedule")

---------------------------------------------------------------------------
(* enqueue *)

\* The INSERT.  When it fails the error is logged and the event is gone.
Enqueue(e) ==
  /\ row[e].status = "absent"
  /\ row' = [row EXCEPT ![e] = [NoRow EXCEPT !.status = "pending", !.due = TRUE]]
  /\ UNCHANGED <<disp, log, posts, received, recoveries, slow, errors>>

---------------------------------------------------------------------------
(* tick and dispatchDueEvents *)

StuckPending(e) == row[e].status = "pending" /\ row[e].old
Stuck(e) == row[e].status = "delivering" /\ row[e].old

\* Rows whose claim is too old are pending again, whoever holds them.
Recover(d) ==
  /\ disp[d].pc = "idle"
  /\ row' = [e \in Event |-> IF Stuck(e)
                               THEN [row[e] EXCEPT !.status = "pending", !.old = FALSE]
                               ELSE row[e]]
  /\ recoveries' = [e \in Event |-> IF Stuck(e) THEN recoveries[e] + 1
                                                ELSE recoveries[e]]
  /\ Goto(d, "claim")
  /\ UNCHANGED <<log, posts, received, slow, errors>>

ClaimableAny(e) == row[e].status \in {"pending", "delivering"} /\ row[e].due
Claimable(e) == row[e].status = "pending" /\ row[e].due

\* FOR UPDATE SKIP LOCKED: a row goes to one of the dispatchers that claim
\* at the same time.
Claim(d) ==
  LET due == {e \in Event : Claimable(e)}
  IN
  /\ disp[d].pc = "claim"
  /\ \E S \in SUBSET due :
       /\ S = due \/ Cardinality(S) = BatchSize
       /\ Cardinality(S) <= BatchSize
       /\ row' = [e \in Event |-> IF e \in S
                                    THEN [row[e] EXCEPT !.status = "delivering",
                                                        !.old = FALSE]
                                    ELSE row[e]]
       /\ Become(d, Resume([Idle EXCEPT
                              !.rows = S,
                              !.attempts = [e \in Event |-> IF e \in S
                                                              THEN row[e].attempts
                                                              ELSE 0]]))
  /\ UNCHANGED <<log, posts, received, recoveries, slow, errors>>

---------------------------------------------------------------------------
(* deliverOnce *)

\* Load the client: it has an active endpoint, it has none, or the query
\* fails and the attempt is counted.
Lookup(d, e) ==
  /\ disp[d].pc = "lookup"
  /\ e \in disp[d].rows
  /\ \E l \in {"post", "setSkipped", "reschedule"} :
       /\ Become(d, [disp[d] EXCEPT !.pc = l, !.cur = e])
       /\ IF l = "reschedule" THEN Error ELSE UNCHANGED errors
  /\ UNCHANGED <<row, log, posts, received, recoveries, slow>>

\* The POST is answered with a 2xx, with 429 or 5xx, with another status, or
\* not at all; in the last case the endpoint may have taken the event in.
Post(d) ==
  LET e == disp[d].cur
      takenIn == received' = [received EXCEPT ![e] = @ + 1]
  IN
  /\ disp[d].pc = "post"
  /\ posts' = [posts EXCEPT ![e] = @ + 1]
  /\ \/ takenIn /\ Goto(d, AfterOk) /\ UNCHANGED errors
     \/ \E retryable \in BOOLEAN :
          AfterFailure(d, retryable) /\ UNCHANGED <<received, errors>>
     \/ takenIn /\ AfterFailure(d, TRUE) /\ Error
  /\ UNCHANGED <<row, log, recoveries, slow>>

\* The writes of the outcome name the row by its id only.
SetDelivered(d) ==
  /\ disp[d].pc = "setDelivered"
  /\ Updated(disp[d].cur, "delivered", Attempted(d))
  /\ Become(d, [Without(disp[d]) EXCEPT !.pc = "logDelivered"])
  /\ UNCHANGED <<log, posts, received, recoveries, slow, errors>>

\* That write is inside the try block: when it fails, before or after it took
\* effect, the error counts as a failed attempt.
SetDeliveredFails(d) ==
  /\ disp[d].pc = "setDelivered"
  /\ Error
  /\ Updated(disp[d].cur, "delivered", Attempted(d)) \/ UNCHANGED row
  /\ AfterFailure(d, TRUE)
  /\ UNCHANGED <<log, posts, received, recoveries, slow>>

SetFailed(d) ==
  /\ disp[d].pc = "setFailed"
  /\ Updated(disp[d].cur, "failed", Attempted(d))
  /\ Become(d, [Without(disp[d]) EXCEPT !.pc = "logFailed"])
  /\ UNCHANGED <<log, posts, received, recoveries, slow, errors>>

SetSkipped(d) ==
  /\ disp[d].pc = "setSkipped"
  /\ Updated(disp[d].cur, "skipped", disp[d].attempts[disp[d].cur])
  /\ Become(d, Resume(Without(disp[d])))
  /\ UNCHANGED <<log, posts, received, recoveries, slow, errors>>

\* Back to pending, due again after a delay.
RescheduledKeepsStatus(r, attempts) ==
  [r EXCEPT !.attempts = attempts, !.due = FALSE, !.old = FALSE]
RescheduledNew(r, attempts) == [NoRow EXCEPT !.status = "new"]
Rescheduled(r, attempts) ==
  [status |-> "pending", attempts |-> attempts, due |-> FALSE, old |-> FALSE]

Reschedule(d) ==
  LET e == disp[d].cur
  IN
  /\ disp[d].pc = "reschedule"
  /\ row' = [row EXCEPT ![e] = Rescheduled(@, Attempted(d))]
  /\ Become(d, Resume(Without(disp[d])))
  /\ UNCHANGED <<log, posts, received, recoveries, slow, errors>>

\* recordDelivery swallows its errors.
RecordDelivery(d) ==
  LET outcome == IF disp[d].pc = "logDelivered" THEN "success" ELSE "failure"
  IN
  /\ disp[d].pc \in {"logDelivered", "logFailed"}
  /\ \/ log' = [log EXCEPT ![disp[d].cur] = @ \cup {outcome}] /\ UNCHANGED errors
     \/ UNCHANGED log /\ Error
  /\ Become(d, Resume(disp[d]))
  /\ UNCHANGED <<row, posts, received, recoveries, slow>>

---------------------------------------------------------------------------
(* The environment *)

\* The process dies, or a statement outside the try block throws and ends the
\* tick: the rows claimed and not yet dealt with stay behind.
Abort(d) ==
  /\ disp[d].pc # "idle"
  /\ Error
  /\ Become(d, Idle)
  /\ UNCHANGED <<row, log, posts, received, recoveries, slow>>

\* next_attempt_at is reached.
BecomeDue(e) ==
  /\ row[e].status = "pending"
  /\ ~row[e].due
  /\ row' = [row EXCEPT ![e].due = TRUE]
  /\ UNCHANGED <<disp, log, posts, received, recoveries, slow, errors>>

Holds(d, e) == e \in disp[d].rows
Held(e) == \E d \in Dispatcher : Holds(d, e)

\* A claim gets old: nobody works on it any more, or it is a slow one.
Age(e) ==
  /\ row[e].status = "delivering"
  /\ ~row[e].old
  /\ row' = [row EXCEPT ![e].old = TRUE]
  /\ IF Held(e) THEN slow < MaxSlow /\ slow' = slow + 1 ELSE UNCHANGED slow
  /\ UNCHANGED <<disp, log, posts, received, recoveries, errors>>

---------------------------------------------------------------------------
(* The specification *)

Continue(d) ==
  \/ Claim(d)
  \/ \E e \in Event : Lookup(d, e)
  \/ Post(d)
  \/ SetDelivered(d)
  \/ SetDeliveredFails(d)
  \/ SetFailed(d)
  \/ SetSkipped(d)
  \/ Reschedule(d)
  \/ RecordDelivery(d)

Next ==
  \/ \E d \in Dispatcher : Recover(d) \/ Continue(d) \/ Abort(d)
  \/ \E e \in Event : Enqueue(e) \/ BecomeDue(e) \/ Age(e)

Spec == Init /\ [][Next]_vars

\* setInterval calls tick again and again, an await comes back, time passes.
\* Nothing forces an event to be enqueued, a claim to be slow, or an error.
Fairness ==
  /\ \A d \in Dispatcher : WF_vars(Recover(d)) /\ WF_vars(Continue(d))
  /\ \A e \in Event : WF_vars(BecomeDue(e)) /\ WF_vars(~Held(e) /\ Age(e))

FairSpec == Spec /\ Fairness

---------------------------------------------------------------------------
(* Properties *)

Holders(e) == {d \in Dispatcher : Holds(d, e)}

\* How many dispatchers work on an event at once, or may start to: one, and
\* one more for each time its claim was taken away as stuck.  The claim alone
\* never hands out a row twice, nor does a late write of the outcome.
ClaimsBounded ==
  \A e \in Event :
    Cardinality(Holders(e)) + (IF row[e].status = "pending" THEN 1 ELSE 0)
      <= 1 + recoveries[e]

\* No client is sent an event more often than configured, except that each
\* recovery may start the count anew: late writers can lower the attempts
\* column but not without end.
PostsBounded ==
  \A e \in Event : posts[e] <= MaxAttempts * (1 + recoveries[e])

\* A client takes an event in twice only after a recovery, or an error behind
\* a POST that went through.
ReceivedBounded ==
  \A e \in Event : received[e] <= 1 + recoveries[e] + errors

\* A row that is delivering has somebody who delivers it, unless something
\* failed: neither a late write nor a recovery strands it.
NoOrphans ==
  \A e \in Event : row[e].status = "delivering" /\ errors = 0 => Held(e)

\* What the outbox and the delivery log call delivered did reach the client.
DeliveredWasReceived ==
  \A e \in Event :
    row[e].status = "delivered" \/ "success" \in log[e] => received[e] > 0

\* Every event that is written to the outbox comes to a final status and
\* keeps it, in spite of crashes, stuck claims and late writers.
EventuallyFinal ==
  \A e \in Event :
    row[e].status = "pending" ~> [](row[e].status \in Terminal)

---------------------------------------------------------------------------
(* What a comment says, and the code does not keep *)

\* "Rows are claimed with FOR UPDATE SKIP LOCKED so multiple instances never
\* deliver the same event twice" (001_init.sql).
DeliveredOnce == \A e \in Event : received[e] <= 1

=============================================================================
