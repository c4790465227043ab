------------------------------ MODULE PayOnce ------------------------------
(***************************************************************************)
(* What the payout rail promises, without handlers, table or chain: a      *)
(* payout leaves the treasury at most once, the payouts sent together are  *)
(* paid together or not at all, and a payout is announced as confirmed at  *)
(* most once and only after it was paid.                                   *)
(***************************************************************************)
CONSTANT Payout

VARIABLES
  fate,      \* what became of the money of each payout
  group,     \* the payouts it was sent together with
  announced  \* the payouts whose confirmation was announced

vars == <<fate, group, announced>>

Init ==
  /\ fate = [p \in Payout |-> "unsent"]
  /\ group = [p \in Payout |-> {}]
  /\ announced = {}

Send(P) ==
  /\ P # {}
  /\ \A p \in P : fate[p] = "unsent"
  /\ fate' = [p \in Payout |-> IF p \in P THEN "pending" ELSE fate[p]]
  /\ group' = [p \in Payout |-> IF p \in P THEN P ELSE group[p]]
  /\ UNCHANGED announced

Settle(p, outcome) ==
  /\ fate[p] = "pending"
  /\ fate' = [q \in Payout |-> IF q \in group[p] THEN outcome ELSE fate[q]]
  /\ UNCHANGED <<group, announced>>

Announce(p) ==
  /\ fate[p] = "paid"
  /\ p \notin announced
  /\ announced' = announced \cup {p}
  /\ UNCHANGED <<fate, group>>

Next ==
  \/ \E P \in SUBSET Payout : Send(P)
  \/ \E p \in Payout : \E outcome \in {"paid", "bounced"} : Settle(p, outcome)
  \/ \E p \in Payout : Announce(p)

Spec == Init /\ [][Next]_vars

=============================================================================
