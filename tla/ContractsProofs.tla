-------------------------- MODULE ContractsProofs --------------------------
(***************************************************************************)
(* Proofs about Contracts: the logs account for every unit, an invoice is  *)
(* paid once and a payout executed once, a batch is paid as a whole, and   *)
(* an expiry holds.  And about Checkout, over the same router: a session   *)
(* is charged once, what a page shows as confirmed is settled, and a       *)
(* payment reverts for a reason.                                           *)
(*                                                                         *)
(* The invariants are stated for a ledger and a bag of events, so that     *)
(* they can be followed through the loop over the legs of a batch, whose   *)
(* ledger and events are in no state of the chain.                         *)
(***************************************************************************)
EXTENDS Contracts, Checkout, FiniteSetTheorems, WellFoundedInduction, TLAPS

---------------------------------------------------------------------------
(* Induction over a set of numbers, and over the subsets of a finite set *)

Less == {p \in Nat \X Nat : p[1] < p[2]}

\* There is no infinite descent among the naturals.
LEMMA LessWellFounded == IsWellFoundedOn(Less, Nat)
  BY NatLessThanWellFounded DEF OpToRel, Less

\* A set with 0 that is closed under successors has all the naturals.
LEMMA SetInduction ==
  ASSUME NEW S \in SUBSET Nat, 0 \in S, \A n \in S : n + 1 \in S
  PROVE  S = Nat
  <1> DEFINE T == Nat \ S
  <1>1. SUFFICES ASSUME T # {} PROVE FALSE
    OBVIOUS
  <1>2. PICK x \in T : \A y \in T : <<y, x>> \notin Less
    BY <1>1, LessWellFounded, WFMin, T \subseteq Nat
  <1>3. x \in Nat /\ x # 0 /\ x - 1 \in Nat
    OBVIOUS
  <1>4. x - 1 \notin S
    BY <1>3
  <1>5. <<x - 1, x>> \in Less
    BY <1>3 DEF Less
  <1> QED BY <1>2, <1>3, <1>4, <1>5

\* What holds for a subset of a finite set whenever it holds for the subset
\* without any one of its elements, holds for all subsets.
LEMMA SubsetInduction ==
  ASSUME NEW T, IsFiniteSet(T), NEW G,
         \A s \in SUBSET T : (\A x \in s : s \ {x} \in G) => s \in G
  PROVE  SUBSET T \subseteq G
  <1> DEFINE S == {n \in Nat : \A s \in SUBSET T : Cardinality(s) = n => s \in G}
  <1>1. 0 \in S
    <2> SUFFICES ASSUME NEW s \in SUBSET T, Cardinality(s) = 0
                 PROVE  s \in G
      OBVIOUS
    <2>1. s = {}
      BY FS_Subset, FS_EmptySet
    <2> QED BY <2>1
  <1>2. ASSUME NEW n \in S
        PROVE  n + 1 \in S
    <2> SUFFICES ASSUME NEW s \in SUBSET T, Cardinality(s) = n + 1
                 PROVE  s \in G
      OBVIOUS
    <2>1. ASSUME NEW x \in s
          PROVE  s \ {x} \in G
      <3>1. IsFiniteSet(s)
        BY FS_Subset
      <3>2. Cardinality(s \ {x}) = n
        BY <3>1, FS_RemoveElement
      <3> QED BY <3>2
    <2> QED BY <2>1
  <1>3. S = Nat
    <2> HIDE DEF S
    <2> S \in SUBSET Nat
      BY DEF S
    <2> QED BY <1>1, <1>2, SetInduction
  <1> SUFFICES ASSUME NEW s \in SUBSET T
               PROVE  s \in G
    OBVIOUS
  <1>4. Cardinality(s) \in Nat
    BY FS_Subset, FS_CardinalityType
  <1> QED BY <1>3, <1>4

---------------------------------------------------------------------------
(* Sums *)

Pick(s) == CHOOSE x \in s : TRUE

\* f is the sum of g over each subset of T, as the library computes it.
SumStep(f, g, s) == IF s = {} THEN 0 ELSE g[Pick(s)] + f[s \ {Pick(s)}]
IsSum(f, g, T) == f = [s \in SUBSET T |-> SumStep(f, g, s)]

NatValued(g, T) == \A x \in T : g[x] \in Nat

\* Any element may be taken out of a sum.
Removes(f, g, T) == \A s \in SUBSET T : \A x \in s : f[s] = g[x] + f[s \ {x}]

Total(g, T) == (CHOOSE f : IsSum(f, g, T))[T]

\* An element is picked from every set that has one.
LEMMA Picked ==
  ASSUME NEW s, s # {}
  PROVE  Pick(s) \in s
  BY DEF Pick

\* That function is there: it is built up from the smaller subsets.
LEMMA SumExists ==
  ASSUME NEW T, IsFiniteSet(T), NEW g
  PROVE  \E f : IsSum(f, g, T)
  <1> DEFINE D(n) == {s \in SUBSET T : Cardinality(s) <= n}
             Upto(f, n) == f = [s \in D(n) |-> SumStep(f, g, s)]
             S == {n \in Nat : \E f : Upto(f, n)}
  <1>0. ASSUME NEW s \in SUBSET T
        PROVE  /\ IsFiniteSet(s) /\ Cardinality(s) \in Nat
               /\ s # {} => Cardinality(s \ {Pick(s)}) = Cardinality(s) - 1
    <2>1. IsFiniteSet(s) /\ Cardinality(s) \in Nat
      BY FS_Subset, FS_CardinalityType
    <2>2. s # {} => Pick(s) \in s
      BY Picked
    <2>3. ASSUME NEW x \in s
          PROVE  Cardinality(s \ {x}) = Cardinality(s) - 1
      BY <2>1, FS_RemoveElement
    <2> QED BY <2>1, <2>2, <2>3
  <1>1. 0 \in S
    <2> DEFINE f == [s \in D(0) |-> 0]
    <2>1. ASSUME NEW s \in D(0)
          PROVE  s = {}
      <3>1. s \in SUBSET T /\ Cardinality(s) <= 0
        OBVIOUS
      <3>2. IsFiniteSet(s) /\ Cardinality(s) \in Nat
        BY <3>1, <1>0
      <3>3. Cardinality(s) = 0
        BY <3>1, <3>2
      <3> QED BY <3>2, <3>3, FS_EmptySet
    <2>2. \A s \in D(0) : SumStep(f, g, s) = 0
      BY <2>1 DEF SumStep
    <2>3. Upto(f, 0)
      BY <2>2
    <2> QED BY <2>3
  <1>2. ASSUME NEW n \in S
        PROVE  n + 1 \in S
    <2>1. PICK f : Upto(f, n)
      OBVIOUS
    <2> DEFINE h == [s \in D(n + 1) |-> SumStep(f, g, s)]
    <2>2. ASSUME NEW s \in D(n)
          PROVE  s \in D(n + 1) /\ h[s] = f[s]
      <3>1. s \in D(n + 1)
        <4>1. s \in SUBSET T /\ Cardinality(s) <= n
          OBVIOUS
        <4>2. Cardinality(s) \in Nat /\ n \in Nat
          BY <4>1, <1>0
        <4>3. Cardinality(s) <= n + 1
          BY <4>1, <4>2
        <4> QED BY <4>1, <4>3
      <3>2. f[s] = SumStep(f, g, s)
        BY <2>1
      <3> QED BY <3>1, <3>2
    <2>3. ASSUME NEW s \in D(n + 1)
          PROVE  SumStep(f, g, s) = SumStep(h, g, s)
      <3>1. CASE s = {}
        BY <3>1 DEF SumStep
      <3>2. CASE s # {}
        <4>1. s \ {Pick(s)} \in D(n)
          <5>1. s \in SUBSET T /\ Cardinality(s) <= n + 1
            OBVIOUS
          <5>2. /\ Cardinality(s) \in Nat /\ n \in Nat
                /\ Cardinality(s \ {Pick(s)}) = Cardinality(s) - 1
            BY <5>1, <3>2, <1>0
          <5>3. Cardinality(s \ {Pick(s)}) <= n
            BY <5>1, <5>2
          <5> QED BY <5>1, <5>3
        <4>2. h[s \ {Pick(s)}] = f[s \ {Pick(s)}]
          BY <4>1, <2>2
        <4> QED BY <4>2 DEF SumStep
      <3> QED BY <3>1, <3>2
    <2>4. Upto(h, n + 1)
      BY <2>3
    <2>5. \E q : Upto(q, n + 1)
      <3> HIDE DEF h, Upto
      <3> QED BY <2>4
    <2>6. n + 1 \in Nat
      OBVIOUS
    <2> QED BY <2>5, <2>6
  <1>3. S = Nat
    <2> HIDE DEF S
    <2> S \in SUBSET Nat
      BY DEF S
    <2> QED BY <1>1, <1>2, SetInduction
  <1>4. PICK f : Upto(f, Cardinality(T))
    BY <1>3, FS_CardinalityType
  <1>5. D(Cardinality(T)) = SUBSET T
    BY FS_Subset, <1>0
  <1> QED BY <1>4, <1>5 DEF IsSum

\* It is a number.
LEMMA SumTyped ==
  ASSUME NEW T, IsFiniteSet(T), NEW g, NatValued(g, T), NEW f, IsSum(f, g, T)
  PROVE  \A s \in SUBSET T : f[s] \in Nat
  <1> DEFINE G == {s \in SUBSET T : f[s] \in Nat}
  <1>1. ASSUME NEW s \in SUBSET T, \A x \in s : s \ {x} \in G
        PROVE  s \in G
    <2>1. f[s] = SumStep(f, g, s)
      BY DEF IsSum
    <2>2. CASE s = {}
      BY <2>1, <2>2 DEF SumStep
    <2>3. CASE s # {}
      <3>1. Pick(s) \in s
        BY <2>3, Picked
      <3>2. g[Pick(s)] \in Nat /\ f[s \ {Pick(s)}] \in Nat
        BY <1>1, <3>1 DEF NatValued
      <3> QED BY <2>1, <2>3, <3>2 DEF SumStep
    <2> QED BY <2>2, <2>3
  <1>2. SUBSET T \subseteq G
    <2> HIDE DEF G
    <2> QED BY <1>1, SubsetInduction
  <1> QED BY <1>2

\* The sum does not depend on the order in which elements are picked.
LEMMA SumRemoves ==
  ASSUME NEW T, IsFiniteSet(T), NEW g, NatValued(g, T), NEW f, IsSum(f, g, T)
  PROVE  Removes(f, g, T)
  <1> DEFINE G == {s \in SUBSET T : \A x \in s : f[s] = g[x] + f[s \ {x}]}
  <1>1. ASSUME NEW s \in SUBSET T, \A x \in s : s \ {x} \in G
        PROVE  s \in G
    <2>1. f[s] = SumStep(f, g, s)
      BY DEF IsSum
    <2>2. CASE s = {}
      BY <2>1, <2>2 DEF SumStep
    <2>3. CASE s # {}
      <3> DEFINE p == Pick(s)
      <3>1. p \in s
        BY <2>3, Picked
      <3> HIDE DEF p
      <3>2. f[s] = g[p] + f[s \ {p}]
        BY <2>1, <2>3 DEF SumStep, p
      <3>3. f[s \ {p}] \in Nat /\ g[p] \in Nat
        BY <3>1, SumTyped DEF NatValued
      <3>4. ASSUME NEW x \in s, x # p
            PROVE  f[s] = g[x] + f[s \ {x}]
        <4>1. f[s \ {p}] = g[x] + f[(s \ {p}) \ {x}]
          BY <1>1, <3>1, <3>4
        <4>2. f[s \ {x}] = g[p] + f[(s \ {x}) \ {p}]
          BY <1>1, <3>1, <3>4
        <4>3. (s \ {p}) \ {x} = (s \ {x}) \ {p}
          OBVIOUS
        <4>4. /\ g[x] \in Nat /\ f[s \ {x}] \in Nat
              /\ f[(s \ {p}) \ {x}] \in Nat
          BY <3>4, SumTyped DEF NatValued
        <4> QED BY <3>2, <3>3, <4>1, <4>2, <4>3, <4>4
      <3> QED BY <3>1, <3>2, <3>3, <3>4
    <2> QED BY <2>2, <2>3
  <1>2. SUBSET T \subseteq G
    <2> HIDE DEF G
    <2> QED BY <1>1, SubsetInduction
  <1> QED BY <1>2 DEF Removes

\* The function is the only one, so the sum has the properties of any.
LEMMA SumUnique ==
  ASSUME NEW T, IsFiniteSet(T), NEW g, NEW h, \A x \in T : g[x] = h[x],
         NEW f1, IsSum(f1, g, T), NEW f2, NEW T2, T \subseteq T2, IsSum(f2, h, T2)
  PROVE  \A s \in SUBSET T : f1[s] = f2[s]
  <1> DEFINE G == {s \in SUBSET T : f1[s] = f2[s]}
  <1>1. ASSUME NEW s \in SUBSET T, \A x \in s : s \ {x} \in G
        PROVE  s \in G
    <2>1. f1[s] = SumStep(f1, g, s) /\ f2[s] = SumStep(f2, h, s)
      BY DEF IsSum
    <2>2. CASE s = {}
      BY <2>1, <2>2 DEF SumStep
    <2>3. CASE s # {}
      <3>1. Pick(s) \in s
        BY <2>3, Picked
      <3>2. f1[s \ {Pick(s)}] = f2[s \ {Pick(s)}] /\ g[Pick(s)] = h[Pick(s)]
        BY <1>1, <3>1
      <3> QED BY <2>1, <2>3, <3>2 DEF SumStep
    <2> QED BY <2>2, <2>3
  <1>2. SUBSET T \subseteq G
    <2> HIDE DEF G
    <2> QED BY <1>1, SubsetInduction
  <1> QED BY <1>2

\* The total is what any such function, also over a larger set, has for it.
LEMMA TotalIs ==
  ASSUME NEW T, IsFiniteSet(T), NEW g, NEW h, \A x \in T : g[x] = h[x],
         NEW f, NEW T2, T \subseteq T2, IsSum(f, h, T2)
  PROVE  Total(g, T) = f[T]
  <1>1. PICK f1 : f1 = (CHOOSE q : IsSum(q, g, T))
    OBVIOUS
  <1>2. IsSum(f1, g, T)
    BY <1>1, SumExists
  <1>3. f1[T] = f[T]
    BY <1>2, SumUnique, T \in SUBSET T
  <1> QED BY <1>1, <1>3 DEF Total

\* A sum of numbers is a number.
LEMMA TotalTyped ==
  ASSUME NEW T, IsFiniteSet(T), NEW g, NatValued(g, T)
  PROVE  Total(g, T) \in Nat
  <1>1. PICK f : IsSum(f, g, T)
    BY SumExists
  <1>2. Total(g, T) = f[T]
    BY <1>1, TotalIs
  <1> QED BY <1>1, <1>2, SumTyped, T \in SUBSET T

\* The sum of nothing.
LEMMA TotalEmpty ==
  ASSUME NEW g
  PROVE  Total(g, {}) = 0
  <1>1. PICK f : IsSum(f, g, {})
    BY SumExists, FS_EmptySet
  <1>2. Total(g, {}) = f[{}]
    BY <1>1, TotalIs, FS_EmptySet
  <1>3. f[{}] = 0
    BY <1>1 DEF IsSum, SumStep
  <1> QED BY <1>2, <1>3

\* Functions that agree have the same sum.
LEMMA TotalSame ==
  ASSUME NEW T, IsFiniteSet(T), NEW g, NEW h, \A x \in T : g[x] = h[x]
  PROVE  Total(g, T) = Total(h, T)
  <1>1. PICK f : IsSum(f, h, T)
    BY SumExists
  <1>2. Total(g, T) = f[T]
    BY <1>1, TotalIs
  <1>3. Total(h, T) = f[T]
    BY <1>1, TotalIs
  <1> QED BY <1>2, <1>3

\* A summand may be taken out.
LEMMA TotalRemove ==
  ASSUME NEW T, IsFiniteSet(T), NEW g, NatValued(g, T), NEW x \in T
  PROVE  Total(g, T) = g[x] + Total(g, T \ {x})
  <1>1. PICK f : IsSum(f, g, T)
    BY SumExists
  <1>2. Total(g, T) = f[T]
    BY <1>1, TotalIs
  <1>3. Total(g, T \ {x}) = f[T \ {x}]
    <2>1. IsFiniteSet(T \ {x})
      BY FS_RemoveElement
    <2>2. ASSUME NEW U, U = T \ {x}
          PROVE  Total(g, U) = f[U]
      <3>1. IsFiniteSet(U) /\ U \subseteq T
        BY <2>1, <2>2
      <3> QED BY <3>1, <1>1, TotalIs
    <2> QED BY <2>2
  <1>4. Removes(f, g, T)
    BY <1>1, SumRemoves
  <1>5. f[T] = g[x] + f[T \ {x}]
    BY <1>4 DEF Removes
  <1> QED BY <1>2, <1>3, <1>5

\* From g to h one summand is new or grows by m.
Grows(g, h, D, x, m) ==
  /\ \A e \in D \ {x} : h[e] = g[e]
  /\ h[x] = (IF x \in D THEN g[x] ELSE 0) + m

\* One summand is new or grows by m: the sum over those selected grows by m if
\* it is among them.
LEMMA TotalAdds ==
  ASSUME NEW D, IsFiniteSet(D), NEW x, NEW g, NEW h, NEW m \in Nat,
         NatValued(g, D), Grows(g, h, D, x, m), NEW Z
  PROVE  Total(h, Z \cap (D \cup {x})) =
           Total(g, Z \cap D) + (IF x \in Z THEN m ELSE 0)
  <1>0. /\ \A e \in D \ {x} : h[e] = g[e]
        /\ h[x] = (IF x \in D THEN g[x] ELSE 0) + m
    BY DEF Grows
  <1>1. ASSUME NEW S, S = Z \cap D, NEW S2, S2 = Z \cap (D \cup {x})
        PROVE  Total(h, S2) = Total(g, S) + (IF x \in Z THEN m ELSE 0)
    <2>1. IsFiniteSet(D \cup {x})
      BY FS_AddElement
    <2>2. S \in SUBSET D /\ S2 \in SUBSET (D \cup {x})
      BY <1>1
    <2>3. IsFiniteSet(S) /\ IsFiniteSet(S2)
      BY <2>1, <2>2, FS_Subset
    <2>4. NatValued(g, S)
      BY <2>2 DEF NatValued
    <2>5. Total(g, S) \in Nat
      BY <2>3, <2>4, TotalTyped
    <2>6. CASE x \notin Z
      <3>1. S2 = S /\ \A e \in S2 : h[e] = g[e]
        BY <1>0, <1>1, <2>6
      <3>2. Total(h, S2) = Total(g, S)
        BY <3>1, <2>3, TotalSame
      <3> QED BY <3>2, <2>5, <2>6
    <2>7. CASE x \in Z
      <3>1. x \in S2 /\ S2 \ {x} = S \ {x} /\ \A e \in S \ {x} : h[e] = g[e]
        BY <1>0, <1>1, <2>7
      <3>2. x \in D => g[x] \in Nat
        BY DEF NatValued
      <3>3. h[x] \in Nat
        BY <3>2, <1>0
      <3>4. NatValued(h, S2)
        <4>1. ASSUME NEW e \in S2
              PROVE  h[e] \in Nat
          <5>1. CASE e = x
            BY <5>1, <3>3
          <5>2. CASE e # x
            <6>1. e \in D \ {x}
              BY <5>2, <2>2
            <6>2. h[e] = g[e] /\ g[e] \in Nat
              BY <6>1, <1>0 DEF NatValued
            <6> QED BY <6>2
          <5> QED BY <5>1, <5>2
        <4> QED BY <4>1 DEF NatValued
      <3>5. Total(h, S2) = h[x] + Total(h, S \ {x})
        BY <3>1, <3>4, <2>3, TotalRemove
      <3>6. IsFiniteSet(S \ {x})
        BY <2>3, FS_RemoveElement
      <3>7. Total(h, S \ {x}) = Total(g, S \ {x})
        <4>1. ASSUME NEW U, U = S \ {x}
              PROVE  Total(h, U) = Total(g, U)
          <5>1. IsFiniteSet(U) /\ \A e \in U : h[e] = g[e]
            BY <3>1, <3>6, <4>1
          <5> QED BY <5>1, TotalSame
        <4> QED BY <4>1
      <3>8. CASE x \in D
        <4>1. x \in S
          BY <1>1, <2>7, <3>8
        <4>2. Total(g, S) = g[x] + Total(g, S \ {x})
          BY <4>1, <2>3, <2>4, TotalRemove
        <4>3. Total(g, S \ {x}) \in Nat
          <5>1. ASSUME NEW U, U = S \ {x}
                PROVE  Total(g, U) \in Nat
            <6>1. IsFiniteSet(U) /\ NatValued(g, U)
              BY <3>6, <5>1, <2>4 DEF NatValued
            <6> QED BY <6>1, TotalTyped
          <5> QED BY <5>1
        <4> QED BY <3>2, <3>5, <3>7, <3>8, <4>2, <4>3, <2>7, <1>0
      <3>9. CASE x \notin D
        <4>1. S \ {x} = S
          BY <1>1, <3>9
        <4>2. Total(h, S2) = h[x] + Total(g, S)
          BY <3>5, <3>7, <4>1
        <4>3. h[x] = m
          BY <3>9, <1>0
        <4> QED BY <4>2, <4>3, <2>5, <2>7
      <3> QED BY <3>8, <3>9
    <2> QED BY <2>6, <2>7
  <1> QED BY <1>1

---------------------------------------------------------------------------
(* The inductive invariant *)

\* A log is a finite bag of events with amounts.
LogOK(B) ==
  /\ IsABag(B)
  /\ IsFiniteSet(DOMAIN B)
  /\ \A e \in DOMAIN B : e.amount \in Nat

\* What events move, and how many they are.
Moved(B, T) == Total([e \in DOMAIN B |-> e.amount * B[e]], T)
Copied(B, T) == Total(B, T)

FromOf(B, a) == {e \in DOMAIN B : e.from = a}
ToOf(B, a) == {e \in DOMAIN B : e.to = a}
LegsOf(B, ref) == {e \in DOMAIN B : e.event = "PayoutExecuted" /\ e.batch = ref}

\* The log accounts for the balances.
AccountOK(l, B) ==
  \A a \in Account :
    l.balance[a] + Moved(B, FromOf(B, a)) = Funds[a] + Moved(B, ToOf(B, a))

\* The ids that are done are those of the events, and each has one event, once.
OnceOK(B, kind, ids) ==
  /\ \A e \in DOMAIN B :
       e.event = kind =>
         /\ e.id \in ids
         /\ B[e] = 1
         /\ \A d \in DOMAIN B : d.event = kind /\ d.id = e.id => d = e
  /\ \A id \in ids : \E e \in DOMAIN B : e.event = kind /\ e.id = id

\* The first n legs of a batch are paid.
LegsPaid(B, ref, legs, n) ==
  /\ Copied(B, LegsOf(B, ref)) = n
  /\ {[to |-> e.to, amount |-> e.amount] : e \in LegsOf(B, ref)}
       = {legs[i] : i \in 1 .. n}

BatchOK(B, ref, executed) ==
  IF executed THEN \E legs \in Legs : LegsPaid(B, ref, legs, Len(legs))
  ELSE LegsOf(B, ref) = {}

BatchesOK(B, done) == \A ref \in PayoutRef : BatchOK(B, ref, ref \in done)

\* The ids of payouts are well formed.
IdsOK(executed) ==
  \A id \in executed :
    id.ref \in PayoutRef \cup LegRefs /\ id.to \in Account /\ id.amount \in Nat

\* What a call of the vault keeps, whichever ledger and log it has come to.
MoneyOK(l, B, executed, paid) ==
  /\ l \in Ledger
  /\ LogOK(B)
  /\ AccountOK(l, B)
  /\ OnceOK(B, "InvoicePaid", paid)
  /\ OnceOK(B, "PayoutExecuted", executed)
  /\ IdsOK(executed)

IInv ==
  /\ TypeOK
  /\ MoneyOK(ledger, logs, payoutExecuted, invoicePaid)
  /\ BatchesOK(logs, batchExecuted)

---------------------------------------------------------------------------
(* Logs *)

\* A log with one event more.
With(B, x) == B (+) SetToBag({x})

\* What that changes.
LEMMA WithOne ==
  ASSUME NEW B, LogOK(B), NEW x, x.amount \in Nat
  PROVE  /\ LogOK(With(B, x))
         /\ DOMAIN With(B, x) = DOMAIN B \cup {x}
         /\ \A e \in DOMAIN B \ {x} : With(B, x)[e] = B[e]
         /\ With(B, x)[x] = (IF x \in DOMAIN B THEN B[x] ELSE 0) + 1
         /\ x \in DOMAIN B => B[x] \in Nat
  <1> DEFINE D == DOMAIN B \cup {x}
  <1>1. With(B, x) = [e \in D |-> (IF e \in DOMAIN B THEN B[e] ELSE 0)
                                  + (IF e \in {x} THEN [d \in {x} |-> 1][e] ELSE 0)]
    BY DEF With, (+), SetToBag
  <1>2. \A e \in DOMAIN B : B[e] \in Nat /\ B[e] > 0
    BY DEF LogOK, IsABag
  <1>3. \A e \in D : With(B, x)[e] = (IF e \in DOMAIN B THEN B[e] ELSE 0)
                                      + (IF e = x THEN 1 ELSE 0)
    BY <1>1
  <1>4. DOMAIN With(B, x) = D
    BY <1>1
  <1>5. IsABag(With(B, x))
    <2>1. \A e \in D : With(B, x)[e] \in Nat /\ With(B, x)[e] > 0
      BY <1>2, <1>3
    <2>2. With(B, x) = [e \in D |-> With(B, x)[e]]
      BY <1>1
    <2> QED BY <1>4, <2>1, <2>2 DEF IsABag
  <1>6. IsFiniteSet(D)
    BY FS_AddElement DEF LogOK
  <1>7. LogOK(With(B, x))
    BY <1>4, <1>5, <1>6 DEF LogOK
  <1>8. \A e \in DOMAIN B \ {x} : With(B, x)[e] = B[e]
    BY <1>2, <1>3
  <1> QED BY <1>2, <1>3, <1>4, <1>7, <1>8

\* The first part of a log may be put together first.
LEMMA WithAssociates ==
  ASSUME NEW A, NEW E, LogOK(A), LogOK(E), NEW x
  PROVE  With(A (+) E, x) = A (+) With(E, x)
  <1>1. ASSUME NEW e
        PROVE  /\ e \in DOMAIN A => A[e] \in Nat
               /\ e \in DOMAIN E => E[e] \in Nat
    BY DEF LogOK, IsABag
  <1> QED BY <1>1 DEF With, (+), SetToBag

\* A log and nothing more.
LEMMA WithNothing ==
  ASSUME NEW B, LogOK(B)
  PROVE  B (+) EmptyBag = B
  <1>1. \A e \in DOMAIN B : B[e] \in Nat
    BY DEF LogOK, IsABag
  <1>2. B = [e \in DOMAIN B |-> B[e]]
    BY DEF LogOK, IsABag
  <1> QED BY <1>1, <1>2 DEF (+), EmptyBag, SetToBag

\* Nothing is a log.
LEMMA EmptyLog == LogOK(EmptyBag) /\ DOMAIN EmptyBag = {}
  BY FS_EmptySet DEF LogOK, EmptyBag, SetToBag, IsABag

\* What events of a log move, and how many there are, are numbers.
LEMMA LogSumsTyped ==
  ASSUME NEW B, LogOK(B), NEW T \in SUBSET DOMAIN B
  PROVE  Moved(B, T) \in Nat /\ Copied(B, T) \in Nat
  <1>1. IsFiniteSet(T)
    BY FS_Subset DEF LogOK
  <1>2. \A e \in DOMAIN B : e.amount \in Nat /\ B[e] \in Nat
    BY DEF LogOK, IsABag
  <1>3. \A e \in DOMAIN B : e.amount * B[e] \in Nat
    BY <1>2
  <1>4. NatValued([e \in DOMAIN B |-> e.amount * B[e]], T) /\ NatValued(B, T)
    BY <1>2, <1>3 DEF NatValued
  <1> QED BY <1>1, <1>4, TotalTyped DEF Moved, Copied

\* One event more moves its amount.
LEMMA MovedWith ==
  ASSUME NEW B, LogOK(B), NEW x, x.amount \in Nat, NEW Z
  PROVE  Moved(With(B, x), Z \cap DOMAIN With(B, x)) =
           Moved(B, Z \cap DOMAIN B) + (IF x \in Z THEN x.amount ELSE 0)
  <1>1. ASSUME NEW C, C = With(B, x),
               NEW g, g = [e \in DOMAIN B |-> e.amount * B[e]],
               NEW h, h = [e \in DOMAIN C |-> e.amount * C[e]]
        PROVE  Total(h, Z \cap DOMAIN C) =
                 Total(g, Z \cap DOMAIN B) + (IF x \in Z THEN x.amount ELSE 0)
    <2>1. /\ DOMAIN C = DOMAIN B \cup {x}
          /\ \A e \in DOMAIN B \ {x} : C[e] = B[e]
          /\ C[x] = (IF x \in DOMAIN B THEN B[x] ELSE 0) + 1
          /\ x \in DOMAIN B => B[x] \in Nat
      BY <1>1, WithOne, ZenonT(30)
    <2>2. \A e \in DOMAIN B \ {x} : h[e] = g[e]
      BY <1>1, <2>1
    <2>3. h[x] = (IF x \in DOMAIN B THEN g[x] ELSE 0) + x.amount
      <3>1. h[x] = x.amount * C[x]
        BY <1>1, <2>1
      <3>2. CASE x \in DOMAIN B
        <4>1. g[x] = x.amount * B[x]
          BY <1>1, <3>2
        <4>2. \A m, n \in Nat : m * (n + 1) = m * n + m
          OBVIOUS
        <4> QED BY <3>1, <3>2, <4>1, <4>2, <2>1
      <3>3. CASE x \notin DOMAIN B
        BY <3>1, <3>3, <2>1
      <3> QED BY <3>2, <3>3
    <2>4. NatValued(g, DOMAIN B)
      <3>1. \A e \in DOMAIN B : e.amount \in Nat /\ B[e] \in Nat
        BY DEF LogOK, IsABag
      <3>2. \A m, n \in Nat : m * n \in Nat
        OBVIOUS
      <3> QED BY <1>1, <3>1, <3>2 DEF NatValued
    <2>5. IsFiniteSet(DOMAIN B)
      BY DEF LogOK
    <2>6. Total(h, Z \cap (DOMAIN B \cup {x})) =
            Total(g, Z \cap DOMAIN B) + (IF x \in Z THEN x.amount ELSE 0)
      <3>1. Grows(g, h, DOMAIN B, x, x.amount)
        BY <2>2, <2>3 DEF Grows
      <3> QED BY <3>1, <2>4, <2>5, TotalAdds
    <2> QED BY <2>1, <2>6
  <1> QED BY <1>1 DEF Moved

\* It is one more.
LEMMA CopiedWith ==
  ASSUME NEW B, LogOK(B), NEW x, x.amount \in Nat, NEW Z
  PROVE  Copied(With(B, x), Z \cap DOMAIN With(B, x)) =
           Copied(B, Z \cap DOMAIN B) + (IF x \in Z THEN 1 ELSE 0)
  <1>1. ASSUME NEW C, C = With(B, x)
        PROVE  Total(C, Z \cap DOMAIN C) =
                 Total(B, Z \cap DOMAIN B) + (IF x \in Z THEN 1 ELSE 0)
    <2>1. /\ DOMAIN C = DOMAIN B \cup {x}
          /\ \A e \in DOMAIN B \ {x} : C[e] = B[e]
          /\ C[x] = (IF x \in DOMAIN B THEN B[x] ELSE 0) + 1
      BY <1>1, WithOne, ZenonT(30)
    <2>2. NatValued(B, DOMAIN B) /\ IsFiniteSet(DOMAIN B)
      BY DEF LogOK, IsABag, NatValued
    <2>3. Total(C, Z \cap (DOMAIN B \cup {x})) =
            Total(B, Z \cap DOMAIN B) + (IF x \in Z THEN 1 ELSE 0)
      <3>1. Grows(B, C, DOMAIN B, x, 1)
        BY <2>1 DEF Grows
      <3> QED BY <3>1, <2>2, TotalAdds
    <2> QED BY <2>1, <2>3
  <1> QED BY <1>1 DEF Copied

\* What an account gave, with one event more.
LEMMA FromWith ==
  ASSUME NEW B, LogOK(B), NEW x, x.amount \in Nat, NEW a
  PROVE  Moved(With(B, x), FromOf(With(B, x), a)) =
           Moved(B, FromOf(B, a)) + (IF x.from = a THEN x.amount ELSE 0)
  <1>1. ASSUME NEW Z, Z = FromOf(With(B, x), a)
        PROVE  /\ Z \cap DOMAIN With(B, x) = Z
               /\ Z \cap DOMAIN B = FromOf(B, a)
               /\ x \in Z <=> x.from = a
    <2>1. DOMAIN With(B, x) = DOMAIN B \cup {x}
      BY WithOne
    <2> QED BY <1>1, <2>1 DEF FromOf
  <1>2. ASSUME NEW Z, Z = FromOf(With(B, x), a)
        PROVE  Moved(With(B, x), Z) = Moved(B, FromOf(B, a)) + (IF x.from = a THEN x.amount ELSE 0)
    BY <1>1, <1>2, MovedWith
  <1> QED BY <1>2

\* What it got.
LEMMA ToWith ==
  ASSUME NEW B, LogOK(B), NEW x, x.amount \in Nat, NEW a
  PROVE  Moved(With(B, x), ToOf(With(B, x), a)) =
           Moved(B, ToOf(B, a)) + (IF x.to = a THEN x.amount ELSE 0)
  <1>1. ASSUME NEW Z, Z = ToOf(With(B, x), a)
        PROVE  /\ Z \cap DOMAIN With(B, x) = Z
               /\ Z \cap DOMAIN B = ToOf(B, a)
               /\ x \in Z <=> x.to = a
    <2>1. DOMAIN With(B, x) = DOMAIN B \cup {x}
      BY WithOne
    <2> QED BY <1>1, <2>1 DEF ToOf
  <1>2. ASSUME NEW Z, Z = ToOf(With(B, x), a)
        PROVE  Moved(With(B, x), Z) = Moved(B, ToOf(B, a)) + (IF x.to = a THEN x.amount ELSE 0)
    BY <1>1, <1>2, MovedWith
  <1> QED BY <1>2

\* How many legs of a batch are paid.
LEMMA LegsWith ==
  ASSUME NEW B, LogOK(B), NEW x, x.amount \in Nat, NEW ref
  PROVE  Copied(With(B, x), LegsOf(With(B, x), ref)) =
           Copied(B, LegsOf(B, ref)) + (IF x.event = "PayoutExecuted" /\ x.batch = ref THEN 1 ELSE 0)
  <1>1. ASSUME NEW Z, Z = LegsOf(With(B, x), ref)
        PROVE  /\ Z \cap DOMAIN With(B, x) = Z
               /\ Z \cap DOMAIN B = LegsOf(B, ref)
               /\ x \in Z <=> x.event = "PayoutExecuted" /\ x.batch = ref
    <2>1. DOMAIN With(B, x) = DOMAIN B \cup {x}
      BY WithOne
    <2> QED BY <1>1, <2>1 DEF LegsOf
  <1>2. ASSUME NEW Z, Z = LegsOf(With(B, x), ref)
        PROVE  Copied(With(B, x), Z) = Copied(B, LegsOf(B, ref)) + (IF x.event = "PayoutExecuted" /\ x.batch = ref THEN 1 ELSE 0)
    BY <1>1, <1>2, CopiedWith
  <1> QED BY <1>2

\* An event for an id that is not done.
LEMMA OnceAdds ==
  ASSUME NEW B, LogOK(B), NEW x, x.amount \in Nat, NEW kind, NEW ids,
         OnceOK(B, kind, ids), x.event = kind, x.id \notin ids
  PROVE  OnceOK(With(B, x), kind, ids \cup {x.id})
  <1>1. ASSUME NEW C, C = With(B, x)
        PROVE  OnceOK(C, kind, ids \cup {x.id})
    <2>1. /\ DOMAIN C = DOMAIN B \cup {x}
          /\ \A e \in DOMAIN B \ {x} : C[e] = B[e]
          /\ C[x] = (IF x \in DOMAIN B THEN B[x] ELSE 0) + 1
      BY <1>1, WithOne, ZenonT(30)
    <2>2. x \notin DOMAIN B
      BY DEF OnceOK
    <2>3. C[x] = 1 /\ \A e \in DOMAIN B : C[e] = B[e]
      BY <2>1, <2>2
    <2> QED BY <2>1, <2>2, <2>3 DEF OnceOK
  <1> QED BY <1>1

\* An event of another kind.
LEMMA OnceKept ==
  ASSUME NEW B, LogOK(B), NEW x, x.amount \in Nat, NEW kind, NEW ids,
         OnceOK(B, kind, ids), x.event # kind
  PROVE  OnceOK(With(B, x), kind, ids)
  <1>1. ASSUME NEW C, C = With(B, x)
        PROVE  OnceOK(C, kind, ids)
    <2>1. /\ DOMAIN C = DOMAIN B \cup {x}
          /\ \A e \in DOMAIN B \ {x} : C[e] = B[e]
          /\ C[x] = (IF x \in DOMAIN B THEN B[x] ELSE 0) + 1
      BY <1>1, WithOne
    <2> QED BY <2>1 DEF OnceOK
  <1> QED BY <1>1

---------------------------------------------------------------------------
(* The ledger *)

\* An amount goes from one balance to another.
Moves(l, k, from, to, amount) ==
  \A a \in Account :
    k.balance[a] + (IF from = a THEN amount ELSE 0) =
      l.balance[a] + (IF to = a THEN amount ELSE 0)

\* A transfer moves its amount.
LEMMA TransferMoves ==
  ASSUME NEW l \in Ledger, NEW from \in Account, NEW to \in Account, NEW amount \in Nat,
         l.balance[from] >= amount
  PROVE  /\ Transferred(l, from, to, amount) \in Ledger
         /\ Transferred(l, from, to, amount).allowance = l.allowance
         /\ Moves(l, Transferred(l, from, to, amount), from, to, amount)
  <1> DEFINE taken == [l.balance EXCEPT ![from] = @ - amount]
             given == [taken EXCEPT ![to] = @ + amount]
  <1>1. l.balance \in [Account -> Nat]
    BY DEF Ledger
  <1>2. taken \in [Account -> Nat]
    BY <1>1
  <1>3. given \in [Account -> Nat]
    BY <1>2
  <1>4. Transferred(l, from, to, amount) = [l EXCEPT !.balance = given]
    BY DEF Transferred
  <1>5. \A a \in Account :
          given[a] + (IF from = a THEN amount ELSE 0) =
            l.balance[a] + (IF to = a THEN amount ELSE 0)
    BY <1>1, <1>2
  <1> HIDE DEF given
  <1>6. [l EXCEPT !.balance = given] \in Ledger
    BY <1>3 DEF Ledger
  <1>7. /\ [l EXCEPT !.balance = given].allowance = l.allowance
        /\ [l EXCEPT !.balance = given].balance = given
    BY DEF Ledger
  <1> QED BY <1>4, <1>5, <1>6, <1>7 DEF Moves

\* transferFrom moves its amount and takes it off the allowance.
LEMMA PullMoves ==
  ASSUME NEW l \in Ledger, NEW spender \in Account, NEW from \in Account,
         NEW to \in Account, NEW amount \in Nat, CanPull(l, spender, from, amount)
  PROVE  /\ Pulled(l, spender, from, to, amount) \in Ledger
         /\ Pulled(l, spender, from, to, amount).allowance =
              [l.allowance EXCEPT ![<<from, spender>>] = @ - amount]
         /\ Moves(l, Pulled(l, spender, from, to, amount), from, to, amount)
  <1>1. ASSUME NEW k, k = Transferred(l, from, to, amount),
               NEW left, left = [l.allowance EXCEPT ![<<from, spender>>] = @ - amount]
        PROVE  /\ [k EXCEPT !.allowance = left] \in Ledger
               /\ [k EXCEPT !.allowance = left].allowance = left
               /\ Moves(l, [k EXCEPT !.allowance = left], from, to, amount)
    <2>1. k \in Ledger /\ Moves(l, k, from, to, amount)
      BY <1>1, TransferMoves DEF CanPull
    <2>2. left \in [Account \X Account -> Nat]
      BY <1>1 DEF CanPull, Ledger
    <2>3. /\ [k EXCEPT !.allowance = left] \in Ledger
          /\ [k EXCEPT !.allowance = left].allowance = left
          /\ [k EXCEPT !.allowance = left].balance = k.balance
      BY <2>1, <2>2 DEF Ledger
    <2> QED BY <2>1, <2>3 DEF Moves
  <1> QED BY <1>1 DEF Pulled

\* The log goes on accounting for the balances when both tell the same.
LEMMA AccountKept ==
  ASSUME NEW l \in Ledger, NEW k \in Ledger, NEW B, LogOK(B), AccountOK(l, B),
         NEW x, x.amount \in Nat, Moves(l, k, x.from, x.to, x.amount)
  PROVE  AccountOK(k, With(B, x))
  <1> SUFFICES ASSUME NEW a \in Account
               PROVE  k.balance[a] + Moved(With(B, x), FromOf(With(B, x), a)) =
                        Funds[a] + Moved(With(B, x), ToOf(With(B, x), a))
    BY DEF AccountOK
  <1>1. Moved(With(B, x), FromOf(With(B, x), a)) =
          Moved(B, FromOf(B, a)) + (IF x.from = a THEN x.amount ELSE 0)
    BY FromWith
  <1>2. Moved(With(B, x), ToOf(With(B, x), a)) =
          Moved(B, ToOf(B, a)) + (IF x.to = a THEN x.amount ELSE 0)
    BY ToWith
  <1>3. Moved(B, FromOf(B, a)) \in Nat /\ Moved(B, ToOf(B, a)) \in Nat
    BY LogSumsTyped DEF FromOf, ToOf
  <1>4. k.balance[a] \in Nat /\ l.balance[a] \in Nat /\ Funds[a] \in Nat
    BY ContractsAssumption DEF Ledger
  <1>5. l.balance[a] + Moved(B, FromOf(B, a)) = Funds[a] + Moved(B, ToOf(B, a))
    BY DEF AccountOK
  <1>6. k.balance[a] + (IF x.from = a THEN x.amount ELSE 0) =
          l.balance[a] + (IF x.to = a THEN x.amount ELSE 0)
    BY DEF Moves
  <1>7. ASSUME NEW f, NEW g, NEW m \in Nat, NEW n \in Nat,
               f = Moved(B, FromOf(B, a)), g = Moved(B, ToOf(B, a)),
               m = (IF x.from = a THEN x.amount ELSE 0),
               n = (IF x.to = a THEN x.amount ELSE 0)
        PROVE  k.balance[a] + (f + m) = Funds[a] + (g + n)
    BY <1>3, <1>4, <1>5, <1>6, <1>7
  <1> QED BY <1>1, <1>2, <1>7

---------------------------------------------------------------------------
(* What a payment, a payout and a plain transfer do to the money *)

InvoiceEvent(payer, t, id) ==
  [event |-> "InvoicePaid", id |-> id, batch |-> None,
   from |-> payer, to |-> t, amount |-> id.amount]
PayoutEvent(f, id, batch) ==
  [event |-> "PayoutExecuted", id |-> id, batch |-> batch,
   from |-> f, to |-> id.to, amount |-> id.amount]

\* _settle
LEMMA SettleKeeps ==
  ASSUME NEW l, NEW B, NEW executed, NEW paid,
         MoneyOK(l, B, executed, paid),
         NEW payer \in Account, NEW t \in Account, NEW id, id.amount \in Nat,
         id \notin paid, CanPull(l, Router, payer, id.amount)
  PROVE  MoneyOK(Pulled(l, Router, payer, t, id.amount),
                 With(B, InvoiceEvent(payer, t, id)), executed, paid \cup {id})
  <1>1. ASSUME NEW k, k = Pulled(l, Router, payer, t, id.amount),
               NEW x, x = InvoiceEvent(payer, t, id)
        PROVE  MoneyOK(k, With(B, x), executed, paid \cup {id})
    <2>1. /\ x.event = "InvoicePaid" /\ x.id = id /\ x.from = payer /\ x.to = t
          /\ x.amount = id.amount
      BY <1>1 DEF InvoiceEvent
    <2>2. Router \in Account
      BY RouterAssumption
    <2>3. /\ l \in Ledger /\ LogOK(B) /\ AccountOK(l, B)
          /\ OnceOK(B, "InvoicePaid", paid) /\ OnceOK(B, "PayoutExecuted", executed)
          /\ IdsOK(executed)
      BY DEF MoneyOK
    <2>4. /\ k \in Ledger
          /\ k.allowance = [l.allowance EXCEPT ![<<payer, Router>>] = @ - id.amount]
          /\ Moves(l, k, payer, t, id.amount)
      BY <1>1, <2>2, <2>3, PullMoves
    <2> HIDE <1>1
    <2>5. LogOK(With(B, x))
      BY <2>1, <2>3, WithOne
    <2>6. AccountOK(k, With(B, x))
      BY <2>1, <2>3, <2>4, AccountKept
    <2>8. OnceOK(With(B, x), "InvoicePaid", paid \cup {id})
      BY <2>1, <2>3, OnceAdds
    <2>9. OnceOK(With(B, x), "PayoutExecuted", executed)
      BY <2>1, <2>3, OnceKept
    <2> QED BY <2>3, <2>4, <2>5, <2>6, <2>8, <2>9 DEF MoneyOK
  <1> QED BY <1>1

\* _execute
LEMMA ExecuteKeeps ==
  ASSUME NEW l, NEW B, NEW executed, NEW paid,
         MoneyOK(l, B, executed, paid),
         NEW f \in Account, NEW id, id.ref \in PayoutRef \cup LegRefs,
         id.to \in Account, id.amount \in Nat, id \notin executed, NEW batch,
         CanPull(l, Vault, f, id.amount)
  PROVE  MoneyOK(Pulled(l, Vault, f, id.to, id.amount),
                 With(B, PayoutEvent(f, id, batch)), executed \cup {id}, paid)
  <1>1. ASSUME NEW k, k = Pulled(l, Vault, f, id.to, id.amount),
               NEW x, x = PayoutEvent(f, id, batch)
        PROVE  MoneyOK(k, With(B, x), executed \cup {id}, paid)
    <2>1. /\ x.event = "PayoutExecuted" /\ x.id = id /\ x.from = f /\ x.to = id.to
          /\ x.amount = id.amount
      BY <1>1 DEF PayoutEvent
    <2>2. Vault \in Account
      BY VaultAssumption
    <2>3. /\ l \in Ledger /\ LogOK(B) /\ AccountOK(l, B)
          /\ OnceOK(B, "InvoicePaid", paid) /\ OnceOK(B, "PayoutExecuted", executed)
          /\ IdsOK(executed)
      BY DEF MoneyOK
    <2>4. /\ k \in Ledger
          /\ k.allowance = [l.allowance EXCEPT ![<<f, Vault>>] = @ - id.amount]
          /\ Moves(l, k, f, id.to, id.amount)
      BY <1>1, <2>2, <2>3, PullMoves
    <2> HIDE <1>1
    <2>5. LogOK(With(B, x))
      BY <2>1, <2>3, WithOne
    <2>6. AccountOK(k, With(B, x))
      BY <2>1, <2>3, <2>4, AccountKept
    <2>8. OnceOK(With(B, x), "PayoutExecuted", executed \cup {id})
      BY <2>1, <2>3, OnceAdds
    <2>9. OnceOK(With(B, x), "InvoicePaid", paid)
      BY <2>1, <2>3, OnceKept
    <2>10. IdsOK(executed \cup {id})
      BY <2>3 DEF IdsOK
    <2> QED BY <2>4, <2>5, <2>6, <2>8, <2>9, <2>10 DEF MoneyOK
  <1> QED BY <1>1

\* A transfer that is neither.
LEMMA TransferKeeps ==
  ASSUME NEW l, NEW B, NEW executed, NEW paid,
         MoneyOK(l, B, executed, paid),
         NEW x, x.event \notin {"InvoicePaid", "PayoutExecuted"}, x.amount \in Nat,
         x.from \in Account, x.to \in Account, l.balance[x.from] >= x.amount
  PROVE  MoneyOK(Transferred(l, x.from, x.to, x.amount), With(B, x), executed, paid)
  <1>1. ASSUME NEW k, k = Transferred(l, x.from, x.to, x.amount)
        PROVE  MoneyOK(k, With(B, x), executed, paid)
    <2>1. /\ l \in Ledger /\ LogOK(B) /\ AccountOK(l, B)
          /\ OnceOK(B, "InvoicePaid", paid) /\ OnceOK(B, "PayoutExecuted", executed)
          /\ IdsOK(executed)
      BY DEF MoneyOK
    <2>2. /\ k \in Ledger /\ k.allowance = l.allowance
          /\ Moves(l, k, x.from, x.to, x.amount)
      BY <1>1, <2>1, TransferMoves
    <2> HIDE <1>1
    <2>3. LogOK(With(B, x))
      BY <2>1, WithOne
    <2>4. AccountOK(k, With(B, x))
      BY <2>1, <2>2, AccountKept
    <2>6. /\ OnceOK(With(B, x), "InvoicePaid", paid)
          /\ OnceOK(With(B, x), "PayoutExecuted", executed)
      BY <2>1, OnceKept
    <2> QED BY <2>1, <2>2, <2>3, <2>4, <2>6 DEF MoneyOK
  <1> QED BY <1>1

\* An allowance is granted.
LEMMA GrantKeeps ==
  ASSUME NEW l, NEW B, NEW executed, NEW paid,
         MoneyOK(l, B, executed, paid),
         NEW owner \in Account, NEW spender \in {Router, Vault}, NEW amount \in Nat
  PROVE  MoneyOK(Approved(l, owner, spender, amount), B, executed, paid)
  <1>1. ASSUME NEW left, left = [l.allowance EXCEPT ![<<owner, spender>>] = amount],
               NEW k, k = Approved(l, owner, spender, amount)
        PROVE  MoneyOK(k, B, executed, paid)
    <2>1. /\ l \in Ledger /\ LogOK(B) /\ AccountOK(l, B)
          /\ OnceOK(B, "InvoicePaid", paid) /\ OnceOK(B, "PayoutExecuted", executed)
          /\ IdsOK(executed)
      BY DEF MoneyOK
    <2>2. Router \in Account /\ Vault \in Account /\ Router # Vault
      BY RouterAssumption, VaultAssumption, ContractsAssumption
    <2>3. l.allowance \in [Account \X Account -> Nat] /\ left \in [Account \X Account -> Nat]
      BY <1>1, <2>1, <2>2 DEF Ledger
    <2>4. k = [l EXCEPT !.allowance = left]
      BY <1>1, <2>1 DEF Approved, Ledger
    <2>5. k \in Ledger /\ k.allowance = left /\ k.balance = l.balance
      BY <2>1, <2>3, <2>4 DEF Ledger
    <2>6. AccountOK(k, B)
      BY <2>1, <2>5 DEF AccountOK
    <2> QED BY <2>1, <2>5, <2>6 DEF MoneyOK
  <1> QED BY <1>1

---------------------------------------------------------------------------
(* Batches *)

\* An event that is not of a batch leaves it as it is.
LEMMA BatchKept ==
  ASSUME NEW B, LogOK(B), NEW x, x.amount \in Nat, NEW ref,
         x.event # "PayoutExecuted" \/ x.batch # ref, NEW b, BatchOK(B, ref, b)
  PROVE  BatchOK(With(B, x), ref, b)
  <1>1. LegsOf(With(B, x), ref) = LegsOf(B, ref)
    <2>1. DOMAIN With(B, x) = DOMAIN B \cup {x}
      BY WithOne
    <2> QED BY <2>1 DEF LegsOf
  <1>2. Copied(With(B, x), LegsOf(With(B, x), ref)) = Copied(B, LegsOf(B, ref))
    <2>1. Copied(B, LegsOf(B, ref)) \in Nat
      BY LogSumsTyped DEF LegsOf
    <2> QED BY <2>1, LegsWith
  <1> QED BY <1>1, <1>2 DEF BatchOK, LegsPaid

\* The next leg of a batch is paid.
LEMMA NextLegPaid ==
  ASSUME NEW B, LogOK(B), NEW x, x.amount \in Nat, NEW ref, NEW legs, NEW n \in Nat,
         LegsPaid(B, ref, legs, n), x.event = "PayoutExecuted", x.batch = ref,
         legs[n + 1] = [to |-> x.to, amount |-> x.amount]
  PROVE  LegsPaid(With(B, x), ref, legs, n + 1)
  <1>1. LegsOf(With(B, x), ref) = LegsOf(B, ref) \cup {x}
    <2>1. DOMAIN With(B, x) = DOMAIN B \cup {x}
      BY WithOne
    <2> QED BY <2>1 DEF LegsOf
  <1>2. Copied(With(B, x), LegsOf(With(B, x), ref)) = n + 1
    <2>1. Copied(B, LegsOf(B, ref)) = n
      BY DEF LegsPaid
    <2> QED BY <2>1, LegsWith
  <1>3. {legs[i] : i \in 1 .. n + 1} = {legs[i] : i \in 1 .. n} \cup {legs[n + 1]}
    <2>1. 1 .. n + 1 = (1 .. n) \cup {n + 1}
      OBVIOUS
    <2> QED BY <2>1
  <1>4. {[to |-> e.to, amount |-> e.amount] : e \in LegsOf(B, ref) \cup {x}}
          = {[to |-> e.to, amount |-> e.amount] : e \in LegsOf(B, ref)}
              \cup {[to |-> x.to, amount |-> x.amount]}
    OBVIOUS
  <1>5. {[to |-> e.to, amount |-> e.amount] : e \in LegsOf(B, ref)}
          = {legs[i] : i \in 1 .. n}
    BY DEF LegsPaid
  <1> QED BY <1>1, <1>2, <1>3, <1>4, <1>5 DEF LegsPaid

\* A finite set of numbers has its largest.
LEMMA MaxIn ==
  ASSUME NEW n \in Nat, NEW s \in SUBSET (1 .. n), s # {}
  PROVE  Max(s) \in s /\ \A y \in s : Max(s) >= y
  <1> DEFINE G == {r \in SUBSET (1 .. n) : r = {} \/ \E x \in r : \A y \in r : x >= y}
  <1>1. ASSUME NEW r \in SUBSET (1 .. n), \A x \in r : r \ {x} \in G
        PROVE  r \in G
    <2> SUFFICES ASSUME r # {}
                 PROVE  \E x \in r : \A y \in r : x >= y
      OBVIOUS
    <2>1. PICK p \in r : TRUE
      OBVIOUS
    <2>2. \A y \in r : y \in Nat
      OBVIOUS
    <2>3. CASE r \ {p} = {}
      BY <2>1, <2>2, <2>3
    <2>4. CASE r \ {p} # {}
      <3>1. PICK x \in r \ {p} : \A y \in r \ {p} : x >= y
        BY <1>1, <2>4
      <3>2. CASE x >= p
        BY <3>1, <3>2, <2>2
      <3>3. CASE ~(x >= p)
        BY <3>1, <3>3, <2>2
      <3> QED BY <3>2, <3>3
    <2> QED BY <2>3, <2>4
  <1>2. SUBSET (1 .. n) \subseteq G
    <2>1. ASSUME NEW T, T = 1 .. n, NEW H, H = G
          PROVE  SUBSET T \subseteq H
      <3>1. IsFiniteSet(T)
        BY <2>1, FS_Interval
      <3>2. \A r \in SUBSET T : (\A x \in r : r \ {x} \in H) => r \in H
        <4> HIDE DEF G
        <4> QED BY <1>1, <2>1
      <3> HIDE <2>1
      <3> QED BY <3>1, <3>2, SubsetInduction
    <2> QED BY <2>1
  <1>3. \E x \in s : \A y \in s : x >= y
    BY <1>2
  <1> QED BY <1>3 DEF Max

\* The largest of 1 .. n + 1.
LEMMA MaxOfInterval ==
  ASSUME NEW n \in Nat
  PROVE  Max(1 .. n + 1) = n + 1 /\ (1 .. n + 1) \ {n + 1} = 1 .. n /\ 1 .. n + 1 # {}
  <1>1. 1 .. n + 1 # {} /\ n + 1 \in 1 .. n + 1
    OBVIOUS
  <1>2. Max(1 .. n + 1) \in 1 .. n + 1 /\ \A y \in 1 .. n + 1 : Max(1 .. n + 1) >= y
    <2>1. ASSUME NEW s, s = 1 .. n + 1
          PROVE  Max(s) \in s /\ \A y \in s : Max(s) >= y
      <3>1. s \in SUBSET (1 .. n + 1) /\ n + 1 \in Nat /\ s # {}
        BY <1>1, <2>1
      <3> QED BY <3>1, MaxIn
    <2> QED BY <2>1
  <1>3. Max(1 .. n + 1) = n + 1
    <2>1. ASSUME NEW m, m = Max(1 .. n + 1)
          PROVE  m = n + 1
      BY <1>1, <1>2, <2>1
    <2> QED BY <2>1
  <1>4. \A x : x \in (1 .. n + 1) \ {n + 1} <=> x \in 1 .. n
    OBVIOUS
  <1> QED BY <1>1, <1>3, <1>4

\* One iteration of the loop in payoutBatch.
LegStep(call, ref, legs, i) ==
  Executed(call, PayoutId(LegRef(ref, i), legs[i].to, legs[i].amount), ref)

\* f is the call after each set of legs, as the fold of the library computes it.
LoopStep(f, ref, legs, s) ==
  IF s = {} THEN Call ELSE LegStep(f[s \ {Max(s)}], ref, legs, Max(s))
LoopOver(f, ref, legs, T) == f = [s \in SUBSET T |-> LoopStep(f, ref, legs, s)]
IsLoop(f, ref, legs) == LoopOver(f, ref, legs, 1 .. Len(legs))

\* The fold of the library, with the order of the legs spelled out.
LibraryLoop(f, ref, legs, order) ==
  f = [s \in SUBSET DOMAIN order |->
         IF s = {} THEN Call
         ELSE LegStep(f[s \ {Max(s)}], ref, legs, order[Max(s)])]

\* ExecutedLegs is that fold.
LEMMA LoopExpanded ==
  ASSUME NEW ref, NEW legs
  PROVE  ExecutedLegs(ref, legs) =
           (CHOOSE f : LibraryLoop(f, ref, legs, [i \in DOMAIN legs |-> i]))
             [DOMAIN [i \in DOMAIN legs |-> i]]
  BY DEF ExecutedLegs, FoldLeftDomain, FoldLeft, MapThenFoldSet, LegStep, LibraryLoop

\* The loop can be followed: it is built up from fewer legs.
LEMMA LoopExists ==
  ASSUME NEW ref, NEW legs, NEW T, NEW N \in Nat, T = 1 .. N, IsFiniteSet(T)
  PROVE  \E f : LoopOver(f, ref, legs, T)
  <1> DEFINE D(n) == {s \in SUBSET T : Cardinality(s) <= n}
             Upto(f, n) == f = [s \in D(n) |-> LoopStep(f, ref, legs, s)]
             S == {n \in Nat : \E f : Upto(f, n)}
  <1>0. ASSUME NEW s \in SUBSET T
        PROVE  /\ IsFiniteSet(s) /\ Cardinality(s) \in Nat
               /\ s # {} => Cardinality(s \ {Max(s)}) = Cardinality(s) - 1
    <2>1. IsFiniteSet(s) /\ Cardinality(s) \in Nat
      BY FS_Subset, FS_CardinalityType
    <2>2. s # {} => Max(s) \in s
      BY MaxIn
    <2>3. ASSUME NEW x \in s
          PROVE  Cardinality(s \ {x}) = Cardinality(s) - 1
      BY <2>1, FS_RemoveElement
    <2> QED BY <2>1, <2>2, <2>3
  <1> HIDE <1>0
  <1>1. 0 \in S
    <2> DEFINE f == [s \in D(0) |-> Call]
    <2>1. ASSUME NEW s \in D(0)
          PROVE  s = {}
      <3>1. s \in SUBSET T /\ Cardinality(s) <= 0
        OBVIOUS
      <3>2. IsFiniteSet(s) /\ Cardinality(s) \in Nat
        BY <3>1, <1>0
      <3>3. Cardinality(s) = 0
        BY <3>1, <3>2
      <3> QED BY <3>2, <3>3, FS_EmptySet
    <2>2. \A s \in D(0) : LoopStep(f, ref, legs, s) = Call
      BY <2>1 DEF LoopStep
    <2>3. Upto(f, 0)
      BY <2>2
    <2>4. \E q : Upto(q, 0)
      <3> HIDE DEF f, Upto
      <3> QED BY <2>3
    <2> QED BY <2>4
  <1>2. ASSUME NEW n \in S
        PROVE  n + 1 \in S
    <2>1. PICK f : Upto(f, n)
      OBVIOUS
    <2> DEFINE h == [s \in D(n + 1) |-> LoopStep(f, ref, legs, s)]
    <2>2. ASSUME NEW s \in D(n)
          PROVE  s \in D(n + 1) /\ h[s] = f[s]
      <3>1. s \in D(n + 1)
        <4>1. s \in SUBSET T /\ Cardinality(s) <= n
          OBVIOUS
        <4>2. Cardinality(s) \in Nat /\ n \in Nat
          BY <4>1, <1>0
        <4>3. Cardinality(s) <= n + 1
          BY <4>1, <4>2
        <4> QED BY <4>1, <4>3
      <3>2. f[s] = LoopStep(f, ref, legs, s)
        BY <2>1
      <3> QED BY <3>1, <3>2
    <2>3. ASSUME NEW s \in D(n + 1)
          PROVE  LoopStep(f, ref, legs, s) = LoopStep(h, ref, legs, s)
      <3>1. CASE s = {}
        BY <3>1 DEF LoopStep
      <3>2. CASE s # {}
        <4>1. s \ {Max(s)} \in D(n)
          <5>1. s \in SUBSET T /\ Cardinality(s) <= n + 1
            OBVIOUS
          <5>2. /\ Cardinality(s) \in Nat /\ n \in Nat
                /\ Cardinality(s \ {Max(s)}) = Cardinality(s) - 1
            BY <5>1, <3>2, <1>0
          <5>3. Cardinality(s \ {Max(s)}) <= n
            BY <5>1, <5>2
          <5> QED BY <5>1, <5>3
        <4>2. h[s \ {Max(s)}] = f[s \ {Max(s)}]
          BY <4>1, <2>2
        <4> QED BY <4>2 DEF LoopStep
      <3> QED BY <3>1, <3>2
    <2>4. Upto(h, n + 1)
      BY <2>3
    <2>5. \E q : Upto(q, n + 1)
      <3> HIDE DEF h, Upto
      <3> QED BY <2>4
    <2>6. n + 1 \in Nat
      OBVIOUS
    <2> QED BY <2>5, <2>6
  <1>3. S = Nat
    <2> HIDE DEF S
    <2> S \in SUBSET Nat
      BY DEF S
    <2> QED BY <1>1, <1>2, SetInduction
  <1>4. PICK f : Upto(f, Cardinality(T))
    BY <1>3, FS_CardinalityType
  <1>5. D(Cardinality(T)) = SUBSET T
    BY FS_Subset, <1>0
  <1> QED BY <1>4, <1>5 DEF LoopOver

\* ExecutedLegs is the call after all legs.
LEMMA LoopFound ==
  ASSUME NEW ref, NEW legs, NEW R, legs \in Seq(R)
  PROVE  \E f : IsLoop(f, ref, legs) /\ ExecutedLegs(ref, legs) = f[1 .. Len(legs)]
  <1>1. Len(legs) \in Nat /\ DOMAIN legs = 1 .. Len(legs)
    OBVIOUS
  <1>2. PICK order : order = [i \in DOMAIN legs |-> i]
    OBVIOUS
  <1>3. DOMAIN order = 1 .. Len(legs) /\ \A i \in 1 .. Len(legs) : order[i] = i
    BY <1>1, <1>2
  <1>4. ASSUME NEW f
        PROVE  LibraryLoop(f, ref, legs, order) <=> IsLoop(f, ref, legs)
    <2>1. ASSUME NEW s \in SUBSET (1 .. Len(legs))
          PROVE  (IF s = {} THEN Call
                  ELSE LegStep(f[s \ {Max(s)}], ref, legs, order[Max(s)]))
                   = LoopStep(f, ref, legs, s)
      <3>1. s # {} => Max(s) \in 1 .. Len(legs)
        BY <1>1, MaxIn
      <3>2. s # {} => order[Max(s)] = Max(s)
        BY <3>1, <1>3
      <3> QED BY <3>2 DEF LoopStep
    <2> QED BY <2>1, <1>3 DEF LibraryLoop, IsLoop, LoopOver
  <1>5. \E f : IsLoop(f, ref, legs)
    <2>1. IsFiniteSet(1 .. Len(legs))
      BY <1>1, FS_Interval
    <2>2. ASSUME NEW T, T = 1 .. Len(legs), NEW N \in Nat, N = Len(legs)
          PROVE  \E f : LoopOver(f, ref, legs, T)
      <3>1. IsFiniteSet(T) /\ T = 1 .. N
        BY <2>1, <2>2
      <3> HIDE <2>2
      <3> QED BY <3>1, LoopExists
    <2> QED BY <2>2, <1>1 DEF IsLoop
  <1>6. PICK f : f = (CHOOSE q : LibraryLoop(q, ref, legs, order))
    OBVIOUS
  <1>7. LibraryLoop(f, ref, legs, order)
    BY <1>4, <1>5, <1>6
  <1>8. ExecutedLegs(ref, legs) = f[DOMAIN order]
    BY <1>2, <1>6, LoopExpanded
  <1> QED BY <1>3, <1>4, <1>7, <1>8

---------------------------------------------------------------------------
(* The loop over the legs *)

\* The call has not been undone, and then it has kept the invariants and paid
\* the first n legs of its batch.
Follows(c, ref, legs, n) ==
  /\ DOMAIN c = {"ledger", "executed", "events", "reverted"}
  /\ ~c.reverted =>
       /\ LogOK(c.events)
       /\ MoneyOK(c.ledger, logs (+) c.events, c.executed, invoicePaid)
       /\ LegsPaid(logs (+) c.events, ref, legs, n)
       /\ \A r \in PayoutRef \ {ref} :
            BatchOK(logs (+) c.events, r, r \in batchExecuted)

\* What _execute leaves when it does not revert.
LEMMA ExecutedWell ==
  ASSUME NEW c, NEW id, NEW batch, DOMAIN c = {"ledger", "executed", "events", "reverted"},
         ~Executed(c, id, batch).reverted
  PROVE  /\ ~c.reverted /\ Executable(c, id)
         /\ Executed(c, id, batch) =
              [ledger   |-> Pulled(c.ledger, Vault, funder, id.to, id.amount),
               executed |-> c.executed \cup {id},
               events   |-> With(c.events, PayoutEvent(funder, id, batch)),
               reverted |-> FALSE]
  <1>1. [c EXCEPT !.reverted = TRUE].reverted = TRUE
    OBVIOUS
  <1>2. ~(c.reverted \/ ~Executable(c, id))
    BY <1>1 DEF Executed
  <1> QED BY <1>2 DEF Executed, With, PayoutEvent

\* _execute leaves a call.
LEMMA ExecutedDomain ==
  ASSUME NEW c, NEW id, NEW batch, DOMAIN c = {"ledger", "executed", "events", "reverted"}
  PROVE  DOMAIN Executed(c, id, batch) = {"ledger", "executed", "events", "reverted"}
  <1>1. DOMAIN [c EXCEPT !.reverted = TRUE] = {"ledger", "executed", "events", "reverted"}
    OBVIOUS
  <1>2. ASSUME NEW l, NEW e, NEW v
        PROVE  DOMAIN [ledger |-> l, executed |-> e, events |-> v, reverted |-> FALSE]
                 = {"ledger", "executed", "events", "reverted"}
    OBVIOUS
  <1> QED BY <1>1, <1>2 DEF Executed

\* The next leg.
LEMMA LegFollows ==
  ASSUME NEW ref \in PayoutRef, NEW legs \in Seq([to: Account, amount: Nat]),
         NEW n \in Nat, n + 1 <= Len(legs), Len(legs) <= MaxBatch,
         LogOK(logs), funder \in Account,
         NEW c, Follows(c, ref, legs, n)
  PROVE  Follows(LegStep(c, ref, legs, n + 1), ref, legs, n + 1)
  <1>0. ASSUME NEW k \in 1 .. Len(legs)
        PROVE  legs[k] \in [to: Account, amount: Nat]
    <2>1. PICK R : R = [to: Account, amount: Nat]
      OBVIOUS
    <2>2. legs \in Seq(R)
      BY <2>1
    <2>3. legs[k] \in R
      <3> HIDE <2>1
      <3> QED BY <2>2
    <2> QED BY <2>1, <2>3
  <1>1. ASSUME NEW id, id = PayoutId(LegRef(ref, n + 1), legs[n + 1].to, legs[n + 1].amount),
               NEW d, d = Executed(c, id, ref)
        PROVE  Follows(d, ref, legs, n + 1)
    <2>1. DOMAIN c = {"ledger", "executed", "events", "reverted"}
      BY DEF Follows
    <2>2. DOMAIN d = {"ledger", "executed", "events", "reverted"}
      BY <1>1, <2>1, ExecutedDomain
    <2>3. SUFFICES ASSUME ~d.reverted
                   PROVE  /\ LogOK(d.events)
                          /\ MoneyOK(d.ledger, logs (+) d.events, d.executed, invoicePaid)
                          /\ LegsPaid(logs (+) d.events, ref, legs, n + 1)
                          /\ \A r \in PayoutRef \ {ref} :
                               BatchOK(logs (+) d.events, r, r \in batchExecuted)
      BY <2>2 DEF Follows
    <2>4. PICK x : x = PayoutEvent(funder, id, ref)
      OBVIOUS
    <2>5. /\ ~c.reverted /\ Executable(c, id)
          /\ d = [ledger   |-> Pulled(c.ledger, Vault, funder, id.to, id.amount),
                  executed |-> c.executed \cup {id},
                  events   |-> With(c.events, x),
                  reverted |-> FALSE]
      BY <1>1, <2>1, <2>3, <2>4, ExecutedWell
    <2>6. /\ d.ledger = Pulled(c.ledger, Vault, funder, id.to, id.amount)
          /\ d.executed = c.executed \cup {id}
          /\ d.events = With(c.events, x)
      BY <2>5
    <2>7. /\ LogOK(c.events)
          /\ MoneyOK(c.ledger, logs (+) c.events, c.executed, invoicePaid)
          /\ LegsPaid(logs (+) c.events, ref, legs, n)
          /\ \A r \in PayoutRef \ {ref} :
               BatchOK(logs (+) c.events, r, r \in batchExecuted)
      BY <2>5 DEF Follows
    <2>8. PICK B : B = logs (+) c.events
      OBVIOUS
    <2>9. n + 1 \in 1 .. Len(legs) /\ n + 1 \in 1 .. MaxBatch
      BY VaultAssumption
    <2>10. legs[n + 1] \in [to: Account, amount: Nat]
      BY <1>0, <2>9
    <2>11. /\ id.ref \in PayoutRef \cup LegRefs /\ id.to \in Account /\ id.amount \in Nat
           /\ legs[n + 1] = [to |-> id.to, amount |-> id.amount]
      <3>1. PICK leg \in [to: Account, amount: Nat] : leg = legs[n + 1]
        BY <2>10
      <3>2. id.ref = <<ref, n + 1>> /\ id.to = leg.to /\ id.amount = leg.amount
        BY <1>1, <3>1 DEF PayoutId, LegRef
      <3>3. leg = [to |-> leg.to, amount |-> leg.amount]
        OBVIOUS
      <3> QED BY <2>9, <3>1, <3>2, <3>3 DEF LegRefs
    <2>12. /\ x.event = "PayoutExecuted" /\ x.batch = ref /\ x.to = id.to
           /\ x.amount = id.amount
      BY <2>4 DEF PayoutEvent
    <2>13. id \notin c.executed /\ CanPull(c.ledger, Vault, funder, id.amount)
      BY <2>5 DEF Executable
    <2>14. logs (+) d.events = With(B, x)
      BY <2>6, <2>7, <2>8, WithAssociates
    <2>15. LogOK(B)
      BY <2>7, <2>8 DEF MoneyOK
    <2>16. LogOK(d.events)
      <3>1. ASSUME NEW E, E = c.events
            PROVE  LogOK(With(E, x))
        <4>1. LogOK(E) /\ x.amount \in Nat
          BY <3>1, <2>7, <2>11, <2>12
        <4> HIDE <1>1, <3>1
        <4> QED BY <4>1, WithOne
      <3> QED BY <3>1, <2>6
    <2>17. MoneyOK(d.ledger, With(B, x), d.executed, invoicePaid)
      <3>1. MoneyOK(c.ledger, B, c.executed, invoicePaid)
        BY <2>7, <2>8
      <3>2. MoneyOK(Pulled(c.ledger, Vault, funder, id.to, id.amount),
                    With(B, PayoutEvent(funder, id, ref)), c.executed \cup {id},
                    invoicePaid)
        <4>1. PICK l, E : l = c.ledger /\ E = c.executed
          OBVIOUS
        <4>2. MoneyOK(Pulled(l, Vault, funder, id.to, id.amount),
                      With(B, PayoutEvent(funder, id, ref)), E \cup {id},
                      invoicePaid)
          <5>1. MoneyOK(l, B, E, invoicePaid) /\ id \notin E
            BY <3>1, <4>1, <2>13
          <5>2. CanPull(l, Vault, funder, id.amount)
            BY <4>1, <2>13
          <5> HIDE <1>1, <4>1
          <5> QED BY <5>1, <5>2, <2>11, ExecuteKeeps
        <4> QED BY <4>1, <4>2
      <3> QED BY <2>4, <2>6, <3>2
    <2>18. LegsPaid(With(B, x), ref, legs, n + 1)
      <3>1. LegsPaid(B, ref, legs, n)
        BY <2>7, <2>8
      <3>2. legs[n + 1] = [to |-> x.to, amount |-> x.amount] /\ x.amount \in Nat
        BY <2>11, <2>12
      <3> QED BY <3>1, <3>2, <2>12, <2>15, NextLegPaid
    <2>19. ASSUME NEW r \in PayoutRef \ {ref}
           PROVE  BatchOK(With(B, x), r, r \in batchExecuted)
      <3>1. PICK b : b = (r \in batchExecuted)
        OBVIOUS
      <3>2. BatchOK(B, r, b)
        BY <2>7, <2>8, <3>1
      <3>3. BatchOK(With(B, x), r, b)
        BY <3>2, <2>11, <2>12, <2>15, <2>19, BatchKept
      <3> QED BY <3>1, <3>3
    <2> QED BY <2>14, <2>16, <2>17, <2>18, <2>19
  <1> QED BY <1>1 DEF LegStep

\* The legs of a batch, from the first to the last.
LEMMA LoopFollows ==
  ASSUME NEW ref \in PayoutRef, NEW legs \in Seq([to: Account, amount: Nat]),
         Len(legs) <= MaxBatch, LogOK(logs), funder \in Account,
         Follows(Call, ref, legs, 0)
  PROVE  Follows(ExecutedLegs(ref, legs), ref, legs, Len(legs))
  <1>1. PICK f : IsLoop(f, ref, legs) /\ ExecutedLegs(ref, legs) = f[1 .. Len(legs)]
    BY LoopFound
  <1>2. PICK N \in Nat : N = Len(legs)
    OBVIOUS
  <1>3. f = [s \in SUBSET (1 .. N) |-> LoopStep(f, ref, legs, s)]
    BY <1>1, <1>2 DEF IsLoop, LoopOver
  <1> DEFINE S == {n \in Nat : n <= N => Follows(f[1 .. n], ref, legs, n)}
  <1>4. 0 \in S
    <2>1. 1 .. 0 = {} /\ {} \in SUBSET (1 .. N)
      OBVIOUS
    <2>2. f[{}] = Call
      BY <2>1, <1>3 DEF LoopStep
    <2> QED BY <2>1, <2>2
  <1>5. ASSUME NEW n \in S
        PROVE  n + 1 \in S
    <2>1. SUFFICES ASSUME n + 1 <= N
                   PROVE  Follows(f[1 .. n + 1], ref, legs, n + 1)
      OBVIOUS
    <2>2. n \in Nat /\ Follows(f[1 .. n], ref, legs, n)
      BY <2>1
    <2>3. 1 .. n + 1 \in SUBSET (1 .. N)
      BY <2>1, <2>2
    <2>4. PICK s : s = 1 .. n + 1
      OBVIOUS
    <2>5. s # {} /\ Max(s) = n + 1 /\ s \ {n + 1} = 1 .. n
      BY <2>2, <2>4, MaxOfInterval
    <2>6. f[s] = LoopStep(f, ref, legs, s)
      BY <2>3, <2>4, <1>3
    <2>7. f[s] = LegStep(f[1 .. n], ref, legs, n + 1)
      BY <2>5, <2>6 DEF LoopStep
    <2>8. ASSUME NEW c, c = f[1 .. n]
          PROVE  Follows(LegStep(c, ref, legs, n + 1), ref, legs, n + 1)
      <3>1. Follows(c, ref, legs, n) /\ n + 1 <= Len(legs) /\ n \in Nat
        BY <2>1, <2>2, <2>8, <1>2
      <3> HIDE <2>8, <1>3
      <3> QED BY <3>1, LegFollows
    <2> QED BY <2>4, <2>7, <2>8
  <1>6. S = Nat
    <2> HIDE DEF S
    <2> S \in SUBSET Nat
      BY DEF S
    <2> QED BY <1>4, <1>5, SetInduction
  <1>7. N \in S
    BY <1>2, <1>6
  <1>8. Follows(f[1 .. N], ref, legs, N)
    BY <1>7
  <1> QED BY <1>1, <1>2, <1>8

---------------------------------------------------------------------------
(* Steps *)

\* An event that belongs to no batch leaves all of them as they are.
LEMMA BatchesKept ==
  ASSUME NEW B, LogOK(B), NEW x, x.amount \in Nat, NEW done, BatchesOK(B, done),
         x.event # "PayoutExecuted" \/ x.batch \notin PayoutRef
  PROVE  BatchesOK(With(B, x), done)
  <1> SUFFICES ASSUME NEW ref \in PayoutRef
               PROVE  BatchOK(With(B, x), ref, ref \in done)
    BY DEF BatchesOK
  <1>1. PICK b : b = (ref \in done)
    OBVIOUS
  <1>2. BatchOK(B, ref, b)
    BY <1>1 DEF BatchesOK
  <1>3. x.event # "PayoutExecuted" \/ x.batch # ref
    OBVIOUS
  <1>4. BatchOK(With(B, x), ref, b)
    <2> HIDE <1>1
    <2> QED BY <1>2, <1>3, BatchKept
  <1> QED BY <1>1, <1>4

\* A payment, from the ledger that a permit may have left.
LEMMA SettleStep ==
  ASSUME IInv, NEW payer \in Payer, NEW id \in Invoices, NEW l, Settle(l, payer, id),
         grants' \in 0 .. MaxGrants,
         MoneyOK(l, logs, payoutExecuted, invoicePaid),
         UNCHANGED <<vaultVars, changes>>
  PROVE  IInv'
  <1>1. PICK x : x = InvoiceEvent(payer, treasury, id)
    OBVIOUS
  <1>2. /\ id \notin invoicePaid /\ CanPull(l, Router, payer, id.amount)
        /\ invoicePaid' = invoicePaid \cup {id}
        /\ ledger' = Pulled(l, Router, payer, treasury, id.amount)
        /\ logs' = With(logs, x)
        /\ UNCHANGED <<treasury, tokenSupported, minAmount, routerPaused, now>>
    BY <1>1 DEF Settle, Payable, Collected, EmitsOne, Emits, With, InvoiceEvent
  <1>3. payer \in Account /\ treasury \in Account /\ id.amount \in Nat
    BY ContractsAssumption, RouterAssumption DEF IInv, TypeOK, RouterTypeOK, Invoices
  <1>4. x.event = "InvoicePaid" /\ x.amount = id.amount
    BY <1>1 DEF InvoiceEvent
  <1>5. MoneyOK(ledger', logs', payoutExecuted, invoicePaid')
    <2>1. MoneyOK(Pulled(l, Router, payer, treasury, id.amount),
                  With(logs, InvoiceEvent(payer, treasury, id)),
                  payoutExecuted, invoicePaid \cup {id})
      <3>1. id \notin invoicePaid /\ CanPull(l, Router, payer, id.amount)
        BY <1>2
      <3> QED BY <3>1, <1>3, SettleKeeps
    <2> QED BY <2>1, <1>1, <1>2
  <1>6. BatchesOK(logs', batchExecuted)
    <2>1. LogOK(logs) /\ BatchesOK(logs, batchExecuted)
      BY DEF IInv, MoneyOK
    <2>2. x.amount \in Nat /\ x.event # "PayoutExecuted"
      BY <1>3, <1>4
    <2>3. BatchesOK(With(logs, x), batchExecuted)
      BY <2>1, <2>2, BatchesKept
    <2> QED BY <2>3, <1>2
  <1>7. TypeOK'
    <2>1. ledger' \in Ledger /\ IsABag(logs')
      BY <1>5 DEF MoneyOK, LogOK
    <2>2. RouterTypeOK'
      BY <1>2 DEF IInv, TypeOK, RouterTypeOK
    <2>3. VaultTypeOK'
      BY DEF IInv, TypeOK, VaultTypeOK, vaultVars
    <2>4. now' \in 1 .. MaxTime /\ changes' \in 0 .. MaxChanges
      BY <1>2 DEF IInv, TypeOK
    <2> QED BY <2>1, <2>2, <2>3, <2>4 DEF TypeOK
  <1>8. payoutExecuted' = payoutExecuted /\ batchExecuted' = batchExecuted
    BY DEF vaultVars
  <1> QED BY <1>5, <1>6, <1>7, <1>8 DEF IInv

\* payInvoice and its variants.
LEMMA PaymentStep ==
  ASSUME IInv, NEW p \in Payer, Payment(p)
  PROVE  IInv'
  <1>1. PICK ref \in Ref, amount \in Amount :
          \/ PayInvoice(p, ref, amount) /\ UNCHANGED grants
          \/ PayInvoiceWithPermit(p, ref, amount, FALSE) /\ UNCHANGED grants
          \/ PayInvoiceWithPermit(p, ref, amount, TRUE) /\ Grants
          \/ \E deadline \in Deadline :
               PayInvoiceWithExpiry(p, ref, amount, deadline) /\ UNCHANGED grants
    BY DEF Payment
  <1>2. UNCHANGED <<vaultVars, changes>>
    BY DEF Payment
  <1>3. \A deadline \in Deadline \cup {None} : InvoiceId(ref, amount, deadline) \in Invoices
    BY DEF InvoiceId, Invoices
  <1>4. /\ grants \in 0 .. MaxGrants
        /\ MoneyOK(ledger, logs, payoutExecuted, invoicePaid)
    BY DEF IInv, TypeOK
  <1>5. ASSUME NEW id \in Invoices, Settle(ledger, p, id), UNCHANGED grants
        PROVE  IInv'
    <2>1. /\ grants' \in 0 .. MaxGrants
          /\ MoneyOK(ledger, logs, payoutExecuted, invoicePaid)
      BY <1>4, <1>5
    <2> QED BY <2>1, <1>2, <1>5, SettleStep
  <1>6. CASE PayInvoice(p, ref, amount) /\ UNCHANGED grants
    BY <1>3, <1>5, <1>6 DEF PayInvoice
  <1>7. CASE PayInvoiceWithPermit(p, ref, amount, FALSE) /\ UNCHANGED grants
    BY <1>3, <1>5, <1>7 DEF PayInvoiceWithPermit, AfterPermit
  <1>8. CASE PayInvoiceWithPermit(p, ref, amount, TRUE) /\ Grants
    <2>1. PICK l : l = Approved(ledger, p, Router, amount)
      OBVIOUS
    <2>2. PICK id \in Invoices : id = InvoiceId(ref, amount, None)
      BY <1>3
    <2>3. Settle(l, p, id)
      BY <1>8, <2>1, <2>2 DEF PayInvoiceWithPermit, AfterPermit
    <2>4. /\ grants' \in 0 .. MaxGrants
      BY <1>4, <1>8, ContractsAssumption, RouterAssumption DEF Grants
    <2>5. MoneyOK(l, logs, payoutExecuted, invoicePaid)
      <3>1. p \in Account /\ amount \in Nat /\ Router \in {Router, Vault}
        BY ContractsAssumption, RouterAssumption
      <3>2. MoneyOK(Approved(ledger, p, Router, amount), logs, payoutExecuted, invoicePaid)
        BY <1>4, <3>1, GrantKeeps
      <3> QED BY <3>2, <2>1, <2>4
    <2> HIDE <2>1, <2>2
    <2> QED BY <2>3, <2>4, <2>5, <1>2, SettleStep
  <1>9. CASE \E deadline \in Deadline :
               PayInvoiceWithExpiry(p, ref, amount, deadline) /\ UNCHANGED grants
    BY <1>3, <1>5, <1>9 DEF PayInvoiceWithExpiry
  <1> QED BY <1>1, <1>6, <1>7, <1>8, <1>9

\* What a call of the vault begins with.
LEMMA CallBegins ==
  /\ DOMAIN Call = {"ledger", "executed", "events", "reverted"}
  /\ Call.ledger = ledger /\ Call.executed = payoutExecuted
  /\ Call.events = EmptyBag /\ Call.reverted = FALSE
  BY DEF Call

\* A call of the vault that commits keeps the types.
LEMMA VaultTypes ==
  ASSUME IInv, NEW done \in SUBSET PayoutRef, batchExecuted' = done,
         MoneyOK(ledger', logs', payoutExecuted', invoicePaid),
         UNCHANGED <<routerVars, grants, changes>>,
         UNCHANGED <<now, funder, operators, vaultSupported, vaultPaused>>
  PROVE  TypeOK'
  <1>1. ledger' \in Ledger /\ IsABag(logs') /\ IdsOK(payoutExecuted')
    BY DEF MoneyOK, LogOK
  <1>2. RouterTypeOK'
    BY DEF IInv, TypeOK, RouterTypeOK, routerVars
  <1>3. VaultTypeOK'
    BY <1>1 DEF IInv, TypeOK, VaultTypeOK, IdsOK
  <1>4. /\ now' \in 1 .. MaxTime /\ changes' \in 0 .. MaxChanges
        /\ grants' \in 0 .. MaxGrants
    BY DEF IInv, TypeOK
  <1> QED BY <1>1, <1>2, <1>3, <1>4 DEF TypeOK

\* payout
LEMMA PayoutStep ==
  ASSUME IInv, NEW o, NEW ref \in PayoutRef, NEW to \in Recipient, NEW amount \in Amount,
         Payout(o, ref, to, amount), UNCHANGED <<routerVars, grants, changes>>
  PROVE  IInv'
  <1>1. PICK id : id = PayoutId(ref, to, amount)
    OBVIOUS
  <1>2. /\ id.ref \in PayoutRef \cup LegRefs /\ id.to \in Account /\ id.amount \in Nat
    BY <1>1, ContractsAssumption, RouterAssumption DEF PayoutId
  <1>3. PICK x : x = PayoutEvent(funder, id, NoBatch)
    OBVIOUS
  <1>4. x.amount \in Nat /\ x.batch = NoBatch
    BY <1>2, <1>3 DEF PayoutEvent
  <1>5. /\ ~Executed(Call, id, NoBatch).reverted
        /\ ledger' = Executed(Call, id, NoBatch).ledger
        /\ payoutExecuted' = Executed(Call, id, NoBatch).executed
        /\ logs' = logs (+) Executed(Call, id, NoBatch).events
        /\ UNCHANGED <<now, funder, operators, vaultSupported, vaultPaused, batchExecuted>>
    BY <1>1 DEF Payout, Commits, CommitsPartly, Emits
  <1>6. /\ Executable(Call, id)
        /\ Executed(Call, id, NoBatch) =
             [ledger   |-> Pulled(ledger, Vault, funder, id.to, id.amount),
              executed |-> payoutExecuted \cup {id},
              events   |-> With(EmptyBag, x),
              reverted |-> FALSE]
    BY <1>3, <1>5, CallBegins, ExecutedWell
  <1>7. id \notin payoutExecuted /\ CanPull(ledger, Vault, funder, id.amount)
    BY <1>6, CallBegins DEF Executable
  <1>8. LogOK(logs) /\ LogOK(EmptyBag) /\ BatchesOK(logs, batchExecuted)
    BY EmptyLog DEF IInv, MoneyOK
  <1>9. /\ ledger' = Pulled(ledger, Vault, funder, id.to, id.amount)
        /\ payoutExecuted' = payoutExecuted \cup {id}
        /\ logs' = logs (+) With(EmptyBag, x)
    BY <1>5, <1>6
  <1>10. logs' = With(logs, x)
    BY <1>8, <1>9, WithAssociates, WithNothing
  <1>11. MoneyOK(ledger', logs', payoutExecuted', invoicePaid)
    <2>1. funder \in Account
      BY VaultAssumption DEF IInv, TypeOK, VaultTypeOK
    <2>2. MoneyOK(ledger, logs, payoutExecuted, invoicePaid)
      BY DEF IInv
    <2>3. MoneyOK(Pulled(ledger, Vault, funder, id.to, id.amount),
                  With(logs, PayoutEvent(funder, id, NoBatch)), payoutExecuted \cup {id},
                  invoicePaid)
      <3> HIDE <1>1
      <3> QED BY <1>2, <1>7, <2>1, <2>2, ExecuteKeeps
    <2> QED BY <2>3, <1>3, <1>9, <1>10
  <1>12. BatchesOK(logs', batchExecuted)
    <2>1. x.batch \notin PayoutRef
      BY <1>4, VaultAssumption
    <2>2. BatchesOK(With(logs, x), batchExecuted)
      <3> HIDE <1>3
      <3> QED BY <2>1, <1>4, <1>8, BatchesKept
    <2> QED BY <2>2, <1>10
  <1>13. TypeOK'
    <2>1. batchExecuted \in SUBSET PayoutRef /\ batchExecuted' = batchExecuted
      BY <1>5 DEF IInv, TypeOK, VaultTypeOK
    <2> QED BY <2>1, <1>5, <1>11, VaultTypes
  <1> QED BY <1>5, <1>11, <1>12, <1>13 DEF IInv, routerVars

\* payoutBatch
LEMMA PayoutBatchStep ==
  ASSUME IInv, NEW o, NEW ref \in PayoutRef, NEW legs \in Legs,
         PayoutBatch(o, ref, legs), UNCHANGED <<routerVars, grants, changes>>
  PROVE  IInv'
  <1>1. PICK c : c = ExecutedLegs(ref, legs)
    OBVIOUS
  <1>2. /\ Len(legs) <= MaxBatch /\ ref \notin batchExecuted
        /\ ~c.reverted
        /\ ledger' = c.ledger /\ payoutExecuted' = c.executed /\ logs' = logs (+) c.events
        /\ batchExecuted' = batchExecuted \cup {ref}
        /\ UNCHANGED <<now, funder, operators, vaultSupported, vaultPaused>>
    BY <1>1 DEF PayoutBatch, SizeAllowed, BatchIsNew, Commits, CommitsPartly, Emits
  <1>3. /\ LogOK(logs) /\ BatchesOK(logs, batchExecuted)
        /\ MoneyOK(ledger, logs, payoutExecuted, invoicePaid)
    BY DEF IInv, MoneyOK, TypeOK
  <1>4. funder \in Account /\ legs \in Seq([to: Account, amount: Nat])
    BY VaultAssumption DEF IInv, TypeOK, VaultTypeOK
  <1>5. Follows(Call, ref, legs, 0)
    <2>1. LogOK(EmptyBag) /\ logs (+) EmptyBag = logs
      BY <1>3, EmptyLog, WithNothing
    <2>2. LegsOf(logs, ref) = {}
      BY <1>2, <1>3 DEF BatchesOK, BatchOK
    <2>3. LegsPaid(logs, ref, legs, 0)
      <3>1. Copied(logs, {}) = 0
        BY TotalEmpty DEF Copied
      <3>2. {[to |-> e.to, amount |-> e.amount] : e \in {}} = {legs[i] : i \in 1 .. 0}
        OBVIOUS
      <3> QED BY <2>2, <3>1, <3>2 DEF LegsPaid
    <2>4. \A r \in PayoutRef \ {ref} : BatchOK(logs, r, r \in batchExecuted)
      BY <1>3 DEF BatchesOK
    <2> QED BY <2>1, <2>3, <2>4, <1>3, CallBegins DEF Follows
  <1>6. Follows(c, ref, legs, Len(legs))
    BY <1>1, <1>2, <1>3, <1>4, <1>5, LoopFollows
  <1>7. /\ MoneyOK(ledger', logs', payoutExecuted', invoicePaid)
        /\ LegsPaid(logs', ref, legs, Len(legs))
        /\ \A r \in PayoutRef \ {ref} : BatchOK(logs', r, r \in batchExecuted)
    BY <1>2, <1>6 DEF Follows
  <1>8. BatchesOK(logs', batchExecuted')
    <2> SUFFICES ASSUME NEW r \in PayoutRef
                 PROVE  BatchOK(logs', r, r \in batchExecuted')
      BY DEF BatchesOK
    <2>1. CASE r = ref
      <3>1. r \in batchExecuted'
        BY <1>2, <2>1
      <3> QED BY <3>1, <2>1, <1>7 DEF BatchOK
    <2>2. CASE r # ref
      <3>1. r \in batchExecuted' <=> r \in batchExecuted
        BY <1>2, <2>2
      <3> QED BY <3>1, <2>2, <1>7
    <2> QED BY <2>1, <2>2
  <1>9. TypeOK'
    <2>1. batchExecuted \cup {ref} \in SUBSET PayoutRef
      BY DEF IInv, TypeOK, VaultTypeOK
    <2> QED BY <2>1, <1>2, <1>7, VaultTypes
  <1> QED BY <1>7, <1>8, <1>9 DEF IInv, routerVars

\* A call that touches no money: the ledger, the logs and what is done stay.
LEMMA MoneyUntouched ==
  ASSUME IInv, TypeOK',
         UNCHANGED <<ledger, logs, payoutExecuted, batchExecuted, invoicePaid>>
  PROVE  IInv'
  BY DEF IInv

\* approve
LEMMA ApproveStep ==
  ASSUME IInv, NEW a \in Account, NEW spender \in {Router, Vault}, NEW amount \in Nat,
         Approve(a, spender, amount)
  PROVE  IInv'
  <1>1. /\ grants' \in 0 .. MaxGrants
        /\ ledger' = Approved(ledger, a, spender, amount)
        /\ UNCHANGED <<logs, now, routerVars, vaultVars, changes>>
    BY ContractsAssumption DEF Approve, Grants, IInv, TypeOK
  <1>2. MoneyOK(ledger', logs, payoutExecuted, invoicePaid)
    <2>2. MoneyOK(ledger, logs, payoutExecuted, invoicePaid)
      BY DEF IInv
    <2>3. MoneyOK(Approved(ledger, a, spender, amount), logs, payoutExecuted, invoicePaid)
      BY <2>2, GrantKeeps
    <2> QED BY <2>3, <1>1
  <1>3. TypeOK'
    BY <1>1, <1>2 DEF IInv, TypeOK, MoneyOK, RouterTypeOK, VaultTypeOK, routerVars, vaultVars
  <1> QED BY <1>1, <1>2, <1>3 DEF IInv, routerVars, vaultVars

\* A transfer without _settle and without _execute.
LEMMA PlainTransferStep ==
  ASSUME IInv, NEW from \in Account, NEW to \in Account, NEW amount \in Nat, NEW x,
         x.event \notin {"InvoicePaid", "PayoutExecuted"}, x.from = from, x.to = to,
         x.amount = amount, ledger.balance[from] >= amount,
         ledger' = Transferred(ledger, from, to, amount), logs' = With(logs, x),
         changes' \in 0 .. MaxChanges,
         UNCHANGED <<now, routerVars, vaultVars, grants>>
  PROVE  IInv'
  <1>1. /\ LogOK(logs) /\ BatchesOK(logs, batchExecuted)
        /\ MoneyOK(ledger, logs, payoutExecuted, invoicePaid)
    BY DEF IInv, MoneyOK, TypeOK
  <1>2. MoneyOK(ledger', logs', payoutExecuted, invoicePaid)
    <2>1. MoneyOK(Transferred(ledger, x.from, x.to, x.amount), With(logs, x),
                  payoutExecuted, invoicePaid)
      BY <1>1, TransferKeeps
    <2> QED BY <2>1
  <1>3. BatchesOK(logs', batchExecuted)
    BY <1>1, BatchesKept
  <1>4. TypeOK'
    BY <1>2 DEF IInv, TypeOK, MoneyOK, LogOK, RouterTypeOK, VaultTypeOK, routerVars, vaultVars
  <1> QED BY <1>2, <1>3, <1>4 DEF IInv, routerVars, vaultVars

\* The owner of the router.
LEMMA RouterChangeStep ==
  ASSUME IInv, RouterChange
  PROVE  IInv'
  <1>1. /\ changes' \in 0 .. MaxChanges /\ UNCHANGED <<vaultVars, grants>>
    BY ContractsAssumption DEF RouterChange, IInv, TypeOK
  <1>2. VaultTypeOK' /\ grants' \in 0 .. MaxGrants
    BY <1>1 DEF IInv, TypeOK, VaultTypeOK, vaultVars
  <1>3. ASSUME UNCHANGED <<chainVars, invoicePaid>>, RouterTypeOK'
        PROVE  IInv'
    <2>1. TypeOK'
      BY <1>1, <1>2, <1>3 DEF IInv, TypeOK, chainVars
    <2> QED BY <1>1, <1>3, <2>1, MoneyUntouched DEF chainVars, vaultVars
  <1>4. ASSUME NEW t \in Treasury, SetTreasury(t)
        PROVE  IInv'
    BY <1>3, <1>4 DEF SetTreasury, IInv, TypeOK, RouterTypeOK
  <1>5. ASSUME NEW supported \in BOOLEAN, NEW minimum \in Amount,
               SetTokenSupported(supported, minimum)
        PROVE  IInv'
    BY <1>3, <1>5, RouterAssumption DEF SetTokenSupported, IInv, TypeOK, RouterTypeOK
  <1>6. ASSUME PauseRouter \/ UnpauseRouter
        PROVE  IInv'
    BY <1>3, <1>6 DEF PauseRouter, UnpauseRouter, IInv, TypeOK, RouterTypeOK
  <1>7. ASSUME NEW t \in Treasury, NEW amount \in Amount \ {0}, EmergencyWithdraw(t, amount)
        PROVE  IInv'
    <2>1. PICK x : x = [event |-> "EmergencyWithdraw", id |-> None, batch |-> None,
                        from |-> Router, to |-> t, amount |-> amount]
      OBVIOUS
    <2>2. /\ ledger.balance[Router] >= amount
          /\ ledger' = Transferred(ledger, Router, t, amount)
          /\ logs' = With(logs, x)
          /\ UNCHANGED <<now, routerVars>>
      BY <1>7, <2>1 DEF EmergencyWithdraw, EmitsOne, Emits, With
    <2>3. /\ x.event \notin {"InvoicePaid", "PayoutExecuted"}
          /\ x.from = Router /\ x.to = t /\ x.amount = amount
      BY <2>1
    <2>4. Router \in Account /\ t \in Account /\ amount \in Nat
      BY RouterAssumption
    <2> HIDE <2>1
    <2> QED BY <1>1, <2>2, <2>3, <2>4, PlainTransferStep
  <1> QED BY <1>4, <1>5, <1>6, <1>7 DEF RouterChange

\* The owner of the vault.
LEMMA VaultChangeStep ==
  ASSUME IInv, VaultChange
  PROVE  IInv'
  <1>1. /\ changes' \in 0 .. MaxChanges /\ UNCHANGED <<routerVars, grants>>
    BY ContractsAssumption DEF VaultChange, IInv, TypeOK
  <1>2. RouterTypeOK' /\ grants' \in 0 .. MaxGrants
    BY <1>1 DEF IInv, TypeOK, RouterTypeOK, routerVars
  <1>3. ASSUME UNCHANGED <<chainVars, payoutExecuted, batchExecuted>>, VaultTypeOK'
        PROVE  IInv'
    <2>1. TypeOK'
      BY <1>1, <1>2, <1>3 DEF IInv, TypeOK, chainVars
    <2> QED BY <1>1, <1>3, <2>1, MoneyUntouched DEF chainVars, routerVars
  <1>4. ASSUME NEW f \in Funder, SetFunder(f)
        PROVE  IInv'
    BY <1>3, <1>4 DEF SetFunder, IInv, TypeOK, VaultTypeOK
  <1>5. ASSUME NEW o \in Operator, NEW allowed \in BOOLEAN, SetOperator(o, allowed)
        PROVE  IInv'
    BY <1>3, <1>5 DEF SetOperator, IInv, TypeOK, VaultTypeOK
  <1>6. ASSUME NEW supported \in BOOLEAN, SetVaultTokenSupported(supported)
        PROVE  IInv'
    BY <1>3, <1>6 DEF SetVaultTokenSupported, IInv, TypeOK, VaultTypeOK
  <1>7. ASSUME PauseVault \/ UnpauseVault
        PROVE  IInv'
    BY <1>3, <1>7 DEF PauseVault, UnpauseVault, IInv, TypeOK, VaultTypeOK
  <1> QED BY <1>4, <1>5, <1>6, <1>7 DEF VaultChange

\* Before the first call.
LEMMA InitHolds ==
  ASSUME Init
  PROVE  IInv
  <1>1. LogOK(EmptyBag) /\ DOMAIN EmptyBag = {} /\ logs = EmptyBag
    BY EmptyLog DEF Init
  <1>2. PICK z : z = [a \in Account \X Account |-> 0]
    OBVIOUS
  <1>3. ledger = [balance |-> Funds, allowance |-> z]
    BY <1>2 DEF Init
  <1>4. /\ ledger.balance = Funds /\ ledger.allowance = z
        /\ Funds \in [Account -> Nat] /\ z \in [Account \X Account -> Nat]
    BY <1>2, <1>3, ContractsAssumption
  <1>5. ledger \in Ledger
    BY <1>3, <1>4 DEF Ledger
  <1>6. ASSUME NEW T, T \subseteq DOMAIN logs
        PROVE  Moved(logs, T) = 0
    <2>1. T = {}
      BY <1>1, <1>6
    <2> QED BY <2>1, TotalEmpty DEF Moved
  <1>7. AccountOK(ledger, logs)
    <2> SUFFICES ASSUME NEW a \in Account
                 PROVE  ledger.balance[a] + Moved(logs, FromOf(logs, a))
                          = Funds[a] + Moved(logs, ToOf(logs, a))
      BY DEF AccountOK
    <2>1. Moved(logs, FromOf(logs, a)) = 0 /\ Moved(logs, ToOf(logs, a)) = 0
      BY <1>6 DEF FromOf, ToOf
    <2> QED BY <2>1, <1>4
  <1>9. invoicePaid = {} /\ payoutExecuted = {} /\ batchExecuted = {}
    BY DEF Init, RouterInit, VaultInit
  <1>10. OnceOK(logs, "InvoicePaid", invoicePaid) /\ OnceOK(logs, "PayoutExecuted", payoutExecuted)
    BY <1>1, <1>9 DEF OnceOK
  <1>11. IdsOK(payoutExecuted)
    BY <1>9 DEF IdsOK
  <1>12. BatchesOK(logs, batchExecuted)
    BY <1>1, <1>9 DEF BatchesOK, BatchOK, LegsOf
  <1>13. TypeOK
    <2>1. RouterTypeOK /\ VaultTypeOK
      BY DEF Init, RouterInit, VaultInit, RouterTypeOK, VaultTypeOK
    <2>2. now \in 1 .. MaxTime /\ grants \in 0 .. MaxGrants /\ changes \in 0 .. MaxChanges
      BY ContractsAssumption DEF Init
    <2>4. IsABag(logs)
      BY <1>1 DEF LogOK
    <2> QED BY <2>1, <2>2, <2>4, <1>5 DEF TypeOK
  <1>14. MoneyOK(ledger, logs, payoutExecuted, invoicePaid)
    <2>1. LogOK(logs)
      BY <1>1
    <2> HIDE <1>1, <1>2, <1>3, <1>9
    <2> QED BY <2>1, <1>5, <1>7, <1>10, <1>11 DEF MoneyOK
  <1> QED BY <1>12, <1>13, <1>14 DEF IInv

\* Every step keeps the invariant.
LEMMA NextKeeps ==
  ASSUME IInv, [Next]_vars
  PROVE  IInv'
  <1>1. ASSUME NEW p \in Payer, Payment(p) PROVE IInv'
    BY <1>1, PaymentStep
  <1>2. ASSUME NEW o \in Operator, Operation(o) PROVE IInv'
    BY <1>2, PayoutStep, PayoutBatchStep DEF Operation
  <1>3. ASSUME NEW p \in Payer, NEW amount \in Amount \ {0}, Approve(p, Router, amount)
        PROVE  IInv'
    BY <1>3, ApproveStep, ContractsAssumption, RouterAssumption
  <1>4. ASSUME NEW p \in Payer, NEW amount \in Amount \ {0}, StrayTransfer(p, amount)
        PROVE  IInv'
    <2>1. PICK x : x = [event |-> "Transfer", id |-> None, batch |-> None,
                        from |-> p, to |-> Router, amount |-> amount]
      OBVIOUS
    <2>2. /\ ledger.balance[p] >= amount
          /\ ledger' = Transferred(ledger, p, Router, amount)
          /\ logs' = With(logs, x)
          /\ UNCHANGED <<now, routerVars, vaultVars, grants, changes>>
      BY <1>4, <2>1 DEF StrayTransfer, EmitsOne, Emits, With
    <2>3. /\ x.event \notin {"InvoicePaid", "PayoutExecuted"}
          /\ x.from = p /\ x.to = Router /\ x.amount = amount
      BY <2>1
    <2>4. p \in Account /\ Router \in Account /\ amount \in Nat
      BY ContractsAssumption, RouterAssumption
    <2>5. changes' \in 0 .. MaxChanges
      BY <2>2 DEF IInv, TypeOK
    <2> HIDE <2>1
    <2> QED BY <2>2, <2>3, <2>4, <2>5, PlainTransferStep
  <1>5. ASSUME NEW f \in Funder, NEW amount \in Allowances, Approve(f, Vault, amount)
        PROVE  IInv'
    BY <1>5, ApproveStep, ContractsAssumption, VaultAssumption
  <1>6. ASSUME Tick PROVE IInv'
    <2>1. TypeOK'
      BY <1>6, ContractsAssumption
         DEF Tick, IInv, TypeOK, RouterTypeOK, VaultTypeOK, routerVars, vaultVars
    <2> QED BY <1>6, <2>1, MoneyUntouched DEF Tick, routerVars, vaultVars
  <1>7. ASSUME UNCHANGED vars PROVE IInv'
    <2>1. TypeOK'
      BY <1>7 DEF vars, chainVars, IInv, TypeOK, RouterTypeOK, VaultTypeOK, routerVars, vaultVars
    <2> QED BY <1>7, <2>1, MoneyUntouched DEF vars, chainVars, routerVars, vaultVars
  <1> QED BY <1>1, <1>2, <1>3, <1>4, <1>5, <1>6, <1>7, RouterChangeStep, VaultChangeStep DEF Next

---------------------------------------------------------------------------
(* The sums of the properties *)

\* The sum of SumOf, as the library computes it.
AmountStep(f, B, s) ==
  IF s = {} THEN 0 ELSE Pick(s).amount * B[Pick(s)] + f[s \ {Pick(s)}]
IsAmount(f, B, T) == f = [s \in SUBSET T |-> AmountStep(f, B, s)]

\* SumOf, written out.
LEMMA SumOfExpanded ==
  ASSUME NEW T
  PROVE  SumOf(T) = (CHOOSE f : IsAmount(f, logs, T))[T]
  BY DEF SumOf, MapThenSumSet, MapThenFoldSet, IsAmount, AmountStep, Pick

\* SumOf adds up what events of the log move.
LEMMA SumOfMoved ==
  ASSUME LogOK(logs), NEW T, T \subseteq DOMAIN logs
  PROVE  SumOf(T) = Moved(logs, T)
  <1>1. PICK g : g = [e \in DOMAIN logs |-> e.amount * logs[e]]
    OBVIOUS
  <1>2. IsFiniteSet(T)
    BY FS_Subset DEF LogOK
  <1>3. ASSUME NEW f, NEW s \in SUBSET T
        PROVE  AmountStep(f, logs, s) = SumStep(f, g, s)
    <2>1. s # {} => Pick(s) \in DOMAIN logs
      BY Picked
    <2>2. s # {} => g[Pick(s)] = Pick(s).amount * logs[Pick(s)]
      BY <1>1, <2>1
    <2> QED BY <2>2 DEF AmountStep, SumStep
  <1>4. ASSUME NEW f
        PROVE  IsAmount(f, logs, T) <=> IsSum(f, g, T)
    <2> HIDE <1>1
    <2> QED BY <1>3 DEF IsAmount, IsSum
  <1>5. \E f : IsAmount(f, logs, T)
    <2> HIDE <1>1
    <2> QED BY <1>2, <1>4, SumExists
  <1>6. PICK f : f = (CHOOSE q : IsAmount(q, logs, T))
    OBVIOUS
  <1>7. IsSum(f, g, T)
    BY <1>4, <1>5, <1>6
  <1>8. Total(g, T) = f[T]
    <2> HIDE <1>1, <1>6
    <2> QED BY <1>2, <1>7, TotalIs
  <1> QED BY <1>1, <1>6, <1>8, SumOfExpanded DEF Moved

\* Copies counts events of the log.
LEMMA CopiesCounted ==
  ASSUME NEW T
  PROVE  Copies(T) = Copied(logs, T)
  BY DEF Copies, Copied, Total, MapThenSumSet, MapThenFoldSet, IsSum, SumStep, Pick

\* What is done once is once in the log.
LEMMA OnceCopied ==
  ASSUME NEW B, LogOK(B), NEW kind, NEW ids, OnceOK(B, kind, ids), NEW id
  PROVE  Copied(B, {e \in DOMAIN B : e.event = kind /\ e.id = id})
           = IF id \in ids THEN 1 ELSE 0
  <1>1. PICK T : T = {e \in DOMAIN B : e.event = kind /\ e.id = id}
    OBVIOUS
  <1>2. CASE id \in ids
    <2>1. PICK e \in DOMAIN B : e.event = kind /\ e.id = id
      BY <1>2 DEF OnceOK
    <2>2. T = {e} /\ B[e] = 1
      BY <1>1, <2>1 DEF OnceOK
    <2> HIDE <1>1
    <2>3. IsFiniteSet(T) /\ NatValued(B, T) /\ e \in T /\ T \ {e} = {}
      <3>1. IsFiniteSet({e})
        BY FS_Singleton
      <3>2. NatValued(B, {e})
        BY <2>2 DEF NatValued
      <3> QED BY <2>2, <3>1, <3>2
    <2>4. Total(B, T) = B[e] + Total(B, T \ {e})
      <3> HIDE <2>2
      <3> QED BY <2>3, TotalRemove
    <2>5. Total(B, T) = 1
      BY <2>2, <2>3, <2>4, TotalEmpty
    <2> QED BY <1>1, <1>2, <2>5 DEF Copied
  <1>3. CASE id \notin ids
    <2>1. T = {}
      BY <1>1, <1>3 DEF OnceOK
    <2> QED BY <1>1, <1>3, <2>1, TotalEmpty DEF Copied
  <1> QED BY <1>2, <1>3

---------------------------------------------------------------------------
(* Theorems *)

\* The inductive invariant holds always: the logs account for the balances, and
\* each id that is done has one event.
THEOREM Invariance == Spec => []IInv
  BY InitHolds, NextKeeps, PTL DEF Spec

\* The state of the token and of both contracts keeps its types.
THEOREM TypeCorrect == Spec => []TypeOK
  <1>1. IInv => TypeOK
    BY DEF IInv
  <1> QED BY <1>1, Invariance, PTL

\* The logs account for every unit of every account, through payments, single
\* payouts, batches, stray transfers and emergency withdrawals.
THEOREM FundsAccounted == Spec => []LogsAccountForFunds
  <1>1. IInv => LogsAccountForFunds
    <2> SUFFICES ASSUME IInv, NEW a \in Account
                 PROVE  ledger.balance[a] + SumOf({e \in Emitted : e.from = a})
                          = Funds[a] + SumOf({e \in Emitted : e.to = a})
      BY DEF LogsAccountForFunds
    <2>1. LogOK(logs) /\ AccountOK(ledger, logs)
      BY DEF IInv, MoneyOK
    <2>2. /\ {e \in Emitted : e.from = a} = FromOf(logs, a)
          /\ {e \in Emitted : e.to = a} = ToOf(logs, a)
      BY DEF Emitted, BagToSet, FromOf, ToOf
    <2>3. FromOf(logs, a) \subseteq DOMAIN logs /\ ToOf(logs, a) \subseteq DOMAIN logs
      BY DEF FromOf, ToOf
    <2>4. /\ SumOf(FromOf(logs, a)) = Moved(logs, FromOf(logs, a))
          /\ SumOf(ToOf(logs, a)) = Moved(logs, ToOf(logs, a))
      BY <2>1, <2>3, SumOfMoved
    <2> QED BY <2>1, <2>2, <2>4 DEF AccountOK
  <1> QED BY <1>1, Invariance, PTL

\* An invoice is paid once and a payout is executed once, by whichever of the
\* entry points and however often they are called.
THEOREM DoneOnce == Spec => []EachOnce
  <1>1. IInv => EachOnce
    <2> SUFFICES ASSUME IInv
                 PROVE  EachOnce
      OBVIOUS
    <2>1. /\ LogOK(logs) /\ OnceOK(logs, "InvoicePaid", invoicePaid)
          /\ OnceOK(logs, "PayoutExecuted", payoutExecuted)
      BY DEF IInv, MoneyOK
    <2>2. ASSUME NEW id
          PROVE  Copies({e \in Emitted : e.event = "InvoicePaid" /\ e.id = id})
                   = IF id \in invoicePaid THEN 1 ELSE 0
      BY <2>1, OnceCopied, CopiesCounted DEF Emitted, BagToSet
    <2>3. ASSUME NEW id \in payoutExecuted
          PROVE  Copies({e \in Emitted : e.event = "PayoutExecuted" /\ e.id = id}) = 1
      BY <2>1, OnceCopied, CopiesCounted DEF Emitted, BagToSet
    <2> QED BY <2>2, <2>3 DEF EachOnce
  <1> QED BY <1>1, Invariance, PTL

\* A batch of payoutBatch pays all of its legs or none, and a reference pays one
\* batch only: a revert in any iteration of the loop undoes the others.
THEOREM BatchIsWhole == Spec => []BatchAllOrNothing
  <1>1. IInv => BatchAllOrNothing
    <2> SUFFICES ASSUME IInv, NEW ref \in PayoutRef,
                        NEW paid, paid = {e \in Emitted : e.event = "PayoutExecuted" /\ e.batch = ref}
                 PROVE  IF ref \in batchExecuted
                          THEN \E legs \in Legs :
                                 /\ Copies(paid) = Len(legs)
                                 /\ {[to |-> e.to, amount |-> e.amount] : e \in paid} = ToSet(legs)
                          ELSE paid = {}
      BY DEF BatchAllOrNothing
    <2>1. BatchOK(logs, ref, ref \in batchExecuted)
      BY DEF IInv, BatchesOK
    <2>2. paid = LegsOf(logs, ref)
      BY DEF Emitted, BagToSet, LegsOf
    <2>3. CASE ref \in batchExecuted
      <3>1. PICK legs \in Legs : LegsPaid(logs, ref, legs, Len(legs))
        BY <2>1, <2>3 DEF BatchOK
      <3>2. ToSet(legs) = {legs[i] : i \in 1 .. Len(legs)}
        BY VaultAssumption DEF ToSet
      <3>3. Copies(paid) = Len(legs)
        BY <3>1, <2>2, CopiesCounted DEF LegsPaid
      <3>4. {[to |-> e.to, amount |-> e.amount] : e \in paid} = ToSet(legs)
        BY <3>1, <3>2, <2>2 DEF LegsPaid
      <3> QED BY <2>3, <3>3, <3>4
    <2>4. CASE ref \notin batchExecuted
      BY <2>1, <2>2, <2>4 DEF BatchOK
    <2> QED BY <2>3, <2>4
  <1> QED BY <1>1, Invariance, PTL

\* An invoice with an expiry that is unpaid when its deadline has passed stays
\* unpaid: neither payInvoiceWithExpiry nor another entry point pays it.
THEOREM ExpiryIsFinal == Spec => ExpiryHolds
  <1> DEFINE Holds == \A id \in Invoices :
                        id.deadline \notin {None, 0} /\ now > id.deadline /\ id \notin invoicePaid
                          => id \notin invoicePaid'
  <1>1. ASSUME IInv, Next PROVE Holds
    <2> SUFFICES ASSUME NEW id \in Invoices, id.deadline \notin {None, 0},
                        now > id.deadline, id \notin invoicePaid
                 PROVE  id \notin invoicePaid'
      OBVIOUS
    <2>1. now \in Nat /\ id.deadline \in Nat
      <3>1. now \in 1 .. MaxTime /\ MaxTime \in Nat
        BY <1>1, ContractsAssumption DEF IInv, TypeOK
      <3>2. id.deadline \in Deadline
        BY DEF Invoices
      <3>3. now \in Nat
        BY <3>1
      <3>4. id.deadline \in Nat
        BY <3>2, RouterAssumption
      <3> QED BY <3>3, <3>4
    <2>2. ASSUME NEW l, NEW p, NEW ref, NEW amount, NEW deadline, id.deadline # deadline,
                 Settle(l, p, InvoiceId(ref, amount, deadline))
          PROVE  id \notin invoicePaid'
      <3>1. id # InvoiceId(ref, amount, deadline)
        BY <2>2 DEF InvoiceId
      <3> QED BY <2>2, <3>1 DEF Settle
    <2>3. ASSUME NEW p \in Payer, Payment(p)
          PROVE  id \notin invoicePaid'
      <3>1. ASSUME NEW deadline \in Deadline, InTime(deadline)
            PROVE  id.deadline # deadline
        BY <2>1, <3>1 DEF InTime
      <3> QED BY <2>2, <2>3, <3>1
              DEF Payment, PayInvoice, PayInvoiceWithPermit, PayInvoiceWithExpiry
    <2>4. CASE invoicePaid' = invoicePaid
      BY <2>4
    <2>5. ASSUME NEW o \in Operator, Operation(o) PROVE invoicePaid' = invoicePaid
      BY <2>5 DEF Operation, routerVars
    <2>6. ASSUME NEW p, NEW amount, NEW spender,
                 Approve(p, spender, amount) \/ StrayTransfer(p, amount)
          PROVE  invoicePaid' = invoicePaid
      BY <2>6 DEF Approve, StrayTransfer, routerVars
    <2>7. ASSUME RouterChange PROVE invoicePaid' = invoicePaid
      BY <2>7 DEF RouterChange, SetTreasury, SetTokenSupported, PauseRouter, UnpauseRouter,
                  EmergencyWithdraw, routerVars
    <2>8. ASSUME VaultChange \/ Tick PROVE invoicePaid' = invoicePaid
      BY <2>8 DEF VaultChange, Tick, routerVars
    <2> QED BY <1>1, <2>3, <2>4, <2>5, <2>6, <2>7, <2>8 DEF Next
  <1>2. IInv /\ [Next]_vars => [Holds]_vars
    BY <1>1
  <1> QED BY <1>2, Invariance, PTL DEF Spec, ExpiryHolds

---------------------------------------------------------------------------
(* The checkout: the inductive invariant *)

\* Nothing is paid yet, and the payer has left the allowance and the nonce to
\* the pages.
Undisturbed == ~outside.meddled /\ \A s \in Session : ~Paid(s)

\* The router may take the price.
Granted == ledger.allowance[<<Customer, Router>>] >= Price

\* A payment with this permit, or with none, finds the allowance it needs, at
\* least as long as nothing disturbs it: the permit is good until its deadline,
\* or was handed in.
Covered(signed) ==
  IF signed = None THEN Undisturbed => Granted ELSE signed.nonce <= nonce

\* What a page relies on.
PageOK(t) ==
  /\ \/ page[t].pc \notin {"blank", "form", "unavailable"}
     \/ page[t].loop
     \/ page[t].view = "confirmed"
     => page[t].session # None
  /\ page[t].polls < MaxPolls
  /\ page[t].view = "confirmed" => Settled(page[t].session)
  /\ page[t].pc \notin {"pay", "receipt"} => page[t].signed = None
  /\ page[t].pc = "approving" =>
       page[t].hash \in 1 .. Len(txs) /\ txs[page[t].hash].kind = "approve"
  /\ page[t].pc = "pay" => Covered(page[t].signed)

\* What a transaction has to go on.
TxOK(h) ==
  /\ txs[h].kind = "pay" => Covered(txs[h].signed)
  /\ txs[h].kind = "approve" /\ txs[h].state # "pending" => Covered(None)

\* A session that is confirmed is settled, whoever wrote that.
SessionOK(s) == server[s] = "confirmed" => Settled(s)

CheckoutInv ==
  /\ CheckoutTypeOK
  /\ IsFiniteSet({s \in Session : Paid(s)})
  /\ ChargedOnce
  /\ Undisturbed /\ nonce > 0 => Granted
  /\ \A s \in Session : SessionOK(s)
  /\ \A t \in Tab : PageOK(t)
  /\ \A h \in 1 .. Len(txs) : TxOK(h)

---------------------------------------------------------------------------
(* The checkout: frame *)

\* What no step takes back.
Advances ==
  /\ \A s \in Session : Settled(s) => Settled(s)'
  /\ nonce <= nonce'
  /\ Undisturbed' => Undisturbed /\ (Granted => Granted')
  /\ \A h \in 1 .. Len(txs) : h \in 1 .. Len(txs') /\ txs'[h].kind = txs[h].kind

\* The constants of the checkout.
LEMMA CheckoutConstants ==
  /\ Customer \in Account /\ Router \in Account /\ Customer # Router
  /\ Customer \notin Treasury /\ Treasury \subseteq Account
  /\ Session \subseteq Ref
  /\ None \notin Session /\ None \notin Nat /\ None \notin Status /\ None \notin Permit
  /\ Price \in Amount /\ Price \in Nat /\ Price > 0
  /\ Purse \in Nat /\ PermitTTL \in Nat /\ Needed \in Nat
  /\ MaxPolls \in Nat /\ MaxPolls > 0 /\ MaxClock \in Nat /\ MaxClock > 0
  /\ MaxBoots \in Nat /\ MaxMishaps \in Nat
  BY CheckoutAssumption, RouterAssumption, NullAssumption DEF Needed

\* What covers a payment goes on to cover it.
LEMMA CoverStays ==
  ASSUME CheckoutInv, CheckoutTypeOK', Advances
  PROVE  /\ (Undisturbed => Granted) => (Undisturbed' => Granted')
         /\ \A p \in Permit : p.nonce <= nonce => p.nonce <= nonce'
  <1>1. nonce \in Nat /\ nonce' \in Nat
    BY DEF CheckoutInv, CheckoutTypeOK
  <1> QED BY <1>1 DEF Advances, Permit

\* A page that does not move can go on relying on what it did.
LEMMA PageStays ==
  ASSUME CheckoutInv, CheckoutTypeOK', Advances, NEW t \in Tab, page'[t] = page[t]
  PROVE  PageOK(t)'
  <1>1. PageOK(t) /\ page[t] \in Page
    BY DEF CheckoutInv, CheckoutTypeOK
  <1>2. page[t].pc = "pay" => Covered(page[t].signed)'
    BY <1>1, CoverStays DEF PageOK, Covered, Page
  <1>3. page[t].view = "confirmed" => Settled(page[t].session)'
    BY <1>1 DEF PageOK, Page, Advances
  <1> QED BY <1>1, <1>2, <1>3 DEF PageOK, Advances

\* So can a transaction.
LEMMA TxStays ==
  ASSUME CheckoutInv, CheckoutTypeOK', Advances,
         NEW h \in 1 .. Len(txs), txs'[h] = txs[h]
  PROVE  TxOK(h)'
  <1>1. TxOK(h) /\ txs[h] \in Tx
    BY DEF CheckoutInv, CheckoutTypeOK
  <1> QED BY <1>1, CoverStays DEF TxOK, Covered, Tx

\* What is left to show of a step.
LEMMA StepKeeps ==
  ASSUME CheckoutInv, CheckoutTypeOK', Advances,
         (IsFiniteSet({s \in Session : Paid(s)}) /\ ChargedOnce)',
         (Undisturbed /\ nonce > 0 => Granted)',
         \A s \in Session : SessionOK(s)',
         \A t \in Tab : page'[t] = page[t] \/ PageOK(t)',
         \A h \in 1 .. Len(txs') :
           (h \in 1 .. Len(txs) /\ txs'[h] = txs[h]) \/ TxOK(h)'
  PROVE  CheckoutInv'
  <1>1. \A t \in Tab : PageOK(t)'
    BY PageStays
  <1>2. \A h \in 1 .. Len(txs') : TxOK(h)'
    BY TxStays
  <1> QED BY <1>1, <1>2 DEF CheckoutInv

\* Nothing happens on the chain.
Quiet == UNCHANGED <<ledger, logs, now, routerVars, depth, nonce, outside>>

\* A step of a page that leaves the chain alone.
LEMMA QuietKeeps ==
  ASSUME CheckoutInv, CheckoutTypeOK', Quiet,
         \A s \in Session : server'[s] = server[s] \/ SessionOK(s)',
         \A h \in 1 .. Len(txs) : h \in 1 .. Len(txs') /\ txs'[h] = txs[h],
         \A h \in 1 .. Len(txs') : h \in 1 .. Len(txs) \/ TxOK(h)',
         \A t \in Tab : page'[t] = page[t] \/ PageOK(t)'
  PROVE  CheckoutInv'
  <1>1. UNCHANGED <<invoicePaid, ledger, nonce, depth, outside>>
    BY DEF Quiet, routerVars
  <1>2. /\ \A s \in Session : (Paid(s)' <=> Paid(s)) /\ (Settled(s)' <=> Settled(s))
        /\ Undisturbed' <=> Undisturbed
        /\ Granted' <=> Granted
    BY <1>1 DEF Paid, Settled, Undisturbed, Granted, Invoice, InvoiceId
  <1>3. {s \in Session : Paid(s)}' = {s \in Session : Paid(s)}
    BY <1>2
  <1>4. (IsFiniteSet({s \in Session : Paid(s)}) /\ ChargedOnce)'
    BY <1>1, <1>3 DEF CheckoutInv, ChargedOnce
  <1>5. Advances
    <2>1. nonce \in Nat
      BY DEF CheckoutInv, CheckoutTypeOK
    <2> QED BY <1>1, <1>2, <2>1 DEF Advances
  <1>6. \A s \in Session : SessionOK(s)'
    BY <1>1, <1>2 DEF CheckoutInv, SessionOK
  <1>7. (Undisturbed /\ nonce > 0 => Granted)'
    BY <1>1, <1>2 DEF CheckoutInv
  <1> QED BY <1>4, <1>5, <1>6, <1>7, StepKeeps

---------------------------------------------------------------------------
(* The checkout: the steps of a page *)

\* A page that is loaded is a page.
LEMMA BlankTyped ==
  /\ Blank \in Page
  /\ Blank.session = None /\ Blank.view = None /\ Blank.signed = None
  /\ ~Blank.loop /\ Blank.pc = "blank" /\ Blank.polls = 0 /\ 0 < MaxPolls
  BY CheckoutConstants DEF Blank, Page

\* The page of a tab is a page, and it is replaced by what it becomes.
LEMMA BecomeEffect ==
  ASSUME CheckoutInv, NEW t \in Tab, NEW p \in Page, Become(t, p)
  PROVE  /\ page' \in [Tab -> Page]
         /\ page'[t] = p
         /\ \A u \in Tab : u # t => page'[u] = page[u]
  BY DEF Become, CheckoutInv, CheckoutTypeOK

\* Starting poll() leaves alone what pay() relies on.
LEMMA PollStarts ==
  ASSUME NEW p \in Page, p.polls < MaxPolls
  PROVE  /\ StartPoll(p) \in Page
         /\ StartPoll(p).pc = p.pc /\ StartPoll(p).session = p.session
         /\ StartPoll(p).view = p.view /\ StartPoll(p).signed = p.signed
         /\ StartPoll(p).hash = p.hash /\ StartPoll(p).button = p.button
         /\ StartPoll(p).polls < MaxPolls
  <1>1. CASE p.polling
    BY <1>1 DEF StartPoll
  <1>2. CASE ~p.polling
    <2> DEFINE q == [p EXCEPT !.polling = TRUE, !.loop = TRUE]
    <2>1. StartPoll(p) = q
      BY <1>2 DEF StartPoll
    <2> QED BY <2>1 DEF Page
  <1> QED BY <1>1, <1>2

\* Types after a step that leaves the chain alone.
LEMMA QuietTyped ==
  ASSUME CheckoutInv, Quiet, page' \in [Tab -> Page],
         server' \in [Session -> Status \cup {None}], txs' \in Seq(Tx),
         boots' \in 0 .. MaxBoots, mishaps' \in 0 .. MaxMishaps, outside' = outside
  PROVE  CheckoutTypeOK'
  BY DEF CheckoutInv, CheckoutTypeOK, Quiet, routerVars, RouterTypeOK

\* A step of a page that leaves everything else alone but counts.
LEMMA PageStep ==
  ASSUME CheckoutInv, NEW t \in Tab, NEW p \in Page, Become(t, p),
         UNCHANGED <<chainVars, routerVars, server, depth, nonce, txs>>,
         boots' \in 0 .. MaxBoots, mishaps' \in 0 .. MaxMishaps, outside' = outside,
         PageOK(t)'
  PROVE  CheckoutInv'
  <1>1. page' \in [Tab -> Page] /\ \A u \in Tab : u # t => page'[u] = page[u]
    BY BecomeEffect
  <1>2. Quiet
    BY DEF Quiet, chainVars
  <1>3. CheckoutTypeOK'
    BY <1>1, <1>2, QuietTyped DEF CheckoutInv, CheckoutTypeOK
  <1> QED BY <1>1, <1>2, <1>3, QuietKeeps

\* Nothing is asked of a page that shows no session.
LEMMA BlankOK ==
  ASSUME CheckoutInv, NEW t \in Tab, NEW pc \in {"form", "unavailable"},
         Become(t, [Blank EXCEPT !.pc = pc])
  PROVE  [Blank EXCEPT !.pc = pc] \in Page /\ PageOK(t)'
  <1>1. [Blank EXCEPT !.pc = pc] \in Page
    BY BlankTyped DEF Page
  <1>2. page'[t] = [Blank EXCEPT !.pc = pc]
    BY <1>1, BecomeEffect
  <1>3. /\ page'[t].pc = pc /\ ~page'[t].loop /\ page'[t].view = None
        /\ page'[t].signed = None /\ page'[t].polls < MaxPolls
    BY <1>2, CheckoutConstants DEF Blank
  <1>4. None # "confirmed"
    BY CheckoutConstants DEF Status
  <1> QED BY <1>1, <1>3, <1>4 DEF PageOK

\* A session is shown as the server has it.
LEMMA ShownOK ==
  ASSUME CheckoutInv, NEW t \in Tab, NEW s \in Session, server[s] # None,
         Become(t, Shown(s)), UNCHANGED <<routerVars, server, depth>>
  PROVE  Shown(s) \in Page /\ PageOK(t)'
  <1> DEFINE p == [Blank EXCEPT !.pc = "shown", !.session = s, !.view = server[s]]
             payable == [p EXCEPT !.button = "enabled"]
  <1>0. server[s] \in Status
    BY DEF CheckoutInv, CheckoutTypeOK
  <1>1. /\ p \in Page /\ payable \in Page
        /\ p.pc = "shown" /\ p.session = s /\ p.view = server[s] /\ ~p.loop
        /\ payable.pc = "shown" /\ payable.session = s /\ payable.view = server[s]
        /\ ~payable.loop /\ p.signed = None /\ payable.signed = None
        /\ p.polls < MaxPolls /\ payable.polls < MaxPolls
    BY <1>0, BlankTyped, CheckoutConstants DEF Page, Blank
  <1>2. PICK q \in {p, payable, StartPoll(payable)} : q = Shown(s)
    BY <1>0 DEF Shown, Status
  <1> HIDE DEF p, payable
  <1>3. /\ q \in Page /\ q.pc = "shown" /\ q.session = s
        /\ q.view = server[s] /\ q.polls < MaxPolls /\ q.signed = None
    BY <1>1, PollStarts
  <1>4. page'[t] = q
    BY <1>2, <1>3, BecomeEffect
  <1>5. s # None
    BY CheckoutConstants
  <1>6. server[s] = "confirmed" => Settled(s)'
    BY DEF CheckoutInv, SessionOK, Settled, Paid, Invoice, InvoiceId, routerVars
  <1>7. PageOK(t)'
    BY <1>3, <1>4, <1>5, <1>6 DEF PageOK
  <1> QED BY <1>2, <1>3, <1>7

\* A page is opened or loaded again, or cannot be.
LEMMA LoadKeeps ==
  ASSUME CheckoutInv, NEW t \in Tab, Load(t) \/ LoadFails(t)
  PROVE  CheckoutInv'
  <1>1. /\ boots' \in 0 .. MaxBoots /\ mishaps' \in 0 .. MaxMishaps /\ outside' = outside
        /\ UNCHANGED <<chainVars, routerVars, server, depth, nonce, txs>>
    BY CheckoutConstants DEF Load, LoadFails, Mishap, CheckoutInv, CheckoutTypeOK
  <1>2. CASE \E pc \in {"form", "unavailable"} : Become(t, [Blank EXCEPT !.pc = pc])
    BY <1>1, <1>2, BlankOK, PageStep
  <1>3. CASE \E s \in Session : server[s] # None /\ Become(t, Shown(s))
    BY <1>1, <1>3, ShownOK, PageStep
  <1> QED BY <1>2, <1>3 DEF Load, LoadFails

\* The counters of a step of pay() or poll().
LEMMA CountsTyped ==
  ASSUME CheckoutInv, boots' = boots, mishaps' = mishaps \/ Mishap
  PROVE  boots' \in 0 .. MaxBoots /\ mishaps' \in 0 .. MaxMishaps
  BY CheckoutConstants DEF Mishap, CheckoutInv, CheckoutTypeOK

\* A step of pay() keeps what the page shows; the rest is about where it goes.
LEMMA MovePage ==
  ASSUME CheckoutInv, NEW t \in Tab, NEW p \in Page, Become(t, p),
         page[t].pc \notin {"blank", "form", "unavailable"},
         UNCHANGED <<routerVars, depth>>,
         p.session = page[t].session, p.view = page[t].view,
         p.polls < MaxPolls,
         p.pc \notin {"pay", "receipt"} => p.signed = None,
         p.pc = "approving" =>
           p.hash \in 1 .. Len(txs') /\ txs'[p.hash].kind = "approve",
         p.pc = "pay" =>
           IF p.signed = None THEN Undisturbed' => Granted' ELSE p.signed.nonce <= nonce'
  PROVE  PageOK(t)'
  <1>1. page'[t] = p
    BY BecomeEffect
  <1>2. PageOK(t) /\ page[t].session # None
    BY DEF CheckoutInv, PageOK
  <1>3. \A s : Settled(s)' <=> Settled(s)
    BY DEF Settled, Paid, Invoice, InvoiceId, routerVars
  <1> QED BY <1>1, <1>2, <1>3 DEF PageOK, Covered

\* A click on the button starts pay().
LEMMA ClickKeeps ==
  ASSUME CheckoutInv, NEW t \in Tab, Click(t)
  PROVE  CheckoutInv'
  <1> DEFINE p == [page[t] EXCEPT !.pc = "connect", !.button = "disabled"]
  <1>1. PageOK(t) /\ page[t] \in Page /\ page[t].pc = "shown" /\ Become(t, p)
    BY DEF Click, CheckoutInv, CheckoutTypeOK
  <1>2. /\ p \in Page /\ p.pc = "connect" /\ p.session = page[t].session
        /\ p.view = page[t].view /\ p.loop = page[t].loop /\ p.polls = page[t].polls
        /\ p.signed = None
    BY <1>1 DEF Page, PageOK
  <1> HIDE DEF p
  <1>4. PageOK(t)'
    BY <1>1, <1>2, MovePage DEF PageOK, Click, OnlyPage
  <1> QED BY <1>1, <1>2, <1>4, PageStep, CountsTyped DEF Click, OnlyPage, pageVars

\* The payer signs for the token's nonce, or pay() goes on without a permit.
LEMMA TryPermitKeeps ==
  ASSUME CheckoutInv, NEW t \in Tab, TryPermitSignature(t)
  PROVE  CheckoutInv'
  <1>1. PageOK(t) /\ page[t] \in Page /\ page[t].pc = "connect" /\ nonce \in Nat
    BY DEF TryPermitSignature, CheckoutInv, CheckoutTypeOK
  <1> DEFINE permit == [nonce |-> nonce, deadline |-> now + PermitTTL]
  <1>2. ASSUME Become(t, [page[t] EXCEPT !.pc = "pay", !.signed = permit])
        PROVE  CheckoutInv'
    <2> DEFINE p == [page[t] EXCEPT !.pc = "pay", !.signed = permit]
    <2>0. permit \in Permit /\ permit.nonce = nonce
      BY <1>1, CheckoutConstants DEF Permit, CheckoutInv, CheckoutTypeOK
    <2> HIDE DEF permit
    <2>1. /\ p \in Page /\ p.pc = "pay" /\ p.session = page[t].session
          /\ p.view = page[t].view /\ p.loop = page[t].loop /\ p.polls = page[t].polls
          /\ p.signed = permit
      BY <1>1, <2>0 DEF Page
    <2> HIDE DEF p
    <2>2. Become(t, p)
      BY <1>2 DEF p
    <2>3. permit.nonce <= nonce' /\ permit # None
      BY <1>1, <2>0, CheckoutConstants DEF TryPermitSignature, OnlyPage
    <2>4. PageOK(t)'
      BY <1>1, <2>1, <2>2, <2>3, MovePage DEF PageOK, TryPermitSignature, OnlyPage
    <2> QED BY <1>2, <2>1, <2>4, PageStep, CountsTyped
            DEF p, TryPermitSignature, OnlyPage, pageVars
  <1>3. ASSUME Goto(t, "allowance")
        PROVE  CheckoutInv'
    <2> DEFINE p == [page[t] EXCEPT !.pc = "allowance"]
    <2>1. /\ p \in Page /\ p.pc = "allowance" /\ p.session = page[t].session
          /\ p.view = page[t].view /\ p.loop = page[t].loop /\ p.polls = page[t].polls
          /\ p.signed = page[t].signed
      BY <1>1 DEF Page
    <2> HIDE DEF p
    <2>2. Become(t, p)
      BY <1>3 DEF p, Goto
    <2>3. PageOK(t)'
      BY <1>1, <2>1, <2>2, MovePage DEF PageOK, TryPermitSignature, OnlyPage
    <2> QED BY <1>3, <2>1, <2>3, PageStep, CountsTyped
            DEF p, Goto, TryPermitSignature, OnlyPage, pageVars
  <1> QED BY <1>2, <1>3 DEF TryPermitSignature

\* pay() goes to the payment only when the allowance is there.
LEMMA ReadAllowanceKeeps ==
  ASSUME CheckoutInv, NEW t \in Tab, ReadAllowance(t)
  PROVE  CheckoutInv'
  <1>1. PICK pc \in {"approve", "pay"} :
          /\ Become(t, [page[t] EXCEPT !.pc = pc])
          /\ pc = "pay" => ~(ledger.allowance[<<Customer, Router>>] < Price)
    BY DEF ReadAllowance, Goto
  <1>2. /\ PageOK(t) /\ page[t] \in Page /\ page[t].pc = "allowance"
        /\ ledger.allowance[<<Customer, Router>>] \in Nat
        /\ UNCHANGED <<chainVars, routerVars, server, depth, nonce, txs, pageVars>>
    BY CheckoutConstants
       DEF ReadAllowance, OnlyPage, CheckoutInv, CheckoutTypeOK, Ledger
  <1>3. pc = "pay" => Granted'
    BY <1>1, <1>2, CheckoutConstants DEF Granted, chainVars
  <1> DEFINE p == [page[t] EXCEPT !.pc = pc]
  <1>4. /\ p \in Page /\ p.pc = pc /\ p.session = page[t].session
        /\ p.view = page[t].view /\ p.loop = page[t].loop /\ p.polls = page[t].polls
        /\ p.signed = None
    BY <1>2 DEF Page, PageOK
  <1> HIDE DEF p
  <1>5. Become(t, p)
    BY <1>1 DEF p
  <1>6. PageOK(t)'
    BY <1>2, <1>3, <1>4, <1>5, MovePage DEF PageOK
  <1> QED BY <1>2, <1>4, <1>5, <1>6, PageStep, CountsTyped DEF pageVars

\* An approve that is mined leaves its allowance, while nothing is paid.
LEMMA ApproveMinedKeeps ==
  ASSUME CheckoutInv, NEW t \in Tab, ApproveMined(t)
  PROVE  CheckoutInv'
  <1>1. /\ PageOK(t) /\ page[t] \in Page /\ page[t].pc = "approving" /\ Mined(t)
        /\ Become(t, [page[t] EXCEPT !.pc = "pay"])
        /\ UNCHANGED <<chainVars, routerVars, server, depth, nonce, txs, pageVars>>
    BY DEF ApproveMined, Goto, OnlyPage, CheckoutInv, CheckoutTypeOK
  <1>2. Undisturbed => Granted
    BY <1>1 DEF PageOK, CheckoutInv, TxOK, Mined, Covered
  <1>3. Undisturbed' => Granted'
    BY <1>1, <1>2
       DEF Undisturbed, Granted, Paid, Invoice, InvoiceId, chainVars, routerVars, pageVars
  <1> DEFINE p == [page[t] EXCEPT !.pc = "pay"]
  <1>4. /\ p \in Page /\ p.pc = "pay" /\ p.session = page[t].session
        /\ p.view = page[t].view /\ p.loop = page[t].loop /\ p.polls = page[t].polls
        /\ p.signed = None /\ Become(t, p)
    BY <1>1 DEF Page, PageOK
  <1> HIDE DEF p
  <1>5. PageOK(t)'
    BY <1>1, <1>3, <1>4, MovePage DEF PageOK
  <1> QED BY <1>1, <1>4, <1>5, PageStep, CountsTyped DEF pageVars

\* The receipt of a payment starts poll().
LEMMA PaymentMinedKeeps ==
  ASSUME CheckoutInv, NEW t \in Tab, PaymentMined(t)
  PROVE  CheckoutInv'
  <1> DEFINE q == AfterPay(page[t], "hidden")
  <1>1. /\ PageOK(t) /\ page[t] \in Page /\ page[t].pc = "receipt"
        /\ Become(t, StartPoll(q))
        /\ UNCHANGED <<chainVars, routerVars, server, depth, nonce, txs, pageVars>>
    BY DEF PaymentMined, OnlyPage, CheckoutInv, CheckoutTypeOK
  <1>2. /\ q \in Page /\ q.pc = "shown" /\ q.session = page[t].session /\ q.signed = None
        /\ q.view = page[t].view /\ q.loop = page[t].loop /\ q.polls = page[t].polls
    BY <1>1 DEF Page, AfterPay
  <1> HIDE DEF q
  <1>3. PICK p \in Page : /\ p = StartPoll(q)
                          /\ p.pc = "shown" /\ p.session = q.session /\ p.view = q.view
                          /\ p.signed = None
                          /\ p.polls < MaxPolls
    BY <1>1, <1>2, PollStarts DEF PageOK
  <1>4. PageOK(t)'
    BY <1>1, <1>2, <1>3, MovePage
  <1> QED BY <1>1, <1>3, <1>4, PageStep, CountsTyped DEF pageVars

\* The catch of pay() brings the button back.
LEMMA PayFailsKeeps ==
  ASSUME CheckoutInv, NEW t \in Tab, PayFails(t)
  PROVE  CheckoutInv'
  <1> DEFINE p == AfterPay(page[t], ButtonAfterError(page[t]))
  <1>1. /\ PageOK(t) /\ page[t] \in Page
        /\ page[t].pc \notin {"blank", "form", "unavailable"}
        /\ Become(t, p) /\ Mishap
        /\ UNCHANGED <<chainVars, routerVars, server, depth, nonce, txs, boots, outside>>
    BY DEF PayFails, CheckoutInv, CheckoutTypeOK
  <1>2. /\ p \in Page /\ p.pc = "shown" /\ p.session = page[t].session /\ p.signed = None
        /\ p.view = page[t].view /\ p.loop = page[t].loop /\ p.polls = page[t].polls
    BY <1>1 DEF Page, AfterPay, ButtonAfterError
  <1> HIDE DEF p
  <1>3. PageOK(t)'
    BY <1>1, <1>2, MovePage DEF PageOK
  <1> QED BY <1>1, <1>2, <1>3, PageStep, CountsTyped

\* A transaction is sent: an approve, or a payment that finds what it needs.
LEMMA SendKeeps ==
  ASSUME CheckoutInv, NEW t \in Tab, SendApprove(t) \/ SendPayment(t)
  PROVE  CheckoutInv'
  <1>1. PICK kind \in {"approve", "pay"}, next \in {"approving", "receipt"} :
          /\ Send(t, kind, next)
          /\ \/ kind = "approve" /\ page[t].pc = "approve" /\ next = "approving"
             \/ kind = "pay" /\ page[t].pc = "pay" /\ next = "receipt"
    BY DEF SendApprove, SendPayment
  <1>2. /\ PageOK(t) /\ page[t] \in Page /\ txs \in Seq(Tx)
        /\ server \in [Session -> Status \cup {None}]
    BY DEF CheckoutInv, CheckoutTypeOK
  <1> DEFINE x == [kind |-> kind, session |-> page[t].session,
                   signed |-> page[t].signed, state |-> "pending"]
             p == [page[t] EXCEPT !.pc = next, !.hash = Len(txs) + 1]
  <1>3. x \in Tx /\ x.kind = kind /\ x.signed = page[t].signed /\ x.state = "pending"
    <2>1. page[t].session \in Session /\ page[t].signed \in Permit \cup {None}
      BY <1>1, <1>2 DEF PageOK, Page
    <2> QED BY <2>1 DEF Tx
  <1>4. /\ p \in Page /\ p.pc = next /\ p.session = page[t].session
        /\ p.view = page[t].view /\ p.loop = page[t].loop /\ p.polls = page[t].polls
        /\ p.signed = page[t].signed /\ p.hash = Len(txs) + 1
    <2>1. Len(txs) + 1 \in Nat
      BY <1>2
    <2> QED BY <1>1, <1>2, <2>1 DEF Page
  <1>5. txs' = Append(txs, x) /\ Become(t, p)
    BY <1>1 DEF Send
  <1>6. /\ UNCHANGED <<chainVars, routerVars, server, depth, nonce, pageVars>>
    BY <1>1 DEF Send
  <1> HIDE DEF x, p
  <1>7. /\ txs' \in Seq(Tx) /\ Len(txs') = Len(txs) + 1 /\ Len(txs) \in Nat
        /\ \A h \in 1 .. Len(txs) : h \in 1 .. Len(txs') /\ txs'[h] = txs[h]
        /\ txs'[Len(txs) + 1] = x
    BY <1>2, <1>3, <1>5
  <1>8. /\ Undisturbed' <=> Undisturbed
        /\ Granted' <=> Granted
        /\ nonce' = nonce
    BY <1>6 DEF Undisturbed, Granted, Paid, Invoice, InvoiceId, chainVars, routerVars, pageVars
  <1>9. \A h \in 1 .. Len(txs') : h \in 1 .. Len(txs) \/ TxOK(h)'
    <2> SUFFICES ASSUME NEW h \in 1 .. Len(txs'), h \notin 1 .. Len(txs)
                 PROVE  TxOK(h)'
      OBVIOUS
    <2>1. txs'[h] = x
      BY <1>7
    <2>2. kind = "pay" => Covered(page[t].signed)
      BY <1>1, <1>2 DEF PageOK
    <2> QED BY <1>3, <1>8, <2>1, <2>2 DEF TxOK, Covered
  <1>10. PageOK(t)'
    BY <1>1, <1>2, <1>3, <1>4, <1>5, <1>6, <1>7, MovePage DEF PageOK
  <1>11. Quiet
    BY <1>6 DEF Quiet, chainVars, pageVars
  <1>12. CheckoutTypeOK'
    BY <1>2, <1>4, <1>5, <1>6, <1>7, <1>11, QuietTyped, BecomeEffect, CountsTyped
       DEF pageVars
  <1>13. \A u \in Tab : page'[u] = page[u] \/ PageOK(u)'
    BY <1>4, <1>5, <1>10, BecomeEffect
  <1> QED BY <1>6, <1>7, <1>9, <1>11, <1>12, <1>13, QuietKeeps

---------------------------------------------------------------------------
(* The checkout: the server *)

\* The server adds a session that is pending.
LEMMA CreateKeeps ==
  ASSUME CheckoutInv, NEW t \in Tab, Create(t)
  PROVE  CheckoutInv'
  <1>1. PICK s \in Session :
          /\ server[s] = None
          /\ server' = [server EXCEPT ![s] = "pending"]
          /\ \/ /\ Become(t, [Blank EXCEPT !.pc = "shown", !.session = s,
                                !.view = "pending", !.button = "enabled"])
                /\ mishaps' = mishaps
             \/ Mishap /\ page' = page
    BY DEF Create, CreateSession
  <1>2. /\ UNCHANGED <<chainVars, routerVars, depth, nonce, txs, boots, outside>>
        /\ server \in [Session -> Status \cup {None}] /\ txs \in Seq(Tx)
        /\ page \in [Tab -> Page]
    BY DEF Create, CheckoutInv, CheckoutTypeOK
  <1> DEFINE p == [Blank EXCEPT !.pc = "shown", !.session = s, !.view = "pending",
                     !.button = "enabled"]
  <1>3. /\ p \in Page /\ p.pc = "shown" /\ p.session = s /\ p.view = "pending" /\ ~p.loop
        /\ p.signed = None /\ p.polls < MaxPolls
    BY BlankTyped DEF Page, Blank, Status
  <1> HIDE DEF p
  <1>4. page' \in [Tab -> Page] /\ \A u \in Tab : page'[u] = page[u] \/ PageOK(u)'
    <2>1. CASE Become(t, p)
      <3>1. page'[t] = p /\ s # None
        BY <1>3, <2>1, BecomeEffect, CheckoutConstants
      <3>2. PageOK(t)'
        BY <1>3, <3>1 DEF PageOK
      <3> QED BY <1>3, <2>1, <3>2, BecomeEffect
    <2>2. CASE page' = page
      BY <1>2, <2>2
    <2> QED BY <1>1, <2>1, <2>2 DEF p
  <1>5. Quiet
    BY <1>2 DEF Quiet, chainVars
  <1>6. /\ server' \in [Session -> Status \cup {None}]
        /\ \A r \in Session : server'[r] = server[r] \/ SessionOK(r)'
    BY <1>1, <1>2 DEF Status, SessionOK
  <1>7. CheckoutTypeOK'
    BY <1>1, <1>2, <1>4, <1>5, <1>6, QuietTyped, CountsTyped
  <1> QED BY <1>2, <1>4, <1>5, <1>6, <1>7, QuietKeeps

\* reconcilePayIn says confirmed of what is settled.
LEMMA ReconciledTrue ==
  ASSUME NEW s \in Session, NEW status \in Reconciled(s)
  PROVE  /\ status \in Status
         /\ status = "confirmed" => Settled(s)
  BY DEF Reconciled, Status

\* An iteration of poll() moves on in the loop, or leaves it.
LEMMA IterationEffect ==
  ASSUME NEW p \in Page, p.loop, p.polls < MaxPolls
  PROVE  /\ AfterIteration(p) \in Page
         /\ AfterIteration(p).pc = p.pc /\ AfterIteration(p).session = p.session
         /\ AfterIteration(p).view = p.view /\ AfterIteration(p).signed = p.signed
         /\ AfterIteration(p).hash = p.hash
         /\ AfterIteration(p).polls < MaxPolls
  <1>1. p.polls \in Nat /\ p.polls + 1 \in 0 .. MaxPolls
    BY CheckoutConstants DEF Page
  <1>2. CASE p.view = "confirmed"
    <2>1. 0 \in 0 .. MaxPolls /\ 0 < MaxPolls
      BY CheckoutConstants
    <2> QED BY <1>2, <2>1 DEF AfterIteration, Page
  <1>3. CASE p.view # "confirmed" /\ p.polls + 1 < MaxPolls
    <2>1. AfterIteration(p) = [p EXCEPT !.polls = p.polls + 1]
      BY <1>3 DEF AfterIteration
    <2> QED BY <1>1, <1>3, <2>1 DEF Page
  <1>4. CASE p.view # "confirmed" /\ ~(p.polls + 1 < MaxPolls)
    <2>1. AfterIteration(p) = [p EXCEPT !.loop = FALSE, !.polling = FALSE, !.polls = 0]
      BY <1>4 DEF AfterIteration
    <2>2. 0 \in 0 .. MaxPolls /\ 0 < MaxPolls
      BY CheckoutConstants
    <2> QED BY <2>1, <2>2 DEF Page
  <1> QED BY <1>2, <1>3, <1>4

\* An iteration of poll(), answered or failed.
LEMMA PollKeeps ==
  ASSUME CheckoutInv, NEW t \in Tab, Poll(t) \/ PollFails(t)
  PROVE  CheckoutInv'
  <1>1. /\ page[t].loop /\ page[t] \in Page /\ PageOK(t)
        /\ UNCHANGED <<chainVars, routerVars, depth, nonce, txs, boots, outside>>
        /\ server \in [Session -> Status \cup {None}] /\ txs \in Seq(Tx)
        /\ mishaps' = mishaps \/ Mishap
    BY DEF Poll, PollFails, pageVars, CheckoutInv, CheckoutTypeOK
  <1>2. PICK s \in Session : s = page[t].session
    BY <1>1 DEF PageOK, Page
  <1>3. PICK view \in Status \cup {None} :
          /\ Become(t, AfterIteration([page[t] EXCEPT !.view = view]))
          /\ view = page[t].view \/ (view = "confirmed" => Settled(s))
    <2>1. CASE Poll(t)
      BY <1>2, <2>1, ReconciledTrue DEF Poll
    <2>2. CASE PollFails(t)
      <3>1. [page[t] EXCEPT !.view = page[t].view] = page[t] /\ page[t].view \in Status \cup {None}
        BY <1>1 DEF Page
      <3> QED BY <2>2, <3>1 DEF PollFails
    <2> QED BY <2>1, <2>2
  <1>0. \A r \in Session : Settled(r)' <=> Settled(r)
    BY <1>1 DEF Settled, Paid, Invoice, InvoiceId, routerVars
  <1>4. /\ server' \in [Session -> Status \cup {None}]
        /\ \A r \in Session : server'[r] = server[r] \/ SessionOK(r)'
    <2>1. CASE server' = server
      BY <1>1, <2>1
    <2>2. ASSUME NEW status \in Reconciled(s), server' = [server EXCEPT ![s] = status]
          PROVE  <1>4
      BY <1>0, <1>1, <2>2, ReconciledTrue DEF SessionOK
    <2> QED BY <1>2, <2>1, <2>2 DEF Poll, PollFails
  <1> DEFINE q == [page[t] EXCEPT !.view = view]
  <1>5. /\ q \in Page /\ q.loop /\ q.polls < MaxPolls /\ q.view = view
        /\ q.pc = page[t].pc /\ q.session = page[t].session
        /\ q.signed = page[t].signed /\ q.hash = page[t].hash
    BY <1>1, <1>3 DEF Page, PageOK
  <1> HIDE DEF q
  <1>6. PICK p \in Page :
          /\ p = AfterIteration(q) /\ p.view = view
          /\ p.pc = page[t].pc /\ p.session = page[t].session
          /\ p.signed = page[t].signed /\ p.hash = page[t].hash
          /\ p.polls < MaxPolls
    BY <1>5, IterationEffect
  <1>7. Become(t, p)
    BY <1>3, <1>6 DEF q
  <1>8. page' \in [Tab -> Page] /\ page'[t] = p /\ \A u \in Tab : u # t => page'[u] = page[u]
    BY <1>7, BecomeEffect
  <1>9. view = "confirmed" => Settled(s)'
    BY <1>0, <1>1, <1>2, <1>3 DEF PageOK
  <1>10. page[t].pc = "pay" => Covered(page[t].signed)'
    BY <1>1, <1>6, <1>8
       DEF PageOK, Covered, Undisturbed, Granted, Paid, Invoice, InvoiceId,
           chainVars, routerVars
  <1>11. PageOK(t)'
    BY <1>1, <1>2, <1>6, <1>8, <1>9, <1>10 DEF PageOK
  <1>12. Quiet
    BY <1>1 DEF Quiet, chainVars
  <1>13. CheckoutTypeOK'
    BY <1>1, <1>4, <1>8, <1>12, QuietTyped, CountsTyped
  <1> QED BY <1>1, <1>4, <1>8, <1>11, <1>12, <1>13, QuietKeeps

---------------------------------------------------------------------------
(* The checkout: the chain *)

\* A transaction that is mined keeps everything but its state.
LEMMA MinedEffect ==
  ASSUME CheckoutInv, NEW h \in 1 .. Len(txs), NEW state \in {"success", "reverted"},
         txs' = [txs EXCEPT ![h].state = state]
  PROVE  /\ txs' \in Seq(Tx) /\ Len(txs') = Len(txs)
         /\ \A g \in 1 .. Len(txs) : g # h => txs'[g] = txs[g]
         /\ \A g \in 1 .. Len(txs) : g \in 1 .. Len(txs') /\ txs'[g].kind = txs[g].kind
         /\ txs'[h].signed = txs[h].signed /\ txs'[h].state = state
  <1>1. txs \in Seq(Tx) /\ Len(txs) \in Nat /\ txs[h] \in Tx
    BY DEF CheckoutInv, CheckoutTypeOK
  <1>2. [txs[h] EXCEPT !.state = state] \in Tx
    BY <1>1 DEF Tx
  <1>3. txs' = [txs EXCEPT ![h] = [txs[h] EXCEPT !.state = state]]
    OBVIOUS
  <1>4. /\ txs' \in Seq(Tx) /\ Len(txs') = Len(txs)
        /\ \A g \in 1 .. Len(txs) : g # h => txs'[g] = txs[g]
        /\ txs'[h] = [txs[h] EXCEPT !.state = state]
    BY <1>1, <1>2, <1>3
  <1>5. /\ txs'[h].kind = txs[h].kind /\ txs'[h].signed = txs[h].signed
        /\ txs'[h].state = state
    BY <1>1, <1>4 DEF Tx
  <1> QED BY <1>4, <1>5

\* An allowance of the price, granted by an approve or by a permit.
LEMMA ApprovedEffect ==
  ASSUME NEW l \in Ledger
  PROVE  /\ Approved(l, Customer, Router, Price) \in Ledger
         /\ Approved(l, Customer, Router, Price).balance = l.balance
         /\ Approved(l, Customer, Router, Price).allowance[<<Customer, Router>>] = Price
  BY CheckoutConstants DEF Approved, Ledger

\* The price goes from the customer to the treasury.
LEMMA CollectedEffect ==
  ASSUME NEW l \in Ledger, treasury \in Treasury, CanPull(l, Router, Customer, Price)
  PROVE  /\ Collected(l, Customer, Price) \in Ledger
         /\ Collected(l, Customer, Price).balance[Customer] = l.balance[Customer] - Price
  <1> DEFINE taken == [l.balance EXCEPT ![Customer] = @ - Price]
             moved == [taken EXCEPT ![treasury] = @ + Price]
             left == [l.allowance EXCEPT ![<<Customer, Router>>] = @ - Price]
  <1>1. /\ l.balance \in [Account -> Nat] /\ l.allowance \in [Account \X Account -> Nat]
        /\ l.balance[Customer] >= Price /\ l.allowance[<<Customer, Router>>] >= Price
        /\ treasury \in Account /\ treasury # Customer
        /\ Customer \in Account /\ <<Customer, Router>> \in Account \X Account
        /\ Price \in Nat
    BY CheckoutConstants DEF Ledger, CanPull
  <1>2. taken \in [Account -> Nat] /\ taken[Customer] = l.balance[Customer] - Price
    BY <1>1
  <1>3. moved \in [Account -> Nat] /\ moved[Customer] = l.balance[Customer] - Price
    BY <1>1, <1>2
  <1>4. left \in [Account \X Account -> Nat]
    BY <1>1
  <1>5. Collected(l, Customer, Price) = [balance |-> moved, allowance |-> left]
    <2>1. Collected(l, Customer, Price) = [[l EXCEPT !.balance = moved] EXCEPT !.allowance = left]
      BY DEF Collected, Pulled, Transferred
    <2> HIDE DEF moved, left
    <2> QED BY <2>1 DEF Ledger
  <1> QED BY <1>3, <1>4, <1>5 DEF Ledger

\* What a step of the chain leaves alone.
ChainOnly == UNCHANGED <<treasury, tokenSupported, minAmount, server, page, pageVars>>

\* Types after a step of the chain.
LEMMA ChainTyped ==
  ASSUME CheckoutInv, ChainOnly, ledger' \in Ledger, routerPaused' \in BOOLEAN,
         invoicePaid' \in SUBSET Invoices, nonce' \in Nat, txs' \in Seq(Tx),
         depth' \in [Session -> 0 .. Needed], now' \in 1 .. MaxClock
  PROVE  CheckoutTypeOK'
  BY DEF ChainOnly, pageVars, CheckoutInv, CheckoutTypeOK, RouterTypeOK

\* The customer grants an allowance: nobody has paid, and nobody does.
LEMMA CheckoutGrantKeeps ==
  ASSUME CheckoutInv, NEW h \in 1 .. Len(txs), MineApprove(h) \/ HandInPermit(h)
  PROVE  CheckoutInv'
  <1>1. /\ ledger \in Ledger /\ nonce \in Nat /\ txs \in Seq(Tx)
        /\ ledger' = Approved(ledger, Customer, Router, Price)
        /\ UNCHANGED <<now, routerVars, depth, server, page, pageVars>>
        /\ nonce' \in {nonce, nonce + 1}
    BY DEF MineApprove, HandInPermit, CheckoutInv, CheckoutTypeOK
  <1>2. ledger' \in Ledger /\ ledger'.balance = ledger.balance /\ Granted'
    BY <1>1, ApprovedEffect, CheckoutConstants DEF Granted
  <1>3. /\ txs' \in Seq(Tx) /\ Len(txs') = Len(txs)
        /\ \A g \in 1 .. Len(txs) : g # h => txs'[g] = txs[g]
        /\ \A g \in 1 .. Len(txs) : g \in 1 .. Len(txs') /\ txs'[g].kind = txs[g].kind
        /\ txs'[h].signed = txs[h].signed
    BY <1>1, MinedEffect DEF MineApprove, HandInPermit
  <1>4. ChainOnly /\ UNCHANGED <<invoicePaid, routerPaused, depth, server, outside>>
    BY <1>1 DEF ChainOnly, routerVars, pageVars
  <1>5. CheckoutTypeOK'
    BY <1>1, <1>2, <1>3, <1>4, ChainTyped DEF CheckoutInv, CheckoutTypeOK, RouterTypeOK
  <1>6. /\ \A s \in Session : (Paid(s)' <=> Paid(s)) /\ (Settled(s)' <=> Settled(s))
        /\ Undisturbed' <=> Undisturbed
        /\ {s \in Session : Paid(s)}' = {s \in Session : Paid(s)}
    BY <1>4 DEF Paid, Settled, Undisturbed, Invoice, InvoiceId
  <1>7. (IsFiniteSet({s \in Session : Paid(s)}) /\ ChargedOnce)'
    BY <1>2, <1>4, <1>6 DEF CheckoutInv, ChargedOnce
  <1>8. Advances
    BY <1>1, <1>2, <1>3, <1>4, <1>6 DEF Advances
  <1>9. \A s \in Session : SessionOK(s)'
    BY <1>4, <1>6 DEF CheckoutInv, SessionOK
  <1>10. TxOK(h)'
    <2>1. TxOK(h) /\ txs[h] \in Tx
      BY <1>1 DEF CheckoutInv
    <2> QED BY <1>2, <1>3, <1>5, <1>8, <2>1, CoverStays DEF TxOK, Covered, Tx
  <1> QED BY <1>1, <1>2, <1>3, <1>5, <1>7, <1>8, <1>9, <1>10, StepKeeps

\* A payment goes through: one session more is paid, and charged.
LEMMA MinePaymentKeeps ==
  ASSUME CheckoutInv, NEW h \in 1 .. Len(txs), MinePayment(h)
  PROVE  CheckoutInv'
  <1>1. /\ ledger \in Ledger /\ nonce \in Nat /\ txs[h] \in Tx /\ RouterTypeOK
        /\ txs[h].kind = "pay"
        /\ txs' = [txs EXCEPT ![h].state = "success"]
        /\ nonce' \in {nonce, nonce + 1}
        /\ UNCHANGED <<server, depth, page, pageVars>>
    BY DEF MinePayment, CheckoutInv, CheckoutTypeOK
  <1>2. PICK s \in Session : s = txs[h].session
    BY <1>1 DEF Tx
  <1>3. PICK l \in Ledger : l.balance = ledger.balance /\ Settle(l, Customer, Invoice(s))
    <2>1. CASE PayInvoice(Customer, s, Price)
      BY <1>1, <2>1 DEF PayInvoice, Invoice
    <2>2. CASE PayInvoiceWithPermit(Customer, s, Price, PermitValid(txs[h]))
      <3>1. /\ AfterPermit(Customer, Price, PermitValid(txs[h])) \in Ledger
            /\ AfterPermit(Customer, Price, PermitValid(txs[h])).balance = ledger.balance
        BY <1>1, ApprovedEffect DEF AfterPermit
      <3> QED BY <2>2, <3>1 DEF PayInvoiceWithPermit, Invoice
    <2> QED BY <1>2, <2>1, <2>2 DEF MinePayment
  <1>4. /\ Invoice(s) \in Invoices /\ Invoice(s).amount = Price
        /\ \A r \in Session : Invoice(r) = Invoice(s) => r = s
    BY CheckoutConstants DEF Invoice, InvoiceId, Invoices
  <1>5. /\ Invoice(s) \notin invoicePaid
        /\ invoicePaid' = invoicePaid \cup {Invoice(s)}
        /\ CanPull(l, Router, Customer, Price)
        /\ ledger' = Collected(l, Customer, Price)
        /\ UNCHANGED <<treasury, tokenSupported, minAmount, routerPaused, now>>
    BY <1>3, <1>4 DEF Settle, Payable
  <1>6. ledger' \in Ledger /\ ledger'.balance[Customer] = ledger.balance[Customer] - Price
    BY <1>1, <1>3, <1>5, CollectedEffect DEF RouterTypeOK
  <1>7. /\ \A r \in Session : Paid(r)' <=> Paid(r) \/ r = s
        /\ ~Paid(s)
    BY <1>4, <1>5 DEF Paid, Invoice, InvoiceId
  <1> DEFINE P == {r \in Session : Paid(r)}
  <1>8. P' = P \cup {s} /\ s \notin P
    BY <1>7
  <1>9. /\ IsFiniteSet(P) /\ Cardinality(P) \in Nat
        /\ ledger.balance[Customer] + outside.spent + Price * Cardinality(P) = Purse
        /\ outside.spent \in Nat /\ outside' = outside
    BY <1>1, FS_CardinalityType DEF CheckoutInv, CheckoutTypeOK, ChargedOnce, pageVars
  <1>10. (IsFiniteSet(P) /\ ChargedOnce)'
    <2>1. IsFiniteSet(P') /\ Cardinality(P') = Cardinality(P) + 1
      <3>1. ASSUME NEW S, IsFiniteSet(S), s \notin S
            PROVE  IsFiniteSet(S \cup {s}) /\ Cardinality(S \cup {s}) = Cardinality(S) + 1
        BY <3>1, FS_AddElement
      <3> HIDE DEF P
      <3> QED BY <1>8, <1>9, <3>1
    <2>2. ledger.balance[Customer] \in Nat /\ Price \in Nat
      BY <1>1, CheckoutConstants DEF Ledger
    <2>3. ASSUME NEW b \in Nat, NEW o \in Nat, NEW n \in Nat, b + o + Price * n = Purse
          PROVE  (b - Price) + o + Price * (n + 1) = Purse
      <3>1. Price * (n + 1) = Price * n + Price /\ Price * n \in Nat
        BY <2>2
      <3> QED BY <2>2, <2>3, <3>1
    <2> HIDE DEF P
    <2>4. (ledger.balance[Customer] - Price) + outside.spent + Price * (Cardinality(P) + 1)
            = Purse
      BY <1>9, <2>2, <2>3
    <2>5. ledger'.balance[Customer] + outside'.spent + Price * Cardinality(P') = Purse
      BY <1>6, <1>9, <2>1, <2>4
    <2> QED BY <2>1, <2>5 DEF P, ChargedOnce
  <1> HIDE DEF P
  <1>11. /\ txs' \in Seq(Tx) /\ Len(txs') = Len(txs)
         /\ \A g \in 1 .. Len(txs) : g # h => txs'[g] = txs[g]
         /\ \A g \in 1 .. Len(txs) : g \in 1 .. Len(txs') /\ txs'[g].kind = txs[g].kind
         /\ txs'[h].signed = txs[h].signed
    BY <1>1, MinedEffect
  <1>12. CheckoutTypeOK'
    <2>1. ChainOnly /\ nonce' \in Nat /\ invoicePaid' \in SUBSET Invoices
      BY <1>1, <1>4, <1>5 DEF ChainOnly, RouterTypeOK
    <2> QED BY <1>1, <1>5, <1>6, <1>11, <2>1, ChainTyped
            DEF CheckoutInv, CheckoutTypeOK, RouterTypeOK
  <1>13. ~Undisturbed'
    BY <1>7 DEF Undisturbed
  <1>14. Advances
    BY <1>1, <1>7, <1>11, <1>13 DEF Advances, Settled
  <1>15. \A r \in Session : SessionOK(r)'
    BY <1>1, <1>14 DEF CheckoutInv, SessionOK, Advances
  <1>16. TxOK(h)'
    <2>1. TxOK(h)
      BY DEF CheckoutInv
    <2> QED BY <1>1, <1>11, <1>12, <1>13, <1>14, <2>1, CoverStays DEF TxOK, Covered, Tx
  <1> QED BY <1>1, <1>10, <1>11, <1>12, <1>13, <1>14, <1>15, <1>16, StepKeeps
          DEF P

\* A transaction that reverts changes nothing but its state.
LEMMA MineRevertKeeps ==
  ASSUME CheckoutInv, NEW h \in 1 .. Len(txs), MineRevert(h)
  PROVE  CheckoutInv'
  <1>1. /\ txs[h].kind = "pay" /\ txs[h] \in Tx /\ TxOK(h)
        /\ UNCHANGED <<ledger, now, routerVars, server, depth, nonce, page, pageVars>>
    BY DEF MineRevert, chainVars, CheckoutInv, CheckoutTypeOK
  <1>2. /\ txs' \in Seq(Tx) /\ Len(txs') = Len(txs)
        /\ \A g \in 1 .. Len(txs) : g # h => txs'[g] = txs[g]
        /\ \A g \in 1 .. Len(txs) : g \in 1 .. Len(txs') /\ txs'[g].kind = txs[g].kind
        /\ txs'[h].signed = txs[h].signed
    BY MinedEffect DEF MineRevert
  <1>3. ChainOnly /\ UNCHANGED <<invoicePaid, routerPaused, depth, server, outside>>
    BY <1>1 DEF ChainOnly, routerVars, pageVars
  <1>4. CheckoutTypeOK'
    BY <1>1, <1>2, <1>3, ChainTyped DEF CheckoutInv, CheckoutTypeOK, RouterTypeOK
  <1>5. /\ \A s \in Session : (Paid(s)' <=> Paid(s)) /\ (Settled(s)' <=> Settled(s))
        /\ Undisturbed' <=> Undisturbed
        /\ Granted' <=> Granted
        /\ {s \in Session : Paid(s)}' = {s \in Session : Paid(s)}
    BY <1>1, <1>3 DEF Paid, Settled, Undisturbed, Granted, Invoice, InvoiceId
  <1>6. (IsFiniteSet({s \in Session : Paid(s)}) /\ ChargedOnce)'
    BY <1>1, <1>3, <1>5 DEF CheckoutInv, ChargedOnce
  <1>7. Advances
    BY <1>1, <1>2, <1>5 DEF Advances, CheckoutInv, CheckoutTypeOK
  <1>8. (\A s \in Session : SessionOK(s)') /\ (Undisturbed /\ nonce > 0 => Granted)'
    BY <1>1, <1>5 DEF CheckoutInv, SessionOK
  <1>9. TxOK(h)'
    BY <1>1, <1>2, <1>4, <1>7, CoverStays DEF TxOK, Covered, Tx
  <1> QED BY <1>1, <1>2, <1>4, <1>6, <1>7, <1>8, <1>9, StepKeeps

\* Another call from outside is counted.
LEMMA CallTyped ==
  ASSUME CheckoutInv, NEW spent \in Nat, NEW meddled \in BOOLEAN, CallOutside(spent, meddled)
  PROVE  /\ outside' \in [spent: Nat, meddled: BOOLEAN] /\ mishaps' \in 0 .. MaxMishaps
         /\ outside'.spent = outside.spent + spent
         /\ outside.spent \in Nat
         /\ outside'.meddled <=> outside.meddled \/ meddled
  <1>1. /\ outside \in [spent: Nat, meddled: BOOLEAN] /\ mishaps \in 0 .. MaxMishaps
        /\ mishaps < MaxMishaps /\ mishaps' = mishaps + 1 /\ MaxMishaps \in Nat
    BY CheckoutConstants DEF CallOutside, Mishap, CheckoutInv, CheckoutTypeOK
  <1>2. mishaps' \in 0 .. MaxMishaps
    BY <1>1
  <1>3. /\ outside' \in [spent: Nat, meddled: BOOLEAN]
        /\ outside'.spent = outside.spent + spent /\ outside.spent \in Nat
    BY <1>1 DEF CallOutside
  <1>4. outside'.meddled <=> outside.meddled \/ meddled
    BY DEF CallOutside
  <1> QED BY <1>2, <1>3, <1>4

\* What a step from outside leaves alone.
Aside == UNCHANGED <<invoicePaid, server, txs, page, boots>>

\* A step from outside, which may take the allowance or the nonce away only
\* when it says so.
LEMMA AsideKeeps ==
  ASSUME CheckoutInv, CheckoutTypeOK', Aside, ChargedOnce',
         nonce' \in {nonce, nonce + 1},
         Undisturbed' => Undisturbed /\ Granted' = Granted /\ nonce' = nonce,
         \A s \in Session : depth[s] = Needed => depth'[s] = Needed
  PROVE  CheckoutInv'
  <1>1. /\ \A s \in Session : (Paid(s)' <=> Paid(s)) /\ (Settled(s) => Settled(s)')
        /\ {s \in Session : Paid(s)}' = {s \in Session : Paid(s)}
    BY DEF Aside, Paid, Settled, Invoice, InvoiceId
  <1>2. Advances
    BY <1>1 DEF Aside, Advances, CheckoutInv, CheckoutTypeOK
  <1>3. IsFiniteSet({s \in Session : Paid(s)})' /\ (Undisturbed /\ nonce > 0 => Granted)'
    BY <1>1 DEF CheckoutInv
  <1>4. \A s \in Session : SessionOK(s)'
    BY <1>1 DEF Aside, CheckoutInv, SessionOK
  <1>5. /\ \A t \in Tab : page'[t] = page[t]
        /\ \A h \in 1 .. Len(txs') : h \in 1 .. Len(txs) /\ txs'[h] = txs[h]
    BY DEF Aside
  <1> QED BY <1>2, <1>3, <1>4, <1>5, StepKeeps

\* Blocks are added, time passes, and the owner changes the router.
LEMMA OutsideKeeps ==
  ASSUME CheckoutInv, Block \/ TimePasses \/ OwnerChanges \/ OwnerUnpauses
  PROVE  CheckoutInv'
  <1>1. Aside /\ UNCHANGED <<ledger, nonce>>
    BY DEF Block, TimePasses, OwnerChanges, CallOutside, OwnerUnpauses, PauseRouter,
           UnpauseRouter, SetTreasury, SetTokenSupported, Aside, chainVars, routerVars, pageVars
  <1>2. /\ outside' \in [spent: Nat, meddled: BOOLEAN] /\ mishaps' \in 0 .. MaxMishaps
        /\ outside'.spent = outside.spent /\ (outside'.meddled <=> outside.meddled)
    <2>1. CASE CallOutside(0, FALSE)
      <3>1. /\ outside' \in [spent: Nat, meddled: BOOLEAN] /\ mishaps' \in 0 .. MaxMishaps
            /\ outside'.spent = outside.spent + 0 /\ outside.spent \in Nat
            /\ outside'.meddled <=> outside.meddled \/ FALSE
        BY <2>1, CallTyped
      <3> QED BY <3>1
    <2>2. CASE UNCHANGED pageVars
      BY <2>2 DEF pageVars, CheckoutInv, CheckoutTypeOK
    <2> QED BY <2>1, <2>2 DEF Block, TimePasses, OwnerChanges, OwnerUnpauses
  <1>3. /\ depth' \in [Session -> 0 .. Needed]
        /\ \A s \in Session : depth[s] = Needed => depth'[s] = Needed
    <2>1. depth \in [Session -> 0 .. Needed] /\ Needed \in Nat
      BY CheckoutConstants DEF CheckoutInv, CheckoutTypeOK
    <2>2. CASE Block
      BY <2>1, <2>2 DEF Block
    <2>3. CASE depth' = depth
      BY <2>1, <2>3
    <2> QED BY <2>2, <2>3 DEF TimePasses, OwnerChanges, CallOutside, OwnerUnpauses
  <1>4. now' \in 1 .. MaxClock
    <2>1. now \in 1 .. MaxClock /\ MaxClock \in Nat
      BY CheckoutConstants DEF CheckoutInv, CheckoutTypeOK
    <2>2. CASE TimePasses
      BY <2>1, <2>2 DEF TimePasses
    <2>3. CASE now' = now
      BY <2>1, <2>3
    <2> QED BY <2>2, <2>3 DEF Block, OwnerChanges, OwnerUnpauses, PauseRouter, UnpauseRouter,
                SetTreasury, SetTokenSupported, chainVars
  <1>5. RouterTypeOK'
    <2>1. RouterTypeOK /\ Amount \subseteq Nat
      BY RouterAssumption DEF CheckoutInv, CheckoutTypeOK
    <2>2. CASE UNCHANGED routerVars
      BY <2>1, <2>2 DEF routerVars, RouterTypeOK
    <2>3. CASE PauseRouter \/ UnpauseRouter
      BY <2>1, <2>3 DEF PauseRouter, UnpauseRouter, RouterTypeOK
    <2>4. ASSUME NEW t \in Treasury, SetTreasury(t)
          PROVE  RouterTypeOK'
      BY <2>1, <2>4 DEF SetTreasury, RouterTypeOK
    <2>5. ASSUME NEW supported \in BOOLEAN, NEW minimum \in Amount,
                 SetTokenSupported(supported, minimum)
          PROVE  RouterTypeOK'
      BY <2>1, <2>5 DEF SetTokenSupported, RouterTypeOK
    <2> QED BY <2>2, <2>3, <2>4, <2>5 DEF Block, TimePasses, OwnerChanges, OwnerUnpauses
  <1>6. CheckoutTypeOK'
    BY <1>1, <1>2, <1>3, <1>4, <1>5 DEF Aside, CheckoutInv, CheckoutTypeOK
  <1>7. ChargedOnce' /\ Granted' = Granted /\ (Undisturbed' => Undisturbed)
    BY <1>1, <1>2 DEF Aside, CheckoutInv, ChargedOnce, Granted, Undisturbed, Paid, Invoice,
                      InvoiceId
  <1> QED BY <1>1, <1>3, <1>6, <1>7, AsideKeeps

\* The payer uses the token elsewhere.
LEMMA PayerKeeps ==
  ASSUME CheckoutInv, PayerMeddles \/ \E amount \in Amount : PayerSpends(amount)
  PROVE  CheckoutInv'
  <1>1. /\ ledger \in Ledger /\ nonce \in Nat
        /\ Aside /\ UNCHANGED <<now, treasury, tokenSupported, minAmount, routerPaused, depth>>
    BY DEF PayerMeddles, PayerSpends, CallOutside, Aside, routerVars, CheckoutInv,
           CheckoutTypeOK
  <1>2. CASE PayerMeddles
    <2>1. CallOutside(0, TRUE)
      BY <1>2 DEF PayerMeddles
    <2>2. /\ outside' \in [spent: Nat, meddled: BOOLEAN] /\ mishaps' \in 0 .. MaxMishaps
          /\ outside'.spent = outside.spent + 0 /\ outside.spent \in Nat
      BY <2>1, CallTyped
    <2>3. ~Undisturbed'
      BY <2>1, CallTyped DEF Undisturbed
    <2>4. ledger' \in Ledger /\ ledger'.balance = ledger.balance
      <3>1. ASSUME NEW k, k = Approved(ledger, Customer, Router, 0)
            PROVE  k \in Ledger /\ k.balance = ledger.balance
        BY <1>1, <3>1, CheckoutConstants DEF Approved, Ledger
      <3> QED BY <1>1, <1>2, <3>1 DEF PayerMeddles
    <2>5. nonce' \in {nonce, nonce + 1}
      BY <1>2 DEF PayerMeddles
    <2>6. ChargedOnce'
      BY <1>1, <2>2, <2>4 DEF Aside, CheckoutInv, ChargedOnce, Paid, Invoice, InvoiceId
    <2>7. CheckoutTypeOK'
      BY <1>1, <2>2, <2>4, <2>5 DEF Aside, CheckoutInv, CheckoutTypeOK, RouterTypeOK
    <2> QED BY <1>1, <2>3, <2>5, <2>6, <2>7, AsideKeeps
  <1>3. ASSUME NEW amount \in Amount, PayerSpends(amount)
        PROVE  CheckoutInv'
    <2>1. amount \in Nat /\ CallOutside(amount, FALSE) /\ nonce' = nonce
      BY <1>3, RouterAssumption DEF PayerSpends
    <2>2. /\ outside' \in [spent: Nat, meddled: BOOLEAN] /\ mishaps' \in 0 .. MaxMishaps
          /\ outside'.spent = outside.spent + amount /\ outside.spent \in Nat
      BY <2>1, CallTyped
    <2>3. outside'.meddled <=> outside.meddled \/ FALSE
      BY <2>1, CallTyped
    <2>4. /\ ledger' \in Ledger /\ ledger'.allowance = ledger.allowance
          /\ ledger'.balance[Customer] = ledger.balance[Customer] - amount
          /\ ledger.balance[Customer] \in Nat
      BY <1>1, <1>3, <2>1, CheckoutConstants DEF PayerSpends, Ledger
    <2>5. Granted' = Granted /\ (Undisturbed' => Undisturbed)
      BY <1>1, <2>3, <2>4 DEF Aside, Granted, Undisturbed, Paid, Invoice, InvoiceId
    <2>6. ChargedOnce'
      <3> DEFINE P == {s \in Session : Paid(s)}
      <3>1. P' = P
        BY <1>1 DEF Aside, Paid, Invoice, InvoiceId
      <3>2. /\ ledger.balance[Customer] + outside.spent + Price * Cardinality(P) = Purse
            /\ Price * Cardinality(P) \in Nat
        BY FS_CardinalityType, CheckoutConstants DEF CheckoutInv, ChargedOnce
      <3> HIDE DEF P
      <3>3. ledger'.balance[Customer] + outside'.spent + Price * Cardinality(P') = Purse
        BY <2>1, <2>2, <2>4, <3>1, <3>2
      <3> QED BY <3>3 DEF P, ChargedOnce
    <2>7. CheckoutTypeOK'
      BY <1>1, <2>1, <2>2, <2>4 DEF Aside, CheckoutInv, CheckoutTypeOK, RouterTypeOK
    <2> QED BY <1>1, <2>1, <2>5, <2>6, <2>7, AsideKeeps
  <1> QED BY <1>2, <1>3

\* The invariant holds before the first page is opened.
LEMMA CheckoutBegins ==
  ASSUME CheckoutInit
  PROVE  CheckoutInv
  <1>1. /\ ledger \in Ledger /\ ledger.balance[Customer] = Purse
    BY CheckoutConstants DEF CheckoutInit, Ledger
  <1>2. CheckoutTypeOK
    <2>1. RouterTypeOK
      BY DEF CheckoutInit, RouterInit, RouterTypeOK
    <2>2. page \in [Tab -> Page] /\ txs \in Seq(Tx)
      BY BlankTyped DEF CheckoutInit
    <2>3. /\ depth \in [Session -> 0 .. Needed] /\ nonce \in Nat /\ now \in 1 .. MaxClock
          /\ boots \in 0 .. MaxBoots /\ mishaps \in 0 .. MaxMishaps
      BY CheckoutConstants DEF CheckoutInit
    <2>4. outside \in [spent: Nat, meddled: BOOLEAN]
      BY DEF CheckoutInit
    <2> QED BY <1>1, <2>1, <2>2, <2>3, <2>4 DEF CheckoutInit, CheckoutTypeOK
  <1>3. \A s \in Session : ~Paid(s)
    BY DEF CheckoutInit, RouterInit, Paid
  <1>4. {s \in Session : Paid(s)} = {}
    BY <1>3
  <1>5. IsFiniteSet({s \in Session : Paid(s)}) /\ ChargedOnce
    <2>1. IsFiniteSet({}) /\ Cardinality({}) = 0
      BY FS_EmptySet
    <2>2. Purse + 0 + Price * 0 = Purse
      BY CheckoutConstants
    <2> QED BY <1>1, <1>4, <2>1, <2>2 DEF CheckoutInit, ChargedOnce
  <1>6. None # "confirmed"
    BY CheckoutConstants DEF Status
  <1>7. /\ ~(nonce > 0)
        /\ \A s \in Session : SessionOK(s)
        /\ \A h \in 1 .. Len(txs) : TxOK(h)
    BY <1>6 DEF CheckoutInit, SessionOK
  <1>8. \A t \in Tab : PageOK(t)
    <2>1. Blank.polls < MaxPolls
      BY BlankTyped
    <2> QED BY <1>6, <2>1, BlankTyped DEF CheckoutInit, PageOK
  <1> QED BY <1>2, <1>3, <1>5, <1>7, <1>8 DEF CheckoutInv

\* Every step keeps the invariant.
LEMMA CheckoutGoesOn ==
  ASSUME CheckoutInv, [CheckoutNext]_checkoutVars
  PROVE  CheckoutInv'
  <1>1. CASE UNCHANGED checkoutVars
    <2>1. UNCHANGED <<ledger, logs, now, treasury, tokenSupported, minAmount, routerPaused,
                      invoicePaid, server, depth, nonce, txs, page, boots, mishaps, outside>>
      BY <1>1 DEF checkoutVars, chainVars, routerVars, pageVars
    <2>2. CheckoutTypeOK' /\ Quiet
      BY <2>1 DEF CheckoutInv, CheckoutTypeOK, RouterTypeOK, Quiet, routerVars
    <2> QED BY <2>1, <2>2, QuietKeeps
  <1>2. ASSUME NEW t \in Tab, Runs(t)
        PROVE  CheckoutInv'
    BY <1>2, TryPermitKeeps, ReadAllowanceKeeps, SendKeeps, ApproveMinedKeeps,
       PaymentMinedKeeps DEF Runs
  <1>3. CASE Mining
    BY <1>3, CheckoutGrantKeeps, MinePaymentKeeps, MineRevertKeeps DEF Mining
  <1> QED BY <1>1, <1>2, <1>3, LoadKeeps, CreateKeeps, ClickKeeps, PayFailsKeeps,
             PollKeeps, CheckoutGrantKeeps, OutsideKeeps, PayerKeeps DEF CheckoutNext

\* The invariant of the checkout, for any number of tabs, sessions, loads,
\* errors and calls from outside.
THEOREM CheckoutInvariance == CheckoutSpec => []CheckoutInv
  BY CheckoutBegins, CheckoutGoesOn, PTL DEF CheckoutSpec

\* Pages, transactions and the server's rows keep their types.
THEOREM CheckoutTypeCorrect == CheckoutSpec => []CheckoutTypeOK
  <1>1. CheckoutInv => CheckoutTypeOK
    BY DEF CheckoutInv
  <1> QED BY <1>1, CheckoutInvariance, PTL

\* However often the payer clicks, in however many tabs, a session is charged
\* once: pay() may send a transaction each time, and the router takes one.
THEOREM PayerChargedOnce == CheckoutSpec => []ChargedOnce
  <1>1. CheckoutInv => ChargedOnce
    BY DEF CheckoutInv
  <1> QED BY <1>1, CheckoutInvariance, PTL

\* What poll() or a load shows as confirmed is paid, and deep enough.
THEOREM ConfirmedIsSettled == CheckoutSpec => []ShownIsSettled
  <1>1. CheckoutInv => ShownIsSettled
    BY DEF CheckoutInv, PageOK, ShownIsSettled
  <1> QED BY <1>1, CheckoutInvariance, PTL

\* While nothing is paid, a payment that nothing refuses succeeds.
LEMMA FirstPaymentSucceeds ==
  ASSUME CheckoutInv, NEW h \in 1 .. Len(txs), txs[h].kind = "pay",
         \A s \in Session : ~Paid(s), ~Refused(txs[h])
  PROVE  PaymentSucceeds(txs[h])
  <1>1. /\ ledger \in Ledger /\ nonce \in Nat /\ txs[h] \in Tx /\ TxOK(h)
        /\ minAmount \in Nat /\ ledger.balance[Customer] \in Nat
    BY CheckoutConstants DEF CheckoutInv, CheckoutTypeOK, RouterTypeOK, Ledger
  <1>2. PICK s \in Session : s = txs[h].session
    BY <1>1 DEF Tx
  <1>3. Payable(Invoice(s)) /\ ~routerPaused
    BY <1>1, CheckoutConstants
       DEF Refused, Payable, PayableAgain, Paid, Invoice, InvoiceId
  <1>4. ledger.balance[Customer] >= Price
    BY <1>1, CheckoutConstants DEF Refused
  <1>5. Undisturbed /\ ~Expired(txs[h])
    BY DEF Undisturbed, Refused
  <1>6. CASE ~PermitValid(txs[h])
    <2>1. Granted
      <3>1. CASE txs[h].signed = None
        BY <1>1, <1>5, <3>1 DEF TxOK, Covered
      <3>2. CASE txs[h].signed # None
        <4>1. txs[h].signed.nonce \in Nat /\ txs[h].signed.nonce <= nonce
          BY <1>1, <3>2 DEF TxOK, Covered, Tx, Permit
        <4>2. txs[h].signed.nonce # nonce
          BY <1>5, <1>6, <3>2 DEF PermitValid
        <4> QED BY <1>1, <1>5, <4>1, <4>2 DEF CheckoutInv
      <3> QED BY <3>1, <3>2
    <2>2. LedgerFor(txs[h]) = ledger
      BY <1>6 DEF LedgerFor, AfterPermit
    <2> QED BY <1>2, <1>3, <1>4, <2>1, <2>2 DEF PaymentSucceeds, CanPull, Granted
  <1>7. CASE PermitValid(txs[h])
    <2>1. LedgerFor(txs[h]) = Approved(ledger, Customer, Router, Price)
      BY <1>7 DEF LedgerFor, AfterPermit, PermitValid
    <2>2. /\ LedgerFor(txs[h]).balance = ledger.balance
          /\ LedgerFor(txs[h]).allowance[<<Customer, Router>>] >= Price
      BY <1>1, <2>1, ApprovedEffect, CheckoutConstants
    <2> QED BY <1>2, <1>3, <1>4, <2>2 DEF PaymentSucceeds, CanPull
  <1> QED BY <1>6, <1>7

\* A payment reverts only because a session is paid, this one or another whose
\* payment took the allowance or the permit's nonce, or because it is refused:
\* the router, the token, the balance, the deadline, or the payer's own doing.
THEOREM RevertsAreExplained == CheckoutSpec => RevertsExplained
  <1> DEFINE Explained ==
        \A h \in 1 .. Len(txs) :
          txs[h].state = "pending" /\ txs'[h].state = "reverted"
            => \/ Paid(txs[h].session)
               \/ Refused(txs[h])
               \/ \E s \in Session \ {txs[h].session} : Paid(s)
  <1>1. ASSUME CheckoutInv, [CheckoutNext]_checkoutVars
        PROVE  [Explained]_checkoutVars
    <2> SUFFICES ASSUME NEW h \in 1 .. Len(txs), txs[h].state = "pending",
                        txs'[h].state = "reverted", ~Refused(txs[h]),
                        \A s \in Session : ~Paid(s)
                 PROVE  FALSE
      <3> SUFFICES ASSUME NEW h \in 1 .. Len(txs), txs[h].state = "pending",
                          txs'[h].state = "reverted", ~Refused(txs[h])
                   PROVE  \/ Paid(txs[h].session)
                          \/ \E s \in Session \ {txs[h].session} : Paid(s)
        OBVIOUS
      <3>1. PICK r \in Session : Paid(r)
        OBVIOUS
      <3>2. CASE r = txs[h].session
        BY <3>1, <3>2
      <3>3. CASE r # txs[h].session
        BY <3>1, <3>3
      <3> QED BY <3>2, <3>3
    <2>0. /\ Len(txs) \in Nat
          /\ \A g \in 1 .. Len(txs) : txs[g] \in Tx
      BY <1>1 DEF CheckoutInv, CheckoutTypeOK
    <2>1. ASSUME NEW g \in 1 .. Len(txs), MineRevert(g)
          PROVE  FALSE
      <3>1. txs' = [txs EXCEPT ![g].state = "reverted"]
        BY <2>1 DEF MineRevert
      <3>2. \A k \in 1 .. Len(txs) : k # g => txs'[k] = txs[k]
        BY <1>1, <3>1, MinedEffect
      <3>3. g = h
        BY <3>2
      <3>4. txs[h].kind = "pay" /\ ~PaymentSucceeds(txs[h])
        BY <2>1, <3>3 DEF MineRevert
      <3> QED BY <1>1, <3>4, FirstPaymentSucceeds
    <2>2. CASE txs' = txs
      BY <2>2
    <2>3. ASSUME NEW t \in Tab, NEW kind, NEW next, Send(t, kind, next)
          PROVE  FALSE
      <3>1. PICK x : txs' = Append(txs, x)
        BY <2>3 DEF Send
      <3>2. txs \in Seq(Tx)
        BY <1>1 DEF CheckoutInv, CheckoutTypeOK
      <3>3. txs'[h] = txs[h]
        BY <3>1, <3>2
      <3> QED BY <3>3
    <2>4. ASSUME NEW g \in 1 .. Len(txs), txs' = [txs EXCEPT ![g].state = "success"]
          PROVE  FALSE
      <3>1. /\ \A k \in 1 .. Len(txs) : k # g => txs'[k] = txs[k]
            /\ txs'[g].state = "success"
        BY <1>1, <2>4, MinedEffect
      <3> QED BY <3>1
    <2>5. ASSUME NEW t \in Tab, Runs(t)
          PROVE  FALSE
      BY <2>2, <2>3, <2>5 DEF Runs, TryPermitSignature, ReadAllowance, SendApprove,
         SendPayment, ApproveMined, PaymentMined, OnlyPage
    <2>6. CASE Mining
      BY <2>1, <2>4, <2>6 DEF Mining, MineApprove, MinePayment
    <2>7. CASE UNCHANGED checkoutVars
      BY <2>2, <2>7 DEF checkoutVars
    <2> QED BY <1>1, <2>2, <2>5, <2>6, <2>7
            DEF CheckoutNext, Load, LoadFails, Create, Click, OnlyPage, PayFails, Poll,
                PollFails, HandInPermit, Block, TimePasses, OwnerChanges, OwnerUnpauses,
                PayerSpends, PayerMeddles, CallOutside
  <1> QED BY <1>1, CheckoutInvariance, PTL DEF CheckoutSpec, RevertsExplained

=============================================================================
