---------------------------- MODULE AccessProofs ----------------------------
(***************************************************************************)
(* Proofs about Access: a key that is no longer valid is accepted for a    *)
(* bounded time, it is gone at once from the cache of the instance that    *)
(* revoked it, and the throttle bounds what passes in any span of a        *)
(* window.  The last one is about a sum; the first part has what it needs. *)
(***************************************************************************)
EXTENDS Access, FiniteSetTheorems, WellFoundedInduction, TLAPS

---------------------------------------------------------------------------
(* Induction over a set of numbers, and over the subsets of a finite set *)

Less == {p \in Nat \X Nat : p[1] < p[2]}

\* There is no infinite descent among the naturals.
LEMMA LessWellFounded == IsWellFoundedOn(Less, Nat)
  BY NatLessThanWellFounded DEF OpToRel, Less

\* A set with 0 that is closed under successors has all the naturals.
LEMMA SetInduction ==
  ASSUME NEW S \in SUBSET Nat, 0 \in S, \A n \in S : n + 1 \in S
  PROVE  S = Nat
  <1> DEFINE T == Nat \ S
  <1>1. SUFFICES ASSUME T # {} PROVE FALSE
    OBVIOUS
  <1>2. PICK x \in T : \A y \in T : <<y, x>> \notin Less
    BY <1>1, LessWellFounded, WFMin, T \subseteq Nat
  <1>3. x \in Nat /\ x # 0 /\ x - 1 \in Nat
    OBVIOUS
  <1>4. x - 1 \notin S
    BY <1>3
  <1>5. <<x - 1, x>> \in Less
    BY <1>3 DEF Less
  <1> QED BY <1>2, <1>3, <1>4, <1>5

\* What holds for a subset of a finite set whenever it holds for the subset
\* without any one of its elements, holds for all subsets.
LEMMA SubsetInduction ==
  ASSUME NEW T, IsFiniteSet(T), NEW G,
         \A s \in SUBSET T : (\A x \in s : s \ {x} \in G) => s \in G
  PROVE  SUBSET T \subseteq G
  <1> DEFINE S == {n \in Nat : \A s \in SUBSET T : Cardinality(s) = n => s \in G}
  <1>1. 0 \in S
    <2> SUFFICES ASSUME NEW s \in SUBSET T, Cardinality(s) = 0
                 PROVE  s \in G
      OBVIOUS
    <2>1. s = {}
      BY FS_Subset, FS_EmptySet
    <2> QED BY <2>1
  <1>2. ASSUME NEW n \in S
        PROVE  n + 1 \in S
    <2> SUFFICES ASSUME NEW s \in SUBSET T, Cardinality(s) = n + 1
                 PROVE  s \in G
      OBVIOUS
    <2>1. ASSUME NEW x \in s
          PROVE  s \ {x} \in G
      <3>1. IsFiniteSet(s)
        BY FS_Subset
      <3>2. Cardinality(s \ {x}) = n
        BY <3>1, FS_RemoveElement
      <3> QED BY <3>2
    <2> QED BY <2>1
  <1>3. S = Nat
    <2> HIDE DEF S
    <2> S \in SUBSET Nat
      BY DEF S
    <2> QED BY <1>1, <1>2, SetInduction
  <1> SUFFICES ASSUME NEW s \in SUBSET T
               PROVE  s \in G
    OBVIOUS
  <1>4. Cardinality(s) \in Nat
    BY FS_Subset, FS_CardinalityType
  <1> QED BY <1>3, <1>4

---------------------------------------------------------------------------
(* What MapThenSumSet computes *)

Pick(s) == CHOOSE x \in s : TRUE

\* f is the sum of g over each subset of T, as the library computes it.
SumStep(f, g, s) == IF s = {} THEN 0 ELSE g[Pick(s)] + f[s \ {Pick(s)}]
IsSum(f, g, T) == f = [s \in SUBSET T |-> SumStep(f, g, s)]

NatValued(g, T) == \A x \in T : g[x] \in Nat

\* Any element may be taken out of a sum.
Removes(f, g, T) == \A s \in SUBSET T : \A x \in s : f[s] = g[x] + f[s \ {x}]

\* P[n] is the sum of the first n values of g.
IsPrefix(P, g, w) ==
  /\ P[0] = 0
  /\ \A t \in 0 .. w : P[t] \in Nat
  /\ \A t \in 0 .. w - 1 : P[t + 1] = P[t] + g[t]

Total(g, T) == MapThenSumSet(LAMBDA t : g[t], T)

\* The fold of the library, as a recursive function.
LEMMA SumExpanded ==
  ASSUME NEW g, NEW T
  PROVE  Total(g, T) = (CHOOSE f : IsSum(f, g, T))[T]
  BY DEF Total, MapThenSumSet, MapThenFoldSet, IsSum, SumStep, Pick

\* An element is picked from every set that has one.
LEMMA Picked ==
  ASSUME NEW s, s # {}
  PROVE  Pick(s) \in s
  BY DEF Pick

\* That function is there: it is built up from the smaller subsets.
LEMMA SumExists ==
  ASSUME NEW T, IsFiniteSet(T), NEW g
  PROVE  \E f : IsSum(f, g, T)
  <1> DEFINE D(n) == {s \in SUBSET T : Cardinality(s) <= n}
             Upto(f, n) == f = [s \in D(n) |-> SumStep(f, g, s)]
             S == {n \in Nat : \E f : Upto(f, n)}
  <1>0. ASSUME NEW s \in SUBSET T
        PROVE  /\ IsFiniteSet(s) /\ Cardinality(s) \in Nat
               /\ s # {} => Cardinality(s \ {Pick(s)}) = Cardinality(s) - 1
    <2>1. IsFiniteSet(s) /\ Cardinality(s) \in Nat
      BY FS_Subset, FS_CardinalityType
    <2>2. s # {} => Pick(s) \in s
      BY Picked
    <2>3. ASSUME NEW x \in s
          PROVE  Cardinality(s \ {x}) = Cardinality(s) - 1
      BY <2>1, FS_RemoveElement
    <2> QED BY <2>1, <2>2, <2>3
  <1>1. 0 \in S
    <2> DEFINE f == [s \in D(0) |-> 0]
    <2>1. ASSUME NEW s \in D(0)
          PROVE  s = {}
      <3>1. s \in SUBSET T /\ Cardinality(s) <= 0
        OBVIOUS
      <3>2. IsFiniteSet(s) /\ Cardinality(s) \in Nat
        BY <3>1, <1>0
      <3>3. Cardinality(s) = 0
        BY <3>1, <3>2
      <3> QED BY <3>2, <3>3, FS_EmptySet
    <2>2. \A s \in D(0) : SumStep(f, g, s) = 0
      BY <2>1 DEF SumStep
    <2>3. Upto(f, 0)
      BY <2>2
    <2> QED BY <2>3
  <1>2. ASSUME NEW n \in S
        PROVE  n + 1 \in S
    <2>1. PICK f : Upto(f, n)
      OBVIOUS
    <2> DEFINE h == [s \in D(n + 1) |-> SumStep(f, g, s)]
    <2>2. ASSUME NEW s \in D(n)
          PROVE  s \in D(n + 1) /\ h[s] = f[s]
      <3>1. s \in D(n + 1)
        <4>1. s \in SUBSET T /\ Cardinality(s) <= n
          OBVIOUS
        <4>2. Cardinality(s) \in Nat /\ n \in Nat
          BY <4>1, <1>0
        <4>3. Cardinality(s) <= n + 1
          BY <4>1, <4>2
        <4> QED BY <4>1, <4>3
      <3>2. f[s] = SumStep(f, g, s)
        BY <2>1
      <3> QED BY <3>1, <3>2
    <2>3. ASSUME NEW s \in D(n + 1)
          PROVE  SumStep(f, g, s) = SumStep(h, g, s)
      <3>1. CASE s = {}
        BY <3>1 DEF SumStep
      <3>2. CASE s # {}
        <4>1. s \ {Pick(s)} \in D(n)
          <5>1. s \in SUBSET T /\ Cardinality(s) <= n + 1
            OBVIOUS
          <5>2. /\ Cardinality(s) \in Nat /\ n \in Nat
                /\ Cardinality(s \ {Pick(s)}) = Cardinality(s) - 1
            BY <5>1, <3>2, <1>0
          <5>3. Cardinality(s \ {Pick(s)}) <= n
            BY <5>1, <5>2
          <5> QED BY <5>1, <5>3
        <4>2. h[s \ {Pick(s)}] = f[s \ {Pick(s)}]
          BY <4>1, <2>2
        <4> QED BY <4>2 DEF SumStep
      <3> QED BY <3>1, <3>2
    <2>4. Upto(h, n + 1)
      BY <2>3
    <2>5. \E q : Upto(q, n + 1)
      <3> HIDE DEF h, Upto
      <3> QED BY <2>4
    <2>6. n + 1 \in Nat
      OBVIOUS
    <2> QED BY <2>5, <2>6
  <1>3. S = Nat
    <2> HIDE DEF S
    <2> S \in SUBSET Nat
      BY DEF S
    <2> QED BY <1>1, <1>2, SetInduction
  <1>4. PICK f : Upto(f, Cardinality(T))
    BY <1>3, FS_CardinalityType
  <1>5. D(Cardinality(T)) = SUBSET T
    BY FS_Subset, <1>0
  <1> QED BY <1>4, <1>5 DEF IsSum

\* It is a number.
LEMMA SumTyped ==
  ASSUME NEW T, IsFiniteSet(T), NEW g, NatValued(g, T), NEW f, IsSum(f, g, T)
  PROVE  \A s \in SUBSET T : f[s] \in Nat
  <1> DEFINE G == {s \in SUBSET T : f[s] \in Nat}
  <1>1. ASSUME NEW s \in SUBSET T, \A x \in s : s \ {x} \in G
        PROVE  s \in G
    <2>1. f[s] = SumStep(f, g, s)
      BY DEF IsSum
    <2>2. CASE s = {}
      BY <2>1, <2>2 DEF SumStep
    <2>3. CASE s # {}
      <3>1. Pick(s) \in s
        BY <2>3, Picked
      <3>2. g[Pick(s)] \in Nat /\ f[s \ {Pick(s)}] \in Nat
        BY <1>1, <3>1 DEF NatValued
      <3> QED BY <2>1, <2>3, <3>2 DEF SumStep
    <2> QED BY <2>2, <2>3
  <1>2. SUBSET T \subseteq G
    <2> HIDE DEF G
    <2> QED BY <1>1, SubsetInduction
  <1> QED BY <1>2

\* The sum does not depend on the order in which elements are picked.
LEMMA SumRemoves ==
  ASSUME NEW T, IsFiniteSet(T), NEW g, NatValued(g, T), NEW f, IsSum(f, g, T)
  PROVE  Removes(f, g, T)
  <1> DEFINE G == {s \in SUBSET T : \A x \in s : f[s] = g[x] + f[s \ {x}]}
  <1>1. ASSUME NEW s \in SUBSET T, \A x \in s : s \ {x} \in G
        PROVE  s \in G
    <2>1. f[s] = SumStep(f, g, s)
      BY DEF IsSum
    <2>2. CASE s = {}
      BY <2>1, <2>2 DEF SumStep
    <2>3. CASE s # {}
      <3> DEFINE p == Pick(s)
      <3>1. p \in s
        BY <2>3, Picked
      <3> HIDE DEF p
      <3>2. f[s] = g[p] + f[s \ {p}]
        BY <2>1, <2>3 DEF SumStep, p
      <3>3. f[s \ {p}] \in Nat /\ g[p] \in Nat
        BY <3>1, SumTyped DEF NatValued
      <3>4. ASSUME NEW x \in s, x # p
            PROVE  f[s] = g[x] + f[s \ {x}]
        <4>1. f[s \ {p}] = g[x] + f[(s \ {p}) \ {x}]
          BY <1>1, <3>1, <3>4
        <4>2. f[s \ {x}] = g[p] + f[(s \ {x}) \ {p}]
          BY <1>1, <3>1, <3>4
        <4>3. (s \ {p}) \ {x} = (s \ {x}) \ {p}
          OBVIOUS
        <4>4. /\ g[x] \in Nat /\ f[s \ {x}] \in Nat
              /\ f[(s \ {p}) \ {x}] \in Nat
          BY <3>4, SumTyped DEF NatValued
        <4> QED BY <3>2, <3>3, <4>1, <4>2, <4>3, <4>4
      <3> QED BY <3>1, <3>2, <3>3, <3>4
    <2> QED BY <2>2, <2>3
  <1>2. SUBSET T \subseteq G
    <2> HIDE DEF G
    <2> QED BY <1>1, SubsetInduction
  <1> QED BY <1>2 DEF Removes

\* The sum over 0 .. w - 1 is what the partial sums end with.
LEMMA SumsUpTo ==
  ASSUME NEW w \in Nat, NEW T, T = 0 .. w - 1, NEW g, NatValued(g, T),
         NEW P, IsPrefix(P, g, w), NEW f, IsSum(f, g, T)
  PROVE  f[T] = P[w]
  <1> DEFINE S == {n \in Nat : n <= w => f[0 .. n - 1] = P[n]}
  <1>1. IsFiniteSet(T)
    BY FS_Interval
  <1>2. Removes(f, g, T)
    BY <1>1, SumRemoves
  <1>3. 0 \in S
    <2>1. f[{}] = 0
      BY DEF IsSum, SumStep
    <2>2. 0 .. 0 - 1 = {}
      OBVIOUS
    <2> QED BY <2>1, <2>2 DEF IsPrefix
  <1>4. ASSUME NEW n \in Nat, n \in S
        PROVE  n + 1 \in S
    <2> SUFFICES ASSUME n + 1 <= w
                 PROVE  f[0 .. (n + 1) - 1] = P[n + 1]
      OBVIOUS
    <2>1. n \in T /\ n \in 0 .. w /\ n <= w
      OBVIOUS
    <2>2. (n + 1) - 1 = n /\ 0 .. n \in SUBSET T /\ n \in 0 .. n
      BY <2>1
    <2>3. (0 .. n) \ {n} = 0 .. n - 1
      <3>1. ASSUME NEW x \in (0 .. n) \ {n}
            PROVE  x \in 0 .. n - 1
        OBVIOUS
      <3>2. ASSUME NEW x \in 0 .. n - 1
            PROVE  x \in (0 .. n) \ {n}
        OBVIOUS
      <3> QED BY <3>1, <3>2
    <2>4. f[0 .. n] = g[n] + f[(0 .. n) \ {n}]
      BY <1>2, <2>2 DEF Removes
    <2>5. f[0 .. n - 1] = P[n]
      BY <1>4, <2>1
    <2>6. P[n + 1] = P[n] + g[n] /\ P[n] \in Nat /\ g[n] \in Nat
      BY <2>1 DEF IsPrefix, NatValued
    <2>7. f[0 .. n] = g[n] + P[n]
      BY <2>3, <2>4, <2>5
    <2> QED BY <2>2, <2>6, <2>7
  <1>5. S = Nat
    <2> HIDE DEF S
    <2> S \in SUBSET Nat
      BY DEF S
    <2> QED BY <1>3, <1>4, SetInduction
  <1> QED BY <1>5

\* So the partial sums give the total.
LEMMA SumOfPrefix ==
  ASSUME NEW w \in Nat, NEW g \in [0 .. w - 1 -> Nat], NEW P \in [0 .. w -> Nat],
         P[0] = 0, \A t \in 0 .. w - 1 : P[t + 1] = P[t] + g[t]
  PROVE  Total(g, 0 .. w - 1) = P[w]
  <1>1. ASSUME NEW T, T = 0 .. w - 1
        PROVE  Total(g, T) = P[w]
    <2>1. IsFiniteSet(T)
      BY <1>1, FS_Interval
    <2>2. \E f : IsSum(f, g, T)
      BY <2>1, SumExists
    <2>3. PICK f : f = (CHOOSE h : IsSum(h, g, T))
      OBVIOUS
    <2>4. IsSum(f, g, T)
      BY <2>2, <2>3
    <2>5. NatValued(g, T) /\ IsPrefix(P, g, w)
      BY <1>1 DEF NatValued, IsPrefix
    <2>6. f[T] = P[w]
      BY <1>1, <2>4, <2>5, SumsUpTo
    <2> QED BY <2>3, <2>6, SumExpanded
  <1> QED BY <1>1

---------------------------------------------------------------------------
(* The inductive invariant *)

\* A key that is valid was last valid just now.
Fresh == \A k \in Key : IsValid(k) => age[k] = 0

\* An entry of the cache dies in time.
CacheOK ==
  \A i \in Instance, k \in Key :
    cache[i][k] > 0 => age[k] + cache[i][k] <= TTL + MaxLag

\* A lookup knows its instance and its key, and what the database has said of
\* the key was true when it said so.
LookupsOK ==
  \A s \in Slot :
    /\ req[s].pc # "idle" => req[s].instance \in Instance /\ req[s].key \in Key
    /\ req[s].pc = "fill" /\ req[s].found # None => age[req[s].key] <= req[s].wait

\* A key that an instance has done away with is not valid, is not in its cache
\* and nothing is on its way to put it back.
GoneOK ==
  \A p \in gone :
    /\ ~IsValid(p[2])
    /\ cache[p[1]][p[2]] = 0
    /\ ~OnItsWay(p[1], p[2])

\* P[n] is what has passed in the last n moments.
PartialSums(P, counts) ==
  /\ P[0] = 0
  /\ \A t \in 0 .. Window - 1 : P[t + 1] = P[t] + counts[t]

\* What has passed in the current window is what it counts; before it there is
\* room for one window only, which has lost its first request.
Counted(w, P, counts) ==
  IF Over(w) THEN P[Window] < Limit /\ counts[0] = 0
  ELSE /\ P[Window - w.left + 1] = w.count
       /\ P[Window] < w.count + Limit
       /\ counts[Window - w.left] > 0

BucketOK(w, counts) ==
  Limit > 0 =>
    \E P \in [0 .. Window -> Nat] : PartialSums(P, counts) /\ Counted(w, P, counts)

ThrottleOK == \A b \in Bucket : BucketOK(windows[b], passed[b])

IInv ==
  /\ TypeOK
  /\ Fresh
  /\ CacheOK
  /\ LookupsOK
  /\ GoneOK
  /\ ThrottleOK
  /\ StaleBounded

---------------------------------------------------------------------------
(* The throttle: one bucket *)

Counter == [count: 1 .. Limit, left: 0 .. Window]
Counts == [0 .. Window - 1 -> Nat]

\* The bounds are numbers.
LEMMA Bounds ==
  TTL \in Nat \ {0} /\ Window \in Nat \ {0} /\ Limit \in Nat /\ MaxLag \in Nat
  BY AccessAssumption

\* In the beginning nothing has passed.
LEMMA BucketInit == BucketOK(None, [t \in 0 .. Window - 1 |-> 0])
  <1> SUFFICES ASSUME Limit > 0
               PROVE  \E P \in [0 .. Window -> Nat] :
                        /\ PartialSums(P, [t \in 0 .. Window - 1 |-> 0])
                        /\ Counted(None, P, [t \in 0 .. Window - 1 |-> 0])
    BY DEF BucketOK
  <1> WITNESS [t \in 0 .. Window |-> 0] \in [0 .. Window -> Nat]
  <1> QED BY Bounds DEF PartialSums, Counted, Over

\* A window that is over may be pruned.
LEMMA BucketPruned ==
  ASSUME NEW w, NEW counts, Over(w), BucketOK(w, counts)
  PROVE  BucketOK(None, counts)
  BY DEF BucketOK, Counted, Over

\* A request passes.
LEMMA BucketPasses ==
  ASSUME NEW w \in Counter \cup {None}, NEW counts \in Counts, Limit > 0,
         MayPass(w), BucketOK(w, counts)
  PROVE  /\ NextWindow(w) \in Counter
         /\ [counts EXCEPT ![0] = @ + 1] \in Counts
         /\ BucketOK(NextWindow(w), [counts EXCEPT ![0] = @ + 1])
  <1> DEFINE next == NextWindow(w)
             more == [counts EXCEPT ![0] = @ + 1]
  <1>1. PICK P \in [0 .. Window -> Nat] : PartialSums(P, counts) /\ Counted(w, P, counts)
    BY DEF BucketOK
  <1> DEFINE Q == [t \in 0 .. Window |-> IF t = 0 THEN 0 ELSE P[t] + 1]
  <1>2. Q \in [0 .. Window -> Nat]
    BY Bounds
  <1>3. more \in Counts /\ more[0] = counts[0] + 1 /\ counts[0] \in Nat
        /\ \A t \in 0 .. Window - 1 : t # 0 => more[t] = counts[t]
    BY Bounds DEF Counts
  <1>4. PartialSums(Q, more)
    <2>1. Q[0] = 0
      BY Bounds
    <2>2. ASSUME NEW t \in 0 .. Window - 1
          PROVE  Q[t + 1] = Q[t] + more[t]
      <3>1. /\ t \in 0 .. Window /\ t + 1 \in 0 .. Window /\ t + 1 # 0
            /\ P[t] \in Nat /\ counts[t] \in Nat
        BY Bounds DEF Counts
      <3>2. Q[t + 1] = P[t + 1] + 1 /\ P[t + 1] = P[t] + counts[t]
        BY <3>1, <1>1 DEF PartialSums
      <3>3. CASE t = 0
        BY <3>1, <3>2, <3>3, <1>1, <1>3 DEF PartialSums
      <3>4. CASE t # 0
        <4> HIDE DEF more
        <4>1. more[t] = counts[t] /\ Q[t] = P[t] + 1
          BY <3>1, <3>4, <1>3
        <4> HIDE DEF Q
        <4> QED BY <3>1, <3>2, <4>1
      <3> QED BY <3>3, <3>4
    <2> QED BY <2>1, <2>2 DEF PartialSums
  <1>5. Q[Window] = P[Window] + 1 /\ P[Window] \in Nat
    BY Bounds
  <1>6. CASE Over(w)
    <2>1. next = [count |-> 1, left |-> Window]
      BY <1>6 DEF NextWindow
    <2>2. next \in Counter /\ next.count = 1 /\ next.left = Window
      BY <2>1, Bounds DEF Counter
    <2>3. P[Window] < Limit /\ counts[0] = 0
      BY <1>1, <1>6 DEF Counted
    <2>4. Q[1] = 1
      <3>1. P[1] = P[0] + counts[0] /\ P[0] = 0 /\ 1 \in 0 .. Window
        BY <1>1, Bounds, 0 \in 0 .. Window - 1 DEF PartialSums
      <3> QED BY <3>1, <2>3
    <2>5. ~Over(next)
      BY <2>2, Bounds, NullAssumption DEF Over, Counter
    <2> HIDE DEF Q, next, more
    <2>6. Counted(next, Q, more)
      BY <2>2, <2>3, <2>4, <2>5, <1>3, <1>5, Bounds DEF Counted
    <2> QED BY <2>2, <2>6, <1>2, <1>3, <1>4 DEF BucketOK, next, more
  <1>7. CASE ~Over(w)
    <2>1. w \in Counter /\ w.left # 0 /\ w.count < Limit
      BY <1>7 DEF Over, MayPass
    <2>2. next = [w EXCEPT !.count = @ + 1]
      BY <1>7 DEF NextWindow
    <2>3. /\ next \in Counter /\ next.count = w.count + 1 /\ next.left = w.left
          /\ w.count \in Nat /\ w.left \in Nat /\ w.left >= 1 /\ w.left <= Window
      BY <2>1, <2>2, Bounds DEF Counter
    <2> DEFINE since == Window - w.left
    <2>4. since \in 0 .. Window - 1 /\ since + 1 \in 0 .. Window /\ since + 1 # 0
      BY <2>3, Bounds, SMTT(30)
    <2>5. P[since + 1] = w.count /\ P[Window] < w.count + Limit /\ counts[since] > 0
      BY <1>1, <1>7 DEF Counted
    <2>6. ~Over(next)
      BY <2>1, <2>3, Bounds, NullAssumption DEF Over, Counter
    <2>7. Q[since + 1] = w.count + 1
      BY <2>4, <2>5
    <2>8. more[since] > 0
      BY <2>4, <2>5, <1>3 DEF Counts
    <2> HIDE DEF Q, next, more
    <2>9. Counted(next, Q, more)
      BY <2>3, <2>5, <2>6, <2>7, <2>8, <1>5, Bounds, SMTT(30) DEF Counted
    <2> QED BY <2>3, <2>9, <1>2, <1>3, <1>4 DEF BucketOK, next, more
  <1> QED BY <1>6, <1>7

\* The moments next to one that is not among the last two.
LEMMA NextMoment ==
  ASSUME NEW u \in Nat, u + 2 <= Window
  PROVE  /\ u + 1 \in 0 .. Window - 1 /\ u + 1 # 0
         /\ (u + 1) - 1 = u
         /\ u + 2 \in 0 .. Window /\ u + 2 # 0
         /\ (u + 2) - 1 = u + 1
         /\ (u + 1) + 1 = u + 2
  BY Bounds

\* A moment passes, and what passed first is forgotten.
LEMMA BucketAges ==
  ASSUME NEW w \in Counter \cup {None}, NEW counts \in Counts,
         NEW v, v = (IF w = None THEN None ELSE [w EXCEPT !.left = Sooner(@)]),
         NEW less, less = [t \in 0 .. Window - 1 |-> IF t = 0 THEN 0 ELSE counts[t - 1]],
         BucketOK(w, counts)
  PROVE  v \in Counter \cup {None} /\ less \in Counts /\ BucketOK(v, less)
  <1>1. v \in Counter \cup {None}
    BY Bounds DEF Counter, Sooner
  <1>2. less \in Counts
    BY Bounds DEF Counts
  <1>3. ASSUME Limit > 0
        PROVE  BucketOK(v, less)
    <2>1. PICK P \in [0 .. Window -> Nat] : PartialSums(P, counts) /\ Counted(w, P, counts)
      BY <1>3 DEF BucketOK
    <2> DEFINE Q == [t \in 0 .. Window |-> IF t = 0 THEN 0 ELSE P[t - 1]]
    <2>2. Q \in [0 .. Window -> Nat]
      BY Bounds
    <2>3. PartialSums(Q, less)
      <3>1. Q[0] = 0
        BY Bounds
      <3>2. ASSUME NEW t \in 0 .. Window - 1
            PROVE  Q[t + 1] = Q[t] + less[t]
        <4>1. t \in 0 .. Window /\ t + 1 \in 0 .. Window /\ t + 1 # 0 /\ (t + 1) - 1 = t
          BY Bounds
        <4>2. Q[t + 1] = P[t]
          BY <4>1
        <4>3. CASE t = 0
          BY <4>1, <4>2, <4>3, <2>1, Bounds DEF PartialSums
        <4>4. CASE t # 0
          <5>1. t - 1 \in 0 .. Window - 1 /\ (t - 1) + 1 = t
            BY <4>4, Bounds
          <5>2. P[t] = P[t - 1] + counts[t - 1]
            BY <5>1, <2>1 DEF PartialSums
          <5>3. Q[t] = P[t - 1] /\ less[t] = counts[t - 1]
            BY <4>1, <4>4
          <5> QED BY <4>2, <5>2, <5>3
        <4> QED BY <4>3, <4>4
      <3> QED BY <3>1, <3>2 DEF PartialSums
    <2>4. /\ Window \in 0 .. Window /\ Window # 0 /\ Window - 1 \in 0 .. Window - 1
          /\ Window - 1 \in 0 .. Window /\ (Window - 1) + 1 = Window
      BY Bounds
    <2>5. Q[Window] = P[Window - 1]
      BY <2>4
    <2>6. /\ P[Window] = P[Window - 1] + counts[Window - 1]
          /\ counts[Window - 1] \in Nat /\ P[Window - 1] \in Nat /\ P[Window] \in Nat
      BY <2>1, <2>4 DEF PartialSums, Counts
    <2>7. less[0] = 0
      BY Bounds
    <2> HIDE DEF Q
    <2>8. CASE Over(w)
      <3>1. Over(v)
        BY <2>8, NullAssumption DEF Over, Sooner, Counter
      <3>2. P[Window] < Limit
        BY <2>1, <2>8 DEF Counted
      <3>3. Counted(v, Q, less)
        BY <3>1, <3>2, <2>5, <2>6, <2>7, Bounds DEF Counted
      <3> QED BY <3>3, <2>2, <2>3 DEF BucketOK
    <2>9. CASE ~Over(w)
      <3>1. /\ w \in Counter /\ w # None
            /\ w.left \in Nat /\ w.left >= 1 /\ w.left <= Window
            /\ w.count \in Nat /\ w.count <= Limit
        BY <2>9, Bounds DEF Over, Counter
      <3>2. v = [w EXCEPT !.left = w.left - 1]
        BY <3>1 DEF Sooner
      <3>3. v \in Counter /\ v.left = w.left - 1 /\ v.count = w.count
        BY <3>1, <3>2, Bounds, SMTT(30) DEF Counter
      <3>4. v # None
        BY <3>3, NullAssumption, Bounds DEF Counter
      <3>5. PICK since \in 0 .. Window - 1 : since = Window - w.left
        BY <3>1, Bounds
      <3>6. /\ P[since + 1] = w.count
            /\ P[Window] < w.count + Limit
            /\ counts[since] > 0
        BY <2>1, <2>9, <3>5 DEF Counted
      <3>7. CASE w.left = 1
        <4>1. since = Window - 1 /\ Over(v)
          BY <3>3, <3>5, <3>7, Bounds DEF Over
        <4>2. P[Window] = w.count /\ counts[Window - 1] > 0
          BY <3>6, <4>1, <2>4
        <4>3. Q[Window] < Limit
          BY <4>2, <2>5, <2>6, <3>1, Bounds
        <4>4. Counted(v, Q, less)
          BY <4>1, <4>3, <2>7 DEF Counted
        <4> QED BY <4>4, <2>2, <2>3 DEF BucketOK
      <3>8. CASE w.left # 1
        <4>1. ~Over(v)
          BY <3>1, <3>3, <3>4, <3>8 DEF Over
        <4>0. w.left >= 2 /\ since = Window - w.left /\ v.left = w.left - 1
          BY <3>1, <3>3, <3>5, <3>8
        <4>9. v.left \in Nat /\ Window \in Nat /\ since \in Nat /\ since + 2 <= Window
          BY <4>0, <3>1, <3>5, Bounds
        <4>2. /\ Window - v.left = since + 1
              /\ since + 1 \in 0 .. Window - 1 /\ since + 1 # 0
              /\ (since + 1) - 1 = since
              /\ since + 2 \in 0 .. Window /\ since + 2 # 0
              /\ (since + 2) - 1 = since + 1
              /\ (since + 1) + 1 = since + 2
          <5>1. Window - v.left = since + 1
            BY <4>0, <4>9, <3>1
          <5> QED BY <5>1, <4>9, NextMoment
        <4>3. Q[since + 2] = w.count
          BY <4>2, <3>6 DEF Q
        <4>4. less[since + 1] = counts[since]
          BY <4>2
        <4>5. Q[Window] < w.count + Limit
          <5>1. P[Window - 1] <= P[Window]
            BY <2>6
          <5> QED BY <5>1, <2>5, <2>6, <3>1, <3>6, Bounds
        <4>6. Counted(v, Q, less)
          BY <4>1, <4>2, <4>3, <4>4, <4>5, <3>3, <3>6 DEF Counted
        <4> QED BY <4>6, <2>2, <2>3 DEF BucketOK
      <3> QED BY <3>7, <3>8
    <2> QED BY <2>8, <2>9
  <1> QED BY <1>1, <1>2, <1>3 DEF BucketOK

\* A bucket has let pass fewer than twice the limit.
LEMMA BucketBounded ==
  ASSUME NEW w \in Counter \cup {None}, NEW counts \in Counts, Limit > 0,
         BucketOK(w, counts)
  PROVE  Total(counts, 0 .. Window - 1) < 2 * Limit
  <1>1. PICK P \in [0 .. Window -> Nat] : PartialSums(P, counts) /\ Counted(w, P, counts)
    BY DEF BucketOK
  <1>2. Total(counts, 0 .. Window - 1) = P[Window]
    BY <1>1, Bounds, SumOfPrefix DEF PartialSums, Counts
  <1>3. P[Window] \in Nat
    BY Bounds
  <1>4. P[Window] < 2 * Limit
    <2>1. CASE Over(w)
      BY <1>1, <1>3, <2>1, Bounds DEF Counted
    <2>2. CASE ~Over(w)
      <3>1. w.count \in Nat /\ w.count <= Limit
        BY <2>2, Bounds DEF Over, Counter
      <3>2. P[Window] < w.count + Limit
        BY <1>1, <2>2 DEF Counted
      <3> QED BY <1>3, <3>1, <3>2, Bounds
    <2> QED BY <2>1, <2>2
  <1> QED BY <1>2, <1>4

---------------------------------------------------------------------------
(* The throttle: all buckets *)

\* The types of the throttle, in the names used here.
LEMMA ThrottleTyped ==
  ASSUME TypeOK
  PROVE  windows \in [Bucket -> Counter \cup {None}] /\ passed \in [Bucket -> Counts]
  BY DEF TypeOK, Counter, Counts

\* A request passes the throttle or is turned away.
LEMMA ThrottleKept ==
  ASSUME TypeOK, ThrottleOK, NEW b, Throttle(b)
  PROVE  /\ windows' \in [Bucket -> Counter \cup {None}]
         /\ passed' \in [Bucket -> Counts]
         /\ ThrottleOK'
  <1>1. CASE b \notin Bucket \/ Limit = 0
    <2>1. windows' = windows /\ passed' = passed
      BY <1>1 DEF Throttle
    <2> QED BY <2>1, ThrottleTyped DEF ThrottleOK
  <1>2. CASE b \in Bucket /\ Limit # 0
    <2>1. /\ MayPass(windows[b])
          /\ windows' = [windows EXCEPT ![b] = NextWindow(windows[b])]
          /\ passed' = [passed EXCEPT ![b] = [passed[b] EXCEPT ![0] = @ + 1]]
      BY <1>2 DEF Throttle
    <2>2. /\ windows[b] \in Counter \cup {None} /\ passed[b] \in Counts
          /\ BucketOK(windows[b], passed[b]) /\ Limit > 0
      BY <1>2, ThrottleTyped, Bounds DEF ThrottleOK
    <2>3. /\ NextWindow(windows[b]) \in Counter
          /\ [passed[b] EXCEPT ![0] = @ + 1] \in Counts
          /\ BucketOK(NextWindow(windows[b]), [passed[b] EXCEPT ![0] = @ + 1])
      BY <2>1, <2>2, BucketPasses
    <2>4. /\ windows' \in [Bucket -> Counter \cup {None}]
          /\ passed' \in [Bucket -> Counts]
      BY <2>1, <2>3, ThrottleTyped
    <2>5. ASSUME NEW c \in Bucket
          PROVE  BucketOK(windows'[c], passed'[c])
      <3>1. CASE c = b
        BY <3>1, <1>2, <2>1, <2>3, ThrottleTyped
      <3>2. CASE c # b
        <4>1. windows'[c] = windows[c] /\ passed'[c] = passed[c]
          BY <3>2, <2>1, ThrottleTyped
        <4> QED BY <4>1 DEF ThrottleOK
      <3> QED BY <3>1, <3>2
    <2> QED BY <2>4, <2>5 DEF ThrottleOK
  <1> QED BY <1>1, <1>2

\* Other requests leave the throttle alone.
LEMMA ThrottleUnchanged ==
  ASSUME TypeOK, ThrottleOK, UNCHANGED <<windows, passed>>
  PROVE  /\ windows' \in [Bucket -> Counter \cup {None}]
         /\ passed' \in [Bucket -> Counts]
         /\ ThrottleOK'
  BY ThrottleTyped DEF ThrottleOK

---------------------------------------------------------------------------
(* The cache and the lookups *)

\* TypeOK and what it says of everything but the throttle.
TypeRest ==
  /\ clients \in [Client -> ClientRow \cup {None}]
  /\ cache \in [Instance -> [Key -> 0 .. TTL]]
  /\ req \in [Slot -> Local]
  /\ admin \subseteq Instance
  /\ issued \subseteq Key
  /\ age \in [Key -> 0 .. Old]
  /\ gone \subseteq Instance \X Key
  /\ accepted \in 0 .. Old

\* The types, put together again after a step.
LEMMA TypedTogether ==
  ASSUME TypeRest', windows' \in [Bucket -> Counter \cup {None}],
         passed' \in [Bucket -> Counts]
  PROVE  TypeOK'
  BY DEF TypeRest, TypeOK, Counter, Counts

\* The types of a lookup.
LEMMA LookupTyped ==
  ASSUME TypeOK, NEW s \in Slot
  PROVE  /\ req[s] \in Local
         /\ req[s].pc \in {"idle", "lookup", "fill"}
         /\ req[s].found \in Client \cup {None}
         /\ req[s].wait \in 0 .. MaxLag
  BY DEF TypeOK, Local

\* A slot that is free.
LEMMA IdleTyped == Idle \in Local /\ Idle.pc = "idle"
  BY Bounds DEF Idle, Local

\* The database finds a client only for a key that is valid.
LEMMA FoundIsValid ==
  ASSUME NEW k, FindActiveByApiKeyHash(k) # None
  PROVE  IsValid(k)
  BY DEF FindActiveByApiKeyHash, IsValid

\* It finds a client or nothing.
LEMMA FoundTyped ==
  ASSUME NEW k
  PROVE  FindActiveByApiKeyHash(k) \in Client \cup {None}
  BY DEF FindActiveByApiKeyHash, Holders

\* What is found stays for a TTL, and nothing else does.
LEMMA TimeLeftTyped ==
  ASSUME NEW found
  PROVE  TimeLeft(found) \in 0 .. TTL /\ (TimeLeft(found) > 0 => found # None)
  <1>1. CASE found = None
    BY <1>1, Bounds DEF TimeLeft
  <1>2. CASE found # None
    BY <1>2, Bounds DEF TimeLeft
  <1> QED BY <1>1, <1>2

\* A request that hits the cache.
LEMMA AcceptCachedStep ==
  ASSUME IInv, NEW i \in Instance, NEW k \in Key, AcceptCached(i, k)
  PROVE  IInv'
  <1> USE DEF IInv
  <1>1. cache' = cache
    BY DEF AcceptCached, EntryAfterHit, TypeOK
  <1>2. /\ windows' \in [Bucket -> Counter \cup {None}]
        /\ passed' \in [Bucket -> Counts]
        /\ ThrottleOK'
    BY ThrottleKept DEF AcceptCached
  <1>3. age[k] \in 0 .. Old /\ cache[i][k] \in Nat
    BY DEF TypeOK
  <1>4. accepted' = age[k] /\ age[k] <= TTL + MaxLag
    BY <1>3, Bounds DEF AcceptCached, CacheOK, Old
  <1>5. TypeRest'
    BY <1>1, <1>3, <1>4 DEF AcceptCached, TypeOK, TypeRest
  <1>6. Fresh' /\ CacheOK' /\ LookupsOK'
    BY <1>1 DEF AcceptCached, Fresh, CacheOK, LookupsOK, IsValid, Holders
  <1>7. GoneOK'
    BY <1>1 DEF AcceptCached, GoneOK, IsValid, Holders, OnItsWay
  <1>8. StaleBounded'
    BY <1>4 DEF StaleBounded
  <1> QED BY <1>2, <1>5, <1>6, <1>7, <1>8, TypedTogether

\* A request that does not.
LEMMA ArriveStep ==
  ASSUME IInv, NEW s \in Slot, NEW i \in Instance, NEW k \in Key, Arrive(s, i, k)
  PROVE  IInv'
  <1> USE DEF IInv
  <1>1. /\ windows' \in [Bucket -> Counter \cup {None}]
        /\ passed' \in [Bucket -> Counts]
        /\ ThrottleOK'
    BY ThrottleKept DEF Arrive
  <1>2. PICK l \in Local : /\ req' = [req EXCEPT ![s] = l]
                           /\ l.pc = "lookup" /\ l.instance = i /\ l.key = k
    <2> DEFINE l == [Idle EXCEPT !.pc = "lookup", !.instance = i, !.key = k]
    <2>1. l \in Local /\ l.pc = "lookup" /\ l.instance = i /\ l.key = k
      BY IdleTyped DEF Local, Idle
    <2> QED BY <2>1 DEF Arrive
  <1>3. \A r \in Slot : req'[r] = IF r = s THEN l ELSE req[r]
    BY <1>2 DEF TypeOK
  <1>4. TypeRest'
    BY <1>2 DEF Arrive, TypeOK, TypeRest
  <1>5. Fresh' /\ CacheOK' /\ StaleBounded'
    BY DEF Arrive, Fresh, CacheOK, StaleBounded, IsValid, Holders
  <1>6. LookupsOK'
    BY <1>2, <1>3 DEF Arrive, LookupsOK
  <1>7. GoneOK'
    BY <1>2, <1>3 DEF Arrive, GoneOK, IsValid, Holders, OnItsWay
  <1> QED BY <1>1, <1>4, <1>5, <1>6, <1>7, TypedTogether

\* The database answers.
LEMMA LookupStep ==
  ASSUME IInv, NEW s \in Slot, Lookup(s)
  PROVE  IInv'
  <1> USE DEF IInv
  <1>1. /\ windows' \in [Bucket -> Counter \cup {None}]
        /\ passed' \in [Bucket -> Counts]
        /\ ThrottleOK'
    BY ThrottleUnchanged DEF Lookup
  <1>2. PICK found \in Client \cup {None} : found = FindActiveByApiKeyHash(req[s].key)
    BY FoundTyped
  <1>3. req' = [req EXCEPT ![s] = [req[s] EXCEPT !.pc = "fill", !.found = found]]
    BY <1>2 DEF Lookup, TypeOK
  <1>4. PICK l \in Local : /\ req' = [req EXCEPT ![s] = l]
                           /\ l.pc = "fill" /\ l.found = found
                           /\ l.instance = req[s].instance /\ l.key = req[s].key
                           /\ l.wait = req[s].wait
    <2> DEFINE l == [req[s] EXCEPT !.pc = "fill", !.found = found]
    <2>1. /\ l \in Local /\ l.pc = "fill" /\ l.found = found
          /\ l.instance = req[s].instance /\ l.key = req[s].key /\ l.wait = req[s].wait
      BY LookupTyped DEF Local
    <2> QED BY <2>1, <1>3
  <1>5. \A r \in Slot : req'[r] = IF r = s THEN l ELSE req[r]
    BY <1>4 DEF TypeOK
  <1>6. req[s].instance \in Instance /\ req[s].key \in Key
    BY DEF Lookup, LookupsOK
  <1>7. found # None => IsValid(req[s].key)
    BY <1>2, FoundIsValid
  <1>8. TypeRest'
    BY <1>4 DEF Lookup, TypeOK, TypeRest
  <1>9. Fresh' /\ CacheOK' /\ StaleBounded'
    BY DEF Lookup, Fresh, CacheOK, StaleBounded, IsValid, Holders
  <1>10. LookupsOK'
    <2>1. found # None => age[req[s].key] <= req[s].wait
      BY <1>6, <1>7, LookupTyped, Bounds DEF Fresh
    <2>2. age' = age
      BY DEF Lookup
    <2> QED BY <2>1, <2>2, <1>4, <1>5, <1>6 DEF LookupsOK
  <1>11. GoneOK'
    <2> SUFFICES ASSUME NEW p \in gone
                 PROVE  (/\ ~IsValid(p[2])
                         /\ cache[p[1]][p[2]] = 0
                         /\ ~OnItsWay(p[1], p[2]))'
      BY DEF Lookup, GoneOK
    <2>1. ~IsValid(p[2]) /\ cache[p[1]][p[2]] = 0 /\ ~OnItsWay(p[1], p[2])
      BY DEF GoneOK
    <2>2. ~IsValid(p[2])' /\ cache'[p[1]][p[2]] = 0
      BY <2>1 DEF Lookup, IsValid, Holders
    <2>3. ~OnItsWay(p[1], p[2])'
      BY <2>1, <1>4, <1>5, <1>7 DEF OnItsWay
    <2> QED BY <2>2, <2>3
  <1> QED BY <1>1, <1>8, <1>9, <1>10, <1>11, TypedTogether

\* Its answer is put into the cache.
LEMMA FillStep ==
  ASSUME IInv, NEW s \in Slot, Fill(s)
  PROVE  IInv'
  <1> USE DEF IInv
  <1>1. /\ windows' \in [Bucket -> Counter \cup {None}]
        /\ passed' \in [Bucket -> Counts]
        /\ ThrottleOK'
    BY ThrottleUnchanged DEF Fill
  <1>2. PICK i \in Instance, k \in Key : i = req[s].instance /\ k = req[s].key
    BY DEF Fill, LookupsOK
  <1>3. PICK left : /\ left = TimeLeft(req[s].found)
                    /\ left \in 0 .. TTL
                    /\ left > 0 => req[s].found # None
    BY TimeLeftTyped
  <1>4. /\ cache' = [cache EXCEPT ![i] = [cache[i] EXCEPT ![k] = left]]
        /\ req' = [req EXCEPT ![s] = Idle]
        /\ req[s].pc = "fill"
        /\ accepted' = IF req[s].found = None THEN accepted ELSE age[k]
        /\ UNCHANGED <<clients, admin, issued, age, gone>>
    BY <1>2, <1>3 DEF Fill
  <1>5. /\ \A r \in Slot : req'[r] = IF r = s THEN Idle ELSE req[r]
        /\ \A j \in Instance, m \in Key :
             cache'[j][m] = IF j = i /\ m = k THEN left ELSE cache[j][m]
    BY <1>2, <1>4 DEF TypeOK
  <1>6. req[s].found # None => age[k] <= MaxLag
    <2>1. req[s].found # None => age[k] <= req[s].wait
      BY <1>2, <1>4 DEF LookupsOK
    <2>2. req[s].wait \in 0 .. MaxLag /\ age[k] \in 0 .. Old
      BY LookupTyped DEF TypeOK
    <2>3. Old \in Nat
      BY Bounds DEF Old
    <2> QED BY <2>1, <2>2, <2>3, Bounds
  <1>7. age[k] \in 0 .. Old /\ accepted \in 0 .. Old
    BY DEF TypeOK
  <1>8. TypeRest'
    BY <1>2, <1>3, <1>4, <1>7, IdleTyped DEF TypeOK, TypeRest
  <1>9. Fresh'
    BY <1>4 DEF Fresh, IsValid, Holders
  <1>10. CacheOK'
    <2>1. left > 0 => age[k] + left <= TTL + MaxLag
      BY <1>3, <1>6, <1>7, Bounds DEF Old
    <2> QED BY <2>1, <1>4, <1>5 DEF CacheOK
  <1>11. LookupsOK'
    BY <1>4, <1>5, IdleTyped DEF LookupsOK
  <1>12. GoneOK'
    <2> SUFFICES ASSUME NEW p \in gone
                 PROVE  (/\ ~IsValid(p[2])
                         /\ cache[p[1]][p[2]] = 0
                         /\ ~OnItsWay(p[1], p[2]))'
      BY <1>4 DEF GoneOK
    <2>1. /\ ~IsValid(p[2]) /\ cache[p[1]][p[2]] = 0 /\ ~OnItsWay(p[1], p[2])
          /\ p[1] \in Instance /\ p[2] \in Key
      BY DEF GoneOK, TypeOK
    <2>2. ~IsValid(p[2])'
      BY <2>1, <1>4 DEF IsValid, Holders
    <2>3. ~OnItsWay(p[1], p[2])'
      BY <2>1, <1>5, IdleTyped DEF OnItsWay
    <2>4. p[1] = i /\ p[2] = k => left = 0
      BY <2>1, <1>2, <1>3, <1>4 DEF OnItsWay
    <2> QED BY <2>1, <2>2, <2>3, <2>4, <1>5
  <1>13. StaleBounded'
    BY <1>4, <1>6, <1>7, Bounds DEF StaleBounded, Old
  <1> QED BY <1>1, <1>8, <1>9, <1>10, <1>11, <1>12, <1>13, TypedTogether

---------------------------------------------------------------------------
(* The administration, and time *)

\* A window that is over is forgotten.
LEMMA PruneStep ==
  ASSUME IInv, NEW i \in Instance, Prune(i)
  PROVE  IInv'
  <1> USE DEF IInv
  <1>1. \A b \in Bucket :
          windows'[b] = windows[b] \/ (windows'[b] = None /\ Over(windows[b]))
    BY DEF Prune, Prunable
  <1>2. windows' \in [Bucket -> Counter \cup {None}]
    BY ThrottleTyped DEF Prune
  <1>3. passed' = passed /\ passed' \in [Bucket -> Counts]
    BY ThrottleTyped DEF Prune
  <1>4. ThrottleOK'
    <2> SUFFICES ASSUME NEW b \in Bucket
                 PROVE  BucketOK(windows'[b], passed'[b])
      BY DEF ThrottleOK
    <2>1. BucketOK(windows[b], passed[b])
      BY DEF ThrottleOK
    <2> QED BY <2>1, <1>1, <1>3, BucketPruned
  <1>5. TypeRest'
    BY DEF Prune, TypeOK, TypeRest
  <1>6. Fresh' /\ CacheOK' /\ LookupsOK' /\ StaleBounded'
    BY DEF Prune, Fresh, CacheOK, LookupsOK, StaleBounded, IsValid, Holders
  <1>7. GoneOK'
    BY DEF Prune, GoneOK, IsValid, Holders, OnItsWay
  <1> QED BY <1>2, <1>3, <1>4, <1>5, <1>6, <1>7, TypedTogether

\* The table changes: no key grows older, one that is valid now is new, and
\* what was done away with and is valid again is no longer gone.
LEMMA ChangesKeep ==
  ASSUME IInv, NEW rows \in [Client -> ClientRow \cup {None}], Changes(rows),
         UNCHANGED <<cache, windows, req, accepted, passed>>,
         issued' \subseteq Key, admin' \subseteq Instance
  PROVE  IInv'
  <1> USE DEF IInv
  <1>1. /\ windows' \in [Bucket -> Counter \cup {None}]
        /\ passed' \in [Bucket -> Counts]
        /\ ThrottleOK'
    BY ThrottleUnchanged
  <1>2. clients' = rows /\ gone' = {p \in gone : Holders(rows, p[2]) = {}}
    BY DEF Changes
  <1>3. /\ age' \in [Key -> 0 .. Old]
        /\ \A k \in Key : age'[k] <= age[k] /\ age[k] \in Nat /\ age'[k] \in Nat
        /\ \A k \in Key : Holders(rows, k) # {} => age'[k] = 0
    <2>1. age \in [Key -> 0 .. Old] /\ Old \in Nat
      BY Bounds DEF TypeOK, Old
    <2>2. age' = [k \in Key |-> IF Holders(clients, k) \cup Holders(rows, k) # {}
                                  THEN 0 ELSE age[k]]
      BY DEF Changes
    <2>3. ASSUME NEW k \in Key
          PROVE  /\ age'[k] \in 0 .. Old /\ age'[k] <= age[k]
                 /\ Holders(rows, k) # {} => age'[k] = 0
      <3>1. CASE Holders(clients, k) \cup Holders(rows, k) # {}
        BY <2>1, <2>2, <3>1
      <3>2. CASE Holders(clients, k) \cup Holders(rows, k) = {}
        BY <2>1, <2>2, <3>2
      <3> QED BY <3>1, <3>2
    <2>4. age' \in [Key -> 0 .. Old]
      BY <2>2, <2>3
    <2> QED BY <2>1, <2>3, <2>4
  <1>4. TypeRest'
    BY <1>2, <1>3 DEF TypeOK, TypeRest
  <1>5. \A k : IsValid(k)' <=> Holders(rows, k) # {}
    BY <1>2 DEF IsValid, Holders
  <1>6. Fresh'
    BY <1>3, <1>5 DEF Fresh
  <1>7. CacheOK'
    <2> SUFFICES ASSUME NEW i \in Instance, NEW k \in Key, cache[i][k] > 0
                 PROVE  age'[k] + cache[i][k] <= TTL + MaxLag
      BY DEF CacheOK
    <2>1. age[k] + cache[i][k] <= TTL + MaxLag /\ cache[i][k] \in Nat
      BY DEF CacheOK, TypeOK
    <2> QED BY <2>1, <1>3, Bounds
  <1>8. LookupsOK'
    <2> SUFFICES ASSUME NEW s \in Slot
                 PROVE  /\ req[s].pc # "idle" =>
                             req[s].instance \in Instance /\ req[s].key \in Key
                        /\ req[s].pc = "fill" /\ req[s].found # None =>
                             age'[req[s].key] <= req[s].wait
      BY DEF LookupsOK
    <2>1. /\ req[s].pc # "idle" => req[s].instance \in Instance /\ req[s].key \in Key
          /\ req[s].pc = "fill" /\ req[s].found # None => age[req[s].key] <= req[s].wait
          /\ req[s].wait \in Nat
      BY LookupTyped, Bounds DEF LookupsOK
    <2>2. CASE req[s].pc = "fill" /\ req[s].found # None
      BY <2>1, <2>2, <1>3
    <2> QED BY <2>1, <2>2
  <1>9. GoneOK'
    <2>1. \A i, k : OnItsWay(i, k)' <=> OnItsWay(i, k)
      BY DEF OnItsWay
    <2> QED BY <2>1, <1>2, <1>5 DEF GoneOK
  <1>10. StaleBounded'
    BY DEF StaleBounded
  <1> QED BY <1>1, <1>4, <1>6, <1>7, <1>8, <1>9, <1>10, TypedTogether

\* A client is created.
LEMMA CreateClientStep ==
  ASSUME IInv, NEW c \in Client, NEW k \in Key, CreateClient(c, k)
  PROVE  IInv'
  <1> DEFINE rows == [clients EXCEPT ![c] = [status |-> "active", key |-> k]]
  <1>1. rows \in [Client -> ClientRow \cup {None}]
    BY DEF IInv, TypeOK, ClientRow
  <1>2. /\ Changes(rows) /\ UNCHANGED <<cache, windows, req, accepted, passed>>
        /\ issued' \subseteq Key /\ admin' \subseteq Instance
    BY DEF CreateClient, IInv, TypeOK
  <1> HIDE DEF rows
  <1> QED BY <1>1, <1>2, ChangesKeep

\* A client is changed.
LEMMA UpdatedStep ==
  ASSUME IInv, NEW c \in Client, NEW i \in Instance, NEW row \in ClientRow,
         Updated(c, i, row), issued' \subseteq Key
  PROVE  IInv'
  <1> DEFINE rows == [clients EXCEPT ![c] = row]
  <1>1. rows \in [Client -> ClientRow \cup {None}]
    BY DEF IInv, TypeOK
  <1>2. /\ Changes(rows) /\ UNCHANGED <<cache, windows, req, accepted, passed>>
        /\ admin' \subseteq Instance
    BY DEF Updated, IInv, TypeOK
  <1> HIDE DEF rows
  <1> QED BY <1>1, <1>2, ChangesKeep

\* A client is enabled or disabled.
LEMMA UpdateClientStep ==
  ASSUME IInv, NEW c \in Client, NEW i \in Instance,
         NEW status \in {"active", "disabled"}, UpdateClient(c, i, status)
  PROVE  IInv'
  <1>1. clients[c] \in ClientRow
    BY DEF IInv, TypeOK, UpdateClient
  <1>2. [clients[c] EXCEPT !.status = status] \in ClientRow
    BY <1>1 DEF ClientRow
  <1>3. issued' \subseteq Key
    BY DEF IInv, TypeOK, UpdateClient
  <1> QED BY <1>2, <1>3, UpdatedStep DEF UpdateClient

\* A key is rotated.
LEMMA RotateApiKeyStep ==
  ASSUME IInv, NEW c \in Client, NEW i \in Instance, NEW k \in Key,
         RotateApiKey(c, i, k)
  PROVE  IInv'
  <1>1. clients[c] \in ClientRow
    BY DEF IInv, TypeOK, RotateApiKey
  <1>2. [clients[c] EXCEPT !.key = k] \in ClientRow
    BY <1>1 DEF ClientRow
  <1>3. issued' \subseteq Key
    BY DEF IInv, TypeOK, RotateApiKey
  <1> QED BY <1>2, <1>3, UpdatedStep DEF RotateApiKey

\* The cache of the instance that made a change is emptied.
LEMMA ClearCacheStep ==
  ASSUME IInv, NEW i \in Instance, ClearCache(i)
  PROVE  IInv'
  <1> USE DEF IInv
  <1>1. /\ windows' \in [Bucket -> Counter \cup {None}]
        /\ passed' \in [Bucket -> Counts]
        /\ ThrottleOK'
    BY ThrottleUnchanged DEF ClearCache
  <1>2. /\ cache' = [cache EXCEPT ![i] = [k \in Key |-> 0]]
        /\ UNCHANGED <<clients, req, issued, age, accepted>>
        /\ admin' \subseteq Instance
    BY DEF ClearCache, Cleared, TypeOK
  <1>3. \A j \in Instance, k \in Key : cache'[j][k] = IF j = i THEN 0 ELSE cache[j][k]
    BY <1>2 DEF TypeOK
  <1>4. \A p \in gone' : \/ p \in gone
                         \/ /\ p[1] = i /\ p[2] \in Key /\ p \in Instance \X Key
                            /\ ~IsValid(p[2]) /\ ~OnItsWay(p[1], p[2])
    BY DEF ClearCache, TypeOK
  <1>5. TypeRest'
    <2>1. gone' \subseteq Instance \X Key
      BY <1>4 DEF TypeOK
    <2>2. cache' \in [Instance -> [Key -> 0 .. TTL]]
      <3>1. [k \in Key |-> 0] \in [Key -> 0 .. TTL]
        BY Bounds
      <3> QED BY <3>1, <1>2 DEF TypeOK
    <2> QED BY <2>1, <2>2, <1>2 DEF TypeOK, TypeRest
  <1>6. Fresh' /\ LookupsOK' /\ StaleBounded'
    BY <1>2 DEF Fresh, LookupsOK, StaleBounded, IsValid, Holders
  <1>7. CacheOK'
    BY <1>2, <1>3 DEF CacheOK
  <1>8. GoneOK'
    <2> SUFFICES ASSUME NEW p \in gone'
                 PROVE  (/\ ~IsValid(p[2])
                         /\ cache[p[1]][p[2]] = 0
                         /\ ~OnItsWay(p[1], p[2]))'
      BY DEF GoneOK
    <2>1. /\ ~IsValid(p[2]) /\ ~OnItsWay(p[1], p[2])
          /\ p[1] \in Instance /\ p[2] \in Key
          /\ p[1] = i \/ cache[p[1]][p[2]] = 0
      BY <1>4 DEF GoneOK, TypeOK
    <2>2. ~IsValid(p[2])' /\ ~OnItsWay(p[1], p[2])'
      BY <2>1, <1>2 DEF IsValid, Holders, OnItsWay
    <2> QED BY <2>1, <2>2, <1>3
  <1> QED BY <1>1, <1>5, <1>6, <1>7, <1>8, TypedTogether

\* One less, one more.
LEMMA SoonerLater ==
  /\ \A n \in Nat : /\ Sooner(n) \in Nat /\ Sooner(n) <= n
                    /\ Sooner(n) > 0 => Sooner(n) = n - 1
                    /\ n = 0 => Sooner(n) = 0
  /\ \A n \in 0 .. Old : Later(n) \in 0 .. Old /\ Later(n) <= n + 1
  <1>1. Old \in Nat
    BY Bounds DEF Old
  <1> QED BY <1>1 DEF Sooner, Later

\* A moment passes.
LEMMA TickStep ==
  ASSUME IInv, Tick
  PROVE  IInv'
  <1> USE DEF IInv
  <1>1. /\ windows' \in [Bucket -> Counter \cup {None}]
        /\ passed' \in [Bucket -> Counts]
        /\ ThrottleOK'
    <2>1. ASSUME NEW b \in Bucket
          PROVE  /\ windows'[b] \in Counter \cup {None}
                 /\ passed'[b] \in Counts
                 /\ BucketOK(windows'[b], passed'[b])
      <3>1. /\ windows[b] \in Counter \cup {None} /\ passed[b] \in Counts
            /\ BucketOK(windows[b], passed[b])
        BY ThrottleTyped DEF ThrottleOK
      <3>2. windows'[b] = IF windows[b] = None THEN None
                          ELSE [windows[b] EXCEPT !.left = Sooner(@)]
        BY DEF Tick
      <3>3. passed'[b] = [t \in 0 .. Window - 1 |->
                            IF t = 0 THEN 0 ELSE passed[b][t - 1]]
        BY DEF Tick
      <3> QED BY <3>1, <3>2, <3>3, BucketAges
    <2>2. windows' = [b \in Bucket |-> windows'[b]] /\ passed' = [b \in Bucket |-> passed'[b]]
      BY DEF Tick
    <2> QED BY <2>1, <2>2 DEF ThrottleOK
  <1>2. ASSUME NEW k \in Key
        PROVE  /\ age[k] \in 0 .. Old /\ age'[k] \in 0 .. Old
               /\ age'[k] <= age[k] + 1
               /\ IsValid(k) => age'[k] = 0
    <2>1. age[k] \in 0 .. Old /\ Old \in Nat
      BY Bounds DEF TypeOK, Old
    <2>2. age'[k] = IF IsValid(k) THEN 0 ELSE Later(age[k])
      BY DEF Tick
    <2> QED BY <2>1, <2>2, SoonerLater
  <1>3. ASSUME NEW i \in Instance, NEW k \in Key
        PROVE  /\ cache[i][k] \in 0 .. TTL
               /\ cache'[i][k] = Sooner(cache[i][k])
               /\ cache'[i][k] \in 0 .. TTL
    <2>1. cache[i][k] \in 0 .. TTL /\ cache'[i][k] = Sooner(cache[i][k])
      BY DEF TypeOK, Tick
    <2> QED BY <2>1, SoonerLater, Bounds
  <1>4. ASSUME NEW s \in Slot
        PROVE  /\ req'[s] \in Local
               /\ req'[s].pc = req[s].pc /\ req'[s].found = req[s].found
               /\ req'[s].instance = req[s].instance /\ req'[s].key = req[s].key
               /\ req[s].pc = "fill" => req'[s].wait = req[s].wait + 1
    <2>1. req'[s] = IF req[s].pc = "fill" THEN [req[s] EXCEPT !.wait = @ + 1] ELSE req[s]
      BY DEF Tick
    <2>2. req[s].pc = "fill" => req[s].wait < MaxLag
      BY DEF Tick
    <2>3. req[s] \in Local /\ req[s].wait \in 0 .. MaxLag
      BY LookupTyped
    <2>4. CASE req[s].pc = "fill"
      <3>1. req[s].wait + 1 \in 0 .. MaxLag
        BY <2>2, <2>3, <2>4, Bounds
      <3> QED BY <3>1, <2>1, <2>3, <2>4 DEF Local
    <2>5. CASE req[s].pc # "fill"
      BY <2>1, <2>3, <2>5
    <2> QED BY <2>4, <2>5
  <1>5. UNCHANGED <<clients, admin, issued, gone, accepted>>
    BY DEF Tick
  <1>6. TypeRest'
    <2>1. cache' \in [Instance -> [Key -> 0 .. TTL]]
      <3>1. cache' = [i \in Instance |-> [k \in Key |-> Sooner(cache[i][k])]]
        BY DEF Tick
      <3>2. \A i \in Instance, k \in Key : Sooner(cache[i][k]) \in 0 .. TTL
        BY <1>3
      <3> QED BY <3>1, <3>2
    <2>2. req' \in [Slot -> Local]
      <3>1. req' = [s \in Slot |-> req'[s]]
        BY DEF Tick
      <3> QED BY <3>1, <1>4
    <2>3. age' \in [Key -> 0 .. Old]
      <3>1. age' = [k \in Key |-> age'[k]]
        BY DEF Tick
      <3> QED BY <3>1, <1>2
    <2> QED BY <2>1, <2>2, <2>3, <1>5 DEF TypeOK, TypeRest
  <1>7. \A k : IsValid(k)' <=> IsValid(k)
    BY <1>5 DEF IsValid, Holders
  <1>8. Fresh' /\ StaleBounded'
    BY <1>2, <1>5, <1>7 DEF Fresh, StaleBounded
  <1>9. CacheOK'
    <2> SUFFICES ASSUME NEW i \in Instance, NEW k \in Key, cache'[i][k] > 0
                 PROVE  age'[k] + cache'[i][k] <= TTL + MaxLag
      BY DEF CacheOK
    <2>1. cache[i][k] \in Nat /\ cache'[i][k] = cache[i][k] - 1
      BY <1>3, SoonerLater
    <2>2. age[k] + cache[i][k] <= TTL + MaxLag
      BY <2>1, <1>3 DEF CacheOK
    <2>3. age[k] \in Nat /\ age'[k] \in Nat /\ age'[k] <= age[k] + 1
      BY <1>2
    <2> QED BY <2>1, <2>2, <2>3, Bounds
  <1>10. LookupsOK'
    <2> SUFFICES ASSUME NEW s \in Slot
                 PROVE  (/\ req[s].pc # "idle" =>
                              req[s].instance \in Instance /\ req[s].key \in Key
                         /\ req[s].pc = "fill" /\ req[s].found # None =>
                              age[req[s].key] <= req[s].wait)'
      BY DEF LookupsOK
    <2>1. /\ req[s].pc # "idle" => req[s].instance \in Instance /\ req[s].key \in Key
          /\ req[s].pc = "fill" /\ req[s].found # None => age[req[s].key] <= req[s].wait
          /\ req[s].wait \in Nat
      BY LookupTyped, Bounds DEF LookupsOK
    <2>2. CASE req[s].pc = "fill" /\ req[s].found # None
      <3>1. PICK k \in Key : k = req[s].key
        BY <2>1, <2>2
      <3>2. age[k] \in Nat /\ age'[k] \in Nat /\ age'[k] <= age[k] + 1
        BY <1>2
      <3>3. age[k] <= req[s].wait /\ req'[s].wait = req[s].wait + 1 /\ req'[s].key = k
        BY <2>1, <2>2, <3>1, <1>4
      <3>4. age'[k] <= req'[s].wait
        BY <3>2, <3>3, <2>1
      <3> QED BY <3>3, <3>4, <2>1, <1>4
    <2>3. CASE ~(req[s].pc = "fill" /\ req[s].found # None)
      BY <2>1, <2>3, <1>4
    <2> QED BY <2>2, <2>3
  <1>11. GoneOK'
    <2> SUFFICES ASSUME NEW p \in gone
                 PROVE  (/\ ~IsValid(p[2])
                         /\ cache[p[1]][p[2]] = 0
                         /\ ~OnItsWay(p[1], p[2]))'
      BY <1>5 DEF GoneOK
    <2>1. /\ ~IsValid(p[2]) /\ cache[p[1]][p[2]] = 0 /\ ~OnItsWay(p[1], p[2])
          /\ p[1] \in Instance /\ p[2] \in Key
      BY DEF GoneOK, TypeOK
    <2>2. cache'[p[1]][p[2]] = 0
      BY <2>1, <1>3, SoonerLater
    <2>3. ~OnItsWay(p[1], p[2])'
      BY <2>1, <1>4 DEF OnItsWay
    <2> QED BY <2>1, <2>2, <2>3, <1>7
  <1> QED BY <1>1, <1>6, <1>8, <1>9, <1>10, <1>11, TypedTogether

---------------------------------------------------------------------------
(* The theorems *)

\* The invariant holds in the beginning.
LEMMA InitHolds == Init => IInv
  <1> SUFFICES ASSUME Init
               PROVE  IInv
    OBVIOUS
  <1>1. Old \in Nat
    BY Bounds DEF Old
  <1>2. TypeOK
    BY <1>1, Bounds, IdleTyped DEF Init, TypeOK
  <1>3. Fresh
    BY DEF Init, Fresh, IsValid, Holders
  <1>4. CacheOK /\ LookupsOK
    BY IdleTyped DEF Init, CacheOK, LookupsOK
  <1>5. GoneOK /\ StaleBounded
    BY Bounds DEF Init, GoneOK, StaleBounded
  <1>6. ThrottleOK
    BY BucketInit DEF Init, ThrottleOK
  <1> QED BY <1>2, <1>3, <1>4, <1>5, <1>6 DEF IInv

\* A step that changes nothing.
LEMMA StutterStep ==
  ASSUME IInv, UNCHANGED vars
  PROVE  IInv'
  BY DEF vars, IInv, TypeOK, Fresh, CacheOK, LookupsOK, GoneOK, ThrottleOK,
         StaleBounded, IsValid, Holders, OnItsWay

\* Every step keeps the invariant.
LEMMA NextKeeps == IInv /\ [Next]_vars => IInv'
  <1> SUFFICES ASSUME IInv, [Next]_vars
               PROVE  IInv'
    OBVIOUS
  <1>1. ASSUME NEW i \in Instance, NEW k \in Key,
               AcceptCached(i, k) \/ \E s \in Slot : Arrive(s, i, k)
        PROVE  IInv'
    BY <1>1, AcceptCachedStep, ArriveStep
  <1>2. ASSUME NEW s \in Slot, Lookup(s) \/ Fill(s)
        PROVE  IInv'
    BY <1>2, LookupStep, FillStep
  <1>3. ASSUME NEW i \in Instance, Prune(i) \/ ClearCache(i)
        PROVE  IInv'
    BY <1>3, PruneStep, ClearCacheStep
  <1>4. ASSUME NEW c \in Client, NEW k \in Key, CreateClient(c, k)
        PROVE  IInv'
    BY <1>4, CreateClientStep
  <1>5. ASSUME NEW c \in Client, NEW i \in Instance,
               NEW status \in {"active", "disabled"}, UpdateClient(c, i, status)
        PROVE  IInv'
    BY <1>5, UpdateClientStep
  <1>6. ASSUME NEW c \in Client, NEW i \in Instance, NEW k \in Key,
               RotateApiKey(c, i, k)
        PROVE  IInv'
    BY <1>6, RotateApiKeyStep
  <1>7. CASE Tick
    BY <1>7, TickStep
  <1>8. CASE UNCHANGED vars
    BY <1>8, StutterStep
  <1> QED BY <1>1, <1>2, <1>3, <1>4, <1>5, <1>6, <1>7, <1>8 DEF Next

\* The inductive invariant, for any number of instances, clients, keys and
\* lookups, and for any TTL, window, limit and lag.
THEOREM Invariance == Spec => []IInv
  BY InitHolds, NextKeeps, PTL DEF Spec

\* Every variable keeps its type; a window never counts more than the limit.
THEOREM TypeCorrect == Spec => []TypeOK
  <1>1. IInv => TypeOK
    BY DEF IInv
  <1> QED BY <1>1, Invariance, PTL

\* ClientApiKeyGuard accepts a key for at most one TTL after it was last valid,
\* and the lag of an answer, whatever lookups, updates and clears interleave.
THEOREM StaleIsBounded == Spec => []StaleBounded
  <1>1. IInv => StaleBounded
    BY DEF IInv
  <1> QED BY <1>1, Invariance, PTL

\* A key that an instance has done away with does not come back into its
\* apiKeyCache.
THEOREM GoneIsOut == Spec => []GoneStaysOut
  <1>1. IInv => GoneStaysOut
    BY DEF IInv, GoneOK, GoneStaysOut
  <1> QED BY <1>1, Invariance, PTL

\* ThrottleMiddleware lets fewer than twice the limit pass in any span of a
\* window.
THEOREM BurstIsBounded == Spec => []BurstBounded
  <1>1. ASSUME IInv
        PROVE  BurstBounded
    <2>1. ASSUME Limit > 0, NEW b \in Bucket
          PROVE  Total(passed[b], 0 .. Window - 1) < 2 * Limit
      <3>1. /\ windows[b] \in Counter \cup {None} /\ passed[b] \in Counts
            /\ BucketOK(windows[b], passed[b])
        BY <1>1, ThrottleTyped DEF IInv, ThrottleOK
      <3> QED BY <2>1, <3>1, BucketBounded
    <2> QED BY <2>1 DEF BurstBounded, Total, MapThenSumSet, MapThenFoldSet
  <1> QED BY <1>1, Invariance, PTL

=============================================================================
