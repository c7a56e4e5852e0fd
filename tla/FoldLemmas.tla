----------------------------- MODULE FoldLemmas -----------------------------
(***************************************************************************)
(* Lemmas about the folds the models use: the sum of some sizes, and       *)
(* sequences put one after the other.  The pieces of a segmented image are *)
(* summed up and flattened, so what a proof says of the media rests here.  *)
(*                                                                         *)
(* A fold is recursive over a sequence; what it computes is shown by       *)
(* induction over the numbers, which follows from their having a least     *)
(* one outside of every proper subset that is closed.                      *)
(***************************************************************************)
EXTENDS Integers, Sequences, SequencesExt, SequenceTheorems, WellFoundedInduction, TLAPS

(* A set of numbers with 0, and with the next of each it has, has them all.*)
LEMMA Induction ==
  ASSUME NEW H \in SUBSET Nat, 0 \in H, \A n \in H : n + 1 \in H
  PROVE  H = Nat
<1> SUFFICES ASSUME Nat \ H # {} PROVE FALSE
  OBVIOUS
<1> DEFINE R == {ss \in Nat \X Nat : ss[1] < ss[2]}
<1>1. IsWellFoundedOn(R, Nat)
  BY NatLessThanWellFounded, Zenon DEF OpToRel
<1> HIDE DEF R
<1>2. PICK n \in Nat \ H : \A m \in Nat \ H : ~ (<<m, n>> \in R)
  BY <1>1, WFMin, Zenon
<1>3. \A m \in Nat \ H : ~ (m < n)
  BY <1>2 DEF R
<1>4. n # 0 /\ n - 1 \in Nat /\ n - 1 < n
  OBVIOUS
<1>5. n - 1 \in H
  BY <1>3, <1>4
<1>6. (n - 1) + 1 \in H
  BY <1>5
<1> QED
  BY <1>6

(* The least of some numbers.                                              *)
LEMMA MinOfSome ==
  ASSUME NEW s \in SUBSET Nat, s # {}
  PROVE  Min(s) \in s /\ \A y \in s : Min(s) <= y
<1> DEFINE R == {ss \in Nat \X Nat : ss[1] < ss[2]}
<1>1. IsWellFoundedOn(R, Nat)
  BY NatLessThanWellFounded, Zenon DEF OpToRel
<1> HIDE DEF R
<1>2. PICK x \in s : \A y \in s : ~ (<<y, x>> \in R)
  BY <1>1, WFMin, Zenon
<1>3. \A y \in s : ~ (y < x) /\ y \in Nat /\ x \in Nat
  BY <1>2 DEF R
<1>4. \A y \in s : x <= y
  <2> TAKE y \in s
  <2> QED
    BY <1>3
<1> QED
  BY <1>4, Zenon DEF Min

(* The greatest of some of the numbers up to n.                            *)
LEMMA MaxOfSome ==
  ASSUME NEW n \in Nat, NEW s \in SUBSET (1 .. n), s # {}
  PROVE  Max(s) \in s /\ \A y \in s : Max(s) >= y
<1> DEFINE Bounded(k) == \A t \in SUBSET (1 .. k) : t # {} => \E x \in t : \A y \in t : x >= y
           H == {k \in Nat : Bounded(k)}
<1>1. 0 \in H
  <2>1. 1 .. 0 = {}
    OBVIOUS
  <2> QED
    BY <2>1
<1>2. ASSUME NEW k \in H PROVE k + 1 \in H
  <2>1. SUFFICES ASSUME NEW t \in SUBSET (1 .. k + 1), t # {}
                 PROVE  \E x \in t : \A y \in t : x >= y
    OBVIOUS
  <2>2. CASE k + 1 \in t
    BY <2>2
  <2>3. CASE k + 1 \notin t
    <3>1. t \in SUBSET (1 .. k)
      BY <2>3
    <3> QED
      BY <2>1, <3>1
  <2> QED
    BY <2>2, <2>3
<1>3. n \in H
  <2> HIDE DEF H
  <2>1. H \in SUBSET Nat
    BY DEF H
  <2> QED
    BY <1>1, <1>2, <2>1, Induction
<1>4. \E x \in s : \A y \in s : x >= y
  BY <1>3
<1> QED
  BY <1>4, Zenon DEF Max

(* The greatest of the first numbers is the last one.                      *)
LEMMA MaxOfFirst ==
  ASSUME NEW k \in Nat \ {0}
  PROVE  Max(1 .. k) = k /\ (1 .. k) \ {k} = 1 .. k - 1
<1>1. 1 .. k \in SUBSET (1 .. k) /\ 1 .. k # {}
  OBVIOUS
<1>2. Max(1 .. k) \in 1 .. k /\ \A y \in 1 .. k : Max(1 .. k) >= y
  BY <1>1, MaxOfSome
<1> QED
  BY <1>2

(* A function that is recursive in the sets of numbers, by their greatest, *)
(* as the folds over sequences are.                                        *)
IsFold(it, n, G, base, step) ==
  /\ it \in [SUBSET (1 .. n) -> G]
  /\ \A s \in SUBSET (1 .. n) :
       it[s] = IF s = {} THEN base ELSE step[<<Max(s), it[s \ {Max(s)}]>>]

(* There is such a function.                                               *)
LEMMA FoldExists ==
  ASSUME NEW n \in Nat, NEW G, NEW base \in G, NEW step \in [(1 .. n) \X G -> G]
  PROVE  \E it : IsFold(it, n, G, base, step)
<1> DEFINE Recursive(k, it) ==
             \A s \in SUBSET (1 .. k) :
               it[s] = IF s = {} THEN base ELSE step[<<Max(s), it[s \ {Max(s)}]>>]
           Exists(k) == k <= n => \E it \in [SUBSET (1 .. k) -> G] : Recursive(k, it)
           H == {k \in Nat : Exists(k)}
<1>1. Exists(0)
  <2> DEFINE none == [s \in SUBSET (1 .. 0) |-> base]
  <2>1. \A s \in SUBSET (1 .. 0) : s = {}
    <3>1. 1 .. 0 = {}
      OBVIOUS
    <3> QED
      BY <3>1
  <2>2. none \in [SUBSET (1 .. 0) -> G] /\ Recursive(0, none)
    BY <2>1
  <2> QED
    BY <2>2
<1>2. ASSUME NEW k \in Nat, Exists(k) PROVE Exists(k + 1)
  <2>1. SUFFICES ASSUME k + 1 <= n
                 PROVE  \E it \in [SUBSET (1 .. k + 1) -> G] : Recursive(k + 1, it)
    BY Zenon
  <2>2. PICK before \in [SUBSET (1 .. k) -> G] : Recursive(k, before)
    <3>1. k <= n
      BY <1>2, <2>1
    <3> QED
      BY <1>2, <3>1, Zenon
  <2> DEFINE it == [s \in SUBSET (1 .. k + 1) |->
                      IF k + 1 \in s THEN step[<<k + 1, before[s \ {k + 1}]>>] ELSE before[s]]
  <2>3. \A s \in SUBSET (1 .. k + 1) :
          /\ s \ {k + 1} \in SUBSET (1 .. k)
          /\ k + 1 \notin s => s \in SUBSET (1 .. k)
    BY <1>2
  <2>4. it \in [SUBSET (1 .. k + 1) -> G]
    <3>1. ASSUME NEW s \in SUBSET (1 .. k + 1)
          PROVE  (IF k + 1 \in s THEN step[<<k + 1, before[s \ {k + 1}]>>] ELSE before[s]) \in G
      <4>1. CASE k + 1 \in s
        <5>1. before[s \ {k + 1}] \in G /\ k + 1 \in 1 .. n
          BY <1>2, <2>1, <2>2, <2>3
        <5> QED
          BY <4>1, <5>1
      <4> QED
        BY <2>2, <2>3, <4>1
    <3> QED
      BY <3>1
  <2>5. ASSUME NEW s \in SUBSET (1 .. k + 1)
        PROVE  it[s] = IF s = {} THEN base ELSE step[<<Max(s), it[s \ {Max(s)}]>>]
    <3>1. CASE k + 1 \in s
      <4>1. s # {} /\ k + 1 \in Nat
        BY <3>1, <1>2
      <4>2. Max(s) \in s /\ Max(s) >= k + 1
        BY <3>1, <4>1, MaxOfSome
      <4>3. Max(s) = k + 1
        <5>1. Max(s) \in 1 .. k + 1
          BY <4>2, Zenon
        <5> QED
          BY <1>2, <4>2, <5>1
      <4>4. it[s] = step[<<k + 1, before[s \ {k + 1}]>>]
        BY <3>1, Zenon
      <4>5. it[s \ {k + 1}] = before[s \ {k + 1}]
        <5>1. s \ {k + 1} \in SUBSET (1 .. k + 1) /\ k + 1 \notin s \ {k + 1}
          BY <2>3
        <5> QED
          BY <5>1
      <4> HIDE DEF it
      <4> QED
        BY <4>1, <4>3, <4>4, <4>5
    <3>2. CASE k + 1 \notin s
      <4>1. s \in SUBSET (1 .. k) /\ it[s] = before[s]
        BY <2>3, <3>2
      <4>2. it[s \ {Max(s)}] = before[s \ {Max(s)}]
        <5>1. s \ {Max(s)} \in SUBSET (1 .. k + 1) /\ k + 1 \notin s \ {Max(s)}
          BY <3>2
        <5> QED
          BY <5>1
      <4> HIDE DEF it
      <4> QED
        BY <2>2, <4>1, <4>2
    <3> QED
      BY <3>1, <3>2
  <2> HIDE DEF it
  <2> QED
    BY <2>4, <2>5
<1>3. Exists(n)
  <2> HIDE DEF Exists
  <2>1. H \in SUBSET Nat /\ 0 \in H /\ \A k \in H : k + 1 \in H
    BY <1>1, <1>2
  <2>2. H = Nat
    <3> HIDE DEF H
    <3> QED
      BY <2>1, Induction
  <2> QED
    BY <2>2
<1>4. PICK it \in [SUBSET (1 .. n) -> G] : Recursive(n, it)
  <2>1. n <= n
    OBVIOUS
  <2> QED
    BY <1>3, <2>1, Zenon
<1> QED
  BY <1>4, Zenon DEF IsFold

(* A function that is recursive in the numbers up to n.                    *)
AreSteps(g, n, G, base, step) ==
  /\ g \in [0 .. n -> G]
  /\ g[0] = base
  /\ \A k \in 1 .. n : g[k] = step[<<k, g[k - 1]>>]

(* There is such a function too.                                           *)
LEMMA StepsExist ==
  ASSUME NEW n \in Nat, NEW G, NEW base \in G, NEW step \in [(1 .. n) \X G -> G]
  PROVE  \E g : AreSteps(g, n, G, base, step)
<1>0. PICK it : IsFold(it, n, G, base, step)
  BY FoldExists
<1>1. /\ it \in [SUBSET (1 .. n) -> G]
      /\ \A s \in SUBSET (1 .. n) :
           it[s] = IF s = {} THEN base ELSE step[<<Max(s), it[s \ {Max(s)}]>>]
  BY <1>0, Zenon DEF IsFold
<1> DEFINE g == [k \in 0 .. n |-> it[1 .. k]]
<1>2. \A k \in 0 .. n : 1 .. k \in SUBSET (1 .. n)
  OBVIOUS
<1>3. g \in [0 .. n -> G]
  BY <1>1, <1>2
<1>4. g[0] = base
  <2>1. 1 .. 0 = {} /\ 0 \in 0 .. n
    OBVIOUS
  <2>2. {} \in SUBSET (1 .. n) /\ g[0] = it[1 .. 0]
    BY <2>1
  <2>3. it[{}] = base
    BY <1>1, <2>2, Zenon
  <2> QED
    BY <2>1, <2>2, <2>3
<1>5. ASSUME NEW k \in 1 .. n PROVE g[k] = step[<<k, g[k - 1]>>]
  <2>1. k \in Nat \ {0} /\ k \in 0 .. n /\ k - 1 \in 0 .. n /\ 1 .. k # {}
    OBVIOUS
  <2>2. Max(1 .. k) = k /\ (1 .. k) \ {k} = 1 .. k - 1
    BY <2>1, MaxOfFirst
  <2>3. it[1 .. k] = step[<<k, it[1 .. k - 1]>>]
    BY <1>1, <1>2, <2>1, <2>2, Zenon
  <2> QED
    BY <2>1, <2>3
<1> QED
  BY <1>3, <1>4, <1>5 DEF AreSteps

-----------------------------------------------------------------------------
(* Where each of some pieces starts when they are put one after the other, *)
(* and where the last one ends.                                            *)
AreStarts(starts, sizes) ==
  /\ starts \in [1 .. Len(sizes) + 1 -> Nat]
  /\ starts[1] = 0
  /\ \A k \in 1 .. Len(sizes) : starts[k + 1] = starts[k] + sizes[k]

(* The pieces have starts.                                                 *)
LEMMA StartsExist ==
  ASSUME NEW sizes \in Seq(Nat)
  PROVE  \E starts : AreStarts(starts, sizes)
<1> DEFINE n == Len(sizes)
           step == [p \in (1 .. n) \X Nat |-> p[2] + sizes[p[1]]]
<1>1. n \in Nat /\ step \in [(1 .. n) \X Nat -> Nat] /\ 0 \in Nat
  OBVIOUS
<1>2. \A k \in 1 .. n, m \in Nat : step[<<k, m>>] = m + sizes[k]
  OBVIOUS
<1> HIDE DEF step, n
<1>3. PICK g : AreSteps(g, n, Nat, 0, step)
  BY <1>1, StepsExist
<1> DEFINE starts == [k \in 1 .. n + 1 |-> g[k - 1]]
<1>4. starts \in [1 .. n + 1 -> Nat] /\ starts[1] = 0
  BY <1>1, <1>3 DEF AreSteps
<1>5. ASSUME NEW k \in 1 .. n PROVE starts[k + 1] = starts[k] + sizes[k]
  <2>1. g[k - 1] \in Nat /\ k + 1 \in 1 .. n + 1 /\ k \in 1 .. n + 1 /\ (k + 1) - 1 = k
    BY <1>1, <1>3 DEF AreSteps
  <2>2. g[k] = g[k - 1] + sizes[k]
    BY <1>2, <1>3, <2>1 DEF AreSteps
  <2> QED
    BY <2>1, <2>2
<1> QED
  BY <1>4, <1>5 DEF AreStarts, n

(* A later piece does not start before an earlier one.                     *)
LEMMA StartsGrow ==
  ASSUME NEW sizes \in Seq(Nat), NEW starts, AreStarts(starts, sizes)
  PROVE  \A j, k \in 1 .. Len(sizes) + 1 : j <= k => starts[j] <= starts[k]
<1> SUFFICES ASSUME NEW j \in 1 .. Len(sizes) + 1
             PROVE  \A k \in 1 .. Len(sizes) + 1 : j <= k => starts[j] <= starts[k]
  OBVIOUS
<1> DEFINE Grown(k) == k \in j .. Len(sizes) + 1 => starts[j] <= starts[k]
           H == {k \in Nat : Grown(k)}
<1>1. Grown(0)
  OBVIOUS
<1>2. ASSUME NEW k \in Nat, Grown(k) PROVE Grown(k + 1)
  <2>1. SUFFICES ASSUME k + 1 \in j .. Len(sizes) + 1 PROVE starts[j] <= starts[k + 1]
    OBVIOUS
  <2>2. CASE k + 1 = j
    BY <2>1, <2>2 DEF AreStarts
  <2>3. CASE k + 1 # j
    <3>1. k \in 1 .. Len(sizes) /\ k \in 1 .. Len(sizes) + 1 /\ starts[j] <= starts[k]
      BY <1>2, <2>1, <2>3
    <3>2. starts[k + 1] = starts[k] + sizes[k] /\ starts[k] \in Nat /\ starts[j] \in Nat
      BY <3>1 DEF AreStarts
    <3>3. sizes[k] \in Nat
      BY <3>1
    <3> QED
      BY <3>1, <3>2, <3>3, SMTT(30)
  <2> QED
    BY <2>2, <2>3
<1>3. H = Nat
  <2> HIDE DEF Grown
  <2>1. H \in SUBSET Nat /\ 0 \in H /\ \A k \in H : k + 1 \in H
    BY <1>1, <1>2
  <2> HIDE DEF H
  <2> QED
    BY <2>1, Induction
<1> QED
  BY <1>3

(* Every place up to the end lies in one of the pieces.                    *)
LEMMA PieceAt ==
  ASSUME NEW sizes \in Seq(Nat), NEW starts, AreStarts(starts, sizes),
         NEW o \in Nat, o < starts[Len(sizes) + 1]
  PROVE  \E k \in 1 .. Len(sizes) : starts[k] <= o /\ o < starts[k] + sizes[k]
<1> DEFINE Found(n) == n \in 1 .. Len(sizes) + 1 /\ o < starts[n] =>
             \E k \in 1 .. Len(sizes) : starts[k] <= o /\ o < starts[k] + sizes[k]
           H == {n \in Nat : Found(n)}
<1>1. Found(0)
  OBVIOUS
<1>2. ASSUME NEW n \in Nat, Found(n) PROVE Found(n + 1)
  <2>1. CASE n = 0
    BY <2>1 DEF AreStarts
  <2>2. CASE n # 0
    <3>1. SUFFICES ASSUME n + 1 \in 1 .. Len(sizes) + 1, o < starts[n + 1]
                   PROVE  \E k \in 1 .. Len(sizes) : starts[k] <= o /\ o < starts[k] + sizes[k]
      OBVIOUS
    <3>2. n \in 1 .. Len(sizes) /\ n \in 1 .. Len(sizes) + 1
      BY <2>2, <3>1
    <3>3. starts[n + 1] = starts[n] + sizes[n] /\ starts[n] \in Nat
      BY <3>2 DEF AreStarts
    <3>4. CASE o < starts[n]
      BY <1>2, <3>2, <3>4
    <3>5. CASE starts[n] <= o
      BY <3>1, <3>2, <3>3, <3>5
    <3> QED
      BY <3>3, <3>4, <3>5
  <2> QED
    BY <2>1, <2>2
<1>3. H = Nat
  <2> HIDE DEF Found
  <2>1. H \in SUBSET Nat /\ 0 \in H /\ \A k \in H : k + 1 \in H
    BY <1>1, <1>2
  <2> HIDE DEF H
  <2> QED
    BY <2>1, Induction
<1>4. Found(Len(sizes) + 1)
  <2> HIDE DEF Found
  <2> QED
    BY <1>3
<1> QED
  BY <1>4

(* Pieces of no size do not move the start of the one behind them.         *)
LEMMA StartsSkip ==
  ASSUME NEW sizes \in Seq(Nat), NEW starts, AreStarts(starts, sizes),
         NEW j \in 1 .. Len(sizes) + 1, NEW k \in j .. Len(sizes) + 1,
         \A i \in j .. k - 1 : sizes[i] = 0
  PROVE  starts[k] = starts[j]
<1> DEFINE Same(m) == j <= m /\ m <= k => starts[m] = starts[j]
           H == {m \in Nat : Same(m)}
<1>1. Len(sizes) \in Nat /\ j \in Nat \ {0} /\ k \in Nat /\ j <= k
  OBVIOUS
<1>2. 0 \in H
  BY <1>1
<1>3. ASSUME NEW m \in H PROVE m + 1 \in H
  <2>1. m \in Nat /\ Same(m)
    OBVIOUS
  <2>2. ASSUME j <= m + 1, m + 1 <= k PROVE starts[m + 1] = starts[j]
    <3>1. CASE m + 1 = j
      BY <3>1
    <3>2. CASE j <= m
      <4>1. m \in 1 .. Len(sizes) /\ m \in j .. k - 1
        BY <1>1, <2>1, <2>2, <3>2
      <4>2. starts[m + 1] = starts[m] + 0 /\ starts[m] \in Nat
        <5>1. sizes[m] = 0
          BY <4>1
        <5>2. starts[m + 1] = starts[m] + sizes[m]
          BY <4>1 DEF AreStarts
        <5>3. m \in 1 .. Len(sizes) + 1 /\ starts \in [1 .. Len(sizes) + 1 -> Nat]
          BY <1>1, <4>1 DEF AreStarts
        <5> QED
          BY <5>1, <5>2, <5>3
      <4>3. starts[m] = starts[j]
        BY <1>1, <2>1, <2>2, <3>2
      <4> QED
        BY <4>2, <4>3
    <3> QED
      BY <1>1, <2>1, <2>2, <3>1, <3>2
  <2> QED
    BY <2>1, <2>2
<1>4. H = Nat
  <2> HIDE DEF Same
  <2>1. H \in SUBSET Nat
    OBVIOUS
  <2> QED
    BY <1>2, <1>3, <2>1, Induction
<1>5. Same(k)
  BY <1>1, <1>4
<1> QED
  BY <1>1, <1>5

-----------------------------------------------------------------------------
(* The sum of some sizes, as the models fold them.                         *)
SumOf(sizes) == FoldLeft(LAMBDA a, b : a + b, 0, sizes)

(* The sum of some sizes is where the last piece ends.                     *)
LEMMA SumIsEnd ==
  ASSUME NEW sizes \in Seq(Nat), NEW starts, AreStarts(starts, sizes)
  PROVE  SumOf(sizes) = starts[Len(sizes) + 1]
<1> DEFINE n == Len(sizes)
           Recursive(it) == it = [s \in SUBSET (1 .. n) |->
                                    IF s = {} THEN 0 ELSE it[s \ {Max(s)}] + sizes[Max(s)]]
           sum == CHOOSE it : Recursive(it)
           step == [p \in (1 .. n) \X Nat |-> p[2] + sizes[p[1]]]
<1>1. n \in Nat /\ DOMAIN sizes = 1 .. n /\ step \in [(1 .. n) \X Nat -> Nat] /\ 0 \in Nat
  OBVIOUS
<1>2. \A k \in 1 .. n, m \in Nat : step[<<k, m>>] = m + sizes[k]
  OBVIOUS
<1> HIDE DEF step
<1>3. SumOf(sizes) = sum[1 .. n]
  BY <1>1, Zenon DEF SumOf, FoldLeft, MapThenFoldSet
<1> HIDE DEF n, sum
<1>4. \E it : Recursive(it)
  <2>0. PICK it : IsFold(it, n, Nat, 0, step)
    BY <1>1, FoldExists
  <2>1. /\ it \in [SUBSET (1 .. n) -> Nat]
        /\ \A s \in SUBSET (1 .. n) :
             it[s] = IF s = {} THEN 0 ELSE step[<<Max(s), it[s \ {Max(s)}]>>]
    BY <2>0, Zenon DEF IsFold
  <2>2. \A s \in SUBSET (1 .. n) : s # {} => Max(s) \in 1 .. n /\ s \ {Max(s)} \in SUBSET (1 .. n)
    BY <1>1, MaxOfSome
  <2>3. \A s \in SUBSET (1 .. n) :
          it[s] = IF s = {} THEN 0 ELSE it[s \ {Max(s)}] + sizes[Max(s)]
    BY <1>2, <2>1, <2>2
  <2>4. Recursive(it)
    BY <2>1, <2>3
  <2> QED
    BY <2>4
<1>5. Recursive(sum)
  BY <1>4, Zenon DEF sum
<1>6. \A s \in SUBSET (1 .. n) : sum[s] = IF s = {} THEN 0 ELSE sum[s \ {Max(s)}] + sizes[Max(s)]
  BY <1>5, Zenon
<1> HIDE DEF Recursive
<1>7. sum[1 .. 0] = 0
  <2>1. 1 .. 0 = {} /\ {} \in SUBSET (1 .. n)
    OBVIOUS
  <2> QED
    BY <1>6, <2>1
<1>8. ASSUME NEW k \in 1 .. n PROVE sum[1 .. k] = sum[1 .. k - 1] + sizes[k]
  <2>1. k \in Nat \ {0} /\ k \in 1 .. k /\ 1 .. k \in SUBSET (1 .. n)
    BY <1>1
  <2>2. Max(1 .. k) = k /\ (1 .. k) \ {k} = 1 .. k - 1
    BY <2>1, MaxOfFirst
  <2> QED
    BY <1>6, <2>1, <2>2, Zenon
<1> DEFINE Same(k) == k \in 0 .. n => sum[1 .. k] = starts[k + 1]
           H == {k \in Nat : Same(k)}
<1>9. Same(0)
  BY <1>7 DEF AreStarts
<1>10. ASSUME NEW k \in Nat, Same(k) PROVE Same(k + 1)
  BY <1>1, <1>8, <1>10 DEF AreStarts, n
<1>11. H = Nat
  <2> HIDE DEF Same
  <2>1. H \in SUBSET Nat /\ 0 \in H /\ \A k \in H : k + 1 \in H
    BY <1>9, <1>10
  <2> HIDE DEF H
  <2> QED
    BY <2>1, Induction
<1>12. Same(n)
  <2> HIDE DEF Same
  <2> QED
    BY <1>1, <1>11
<1> QED
  BY <1>1, <1>3, <1>12 DEF n

(* The sum of the sizes before a piece is where it starts.                 *)
LEMMA SumOfFirst ==
  ASSUME NEW sizes \in Seq(Nat), NEW starts, AreStarts(starts, sizes),
         NEW k \in 1 .. Len(sizes) + 1
  PROVE  SumOf(SubSeq(sizes, 1, k - 1)) = starts[k]
<1> DEFINE first == SubSeq(sizes, 1, k - 1)
           before == [i \in 1 .. k |-> starts[i]]
<1>1. first \in Seq(Nat) /\ Len(first) = k - 1 /\ \A i \in 1 .. k - 1 : first[i] = sizes[i]
  OBVIOUS
<1>2. before \in [1 .. k -> Nat] /\ before[1] = 0 /\ before[k] = starts[k]
  <2>1. k \in Nat \ {0} /\ 1 \in 1 .. k /\ k \in 1 .. k
    OBVIOUS
  <2>2. \A i \in 1 .. k : i \in 1 .. Len(sizes) + 1
    OBVIOUS
  <2> QED
    BY <2>1, <2>2 DEF AreStarts
<1>3. \A i \in 1 .. k - 1 : before[i + 1] = before[i] + sizes[i]
  BY DEF AreStarts
<1> HIDE DEF first, before
<1>4. Len(first) + 1 = k
  BY <1>1
<1>5. AreStarts(before, first)
  BY <1>1, <1>2, <1>3, <1>4 DEF AreStarts
<1> QED
  BY <1>1, <1>2, <1>4, <1>5, SumIsEnd DEF first

-----------------------------------------------------------------------------
(* The sizes of some sequences.                                            *)
SizesOf(seqs) == [k \in 1 .. Len(seqs) |-> Len(seqs[k])]

(* The sizes and the starts, said of the sequences themselves.             *)
LEMMA SizesFacts ==
  ASSUME NEW B, NEW seqs \in Seq(Seq(B)), NEW starts, AreStarts(starts, SizesOf(seqs))
  PROVE  /\ SizesOf(seqs) \in Seq(Nat) /\ Len(SizesOf(seqs)) = Len(seqs)
         /\ \A k \in 1 .. Len(seqs) :
              /\ SizesOf(seqs)[k] = Len(seqs[k]) /\ Len(seqs[k]) \in Nat /\ seqs[k] \in Seq(B)
              /\ starts[k + 1] = starts[k] + Len(seqs[k])
         /\ starts \in [1 .. Len(seqs) + 1 -> Nat] /\ starts[1] = 0
         /\ \A k \in 1 .. Len(seqs) + 1 : starts[k] \in Nat
<1>1. \A k \in 1 .. Len(seqs) : seqs[k] \in Seq(B) /\ Len(seqs[k]) \in Nat
  OBVIOUS
<1>2. SizesOf(seqs) \in Seq(Nat) /\ Len(SizesOf(seqs)) = Len(seqs)
  BY <1>1 DEF SizesOf
<1>3. \A k \in 1 .. Len(seqs) : SizesOf(seqs)[k] = Len(seqs[k])
  BY DEF SizesOf
<1>4. starts \in [1 .. Len(seqs) + 1 -> Nat] /\ starts[1] = 0
  BY <1>2 DEF AreStarts
<1>5. \A k \in 1 .. Len(seqs) : starts[k + 1] = starts[k] + Len(seqs[k])
  BY <1>2, <1>3 DEF AreStarts
<1> QED
  BY <1>1, <1>2, <1>3, <1>4, <1>5

(* Two sequences, one after the other.                                     *)
LEMMA Concatenation ==
  ASSUME NEW B, NEW front \in Seq(B), NEW back \in Seq(B)
  PROVE  /\ front \o back \in Seq(B) /\ Len(front \o back) = Len(front) + Len(back)
         /\ \A i \in 1 .. Len(front) : (front \o back)[i] = front[i]
         /\ \A i \in 1 .. Len(back) : (front \o back)[Len(front) + i] = back[i]
OBVIOUS

(* Some sequences, put one after the other.                                *)
LEMMA FlattenParts ==
  ASSUME NEW B, NEW seqs \in Seq(Seq(B)), NEW starts, AreStarts(starts, SizesOf(seqs))
  PROVE  /\ FlattenSeq(seqs) \in Seq(B)
         /\ Len(FlattenSeq(seqs)) = starts[Len(seqs) + 1]
         /\ \A k \in 1 .. Len(seqs) : \A i \in 1 .. Len(seqs[k]) :
              FlattenSeq(seqs)[starts[k] + i] = seqs[k][i]
<1> DEFINE n == Len(seqs)
           Recursive(f) == f = [i \in 1 .. n |-> IF i = 1 THEN seqs[i] ELSE f[i - 1] \o seqs[i]]
           flatten == CHOOSE f : Recursive(f)
           step == [p \in (1 .. n) \X Seq(B) |-> p[2] \o seqs[p[1]]]
<1>1. n \in Nat /\ \A k \in 1 .. n : seqs[k] \in Seq(B)
  OBVIOUS
<1>2. /\ starts \in [1 .. n + 1 -> Nat]
      /\ starts[1] = 0
      /\ \A k \in 1 .. n : starts[k + 1] = starts[k] + Len(seqs[k])
  BY SizesFacts
<1>3. FlattenSeq(seqs) = IF n = 0 THEN seqs ELSE flatten[n]
  BY Zenon DEF FlattenSeq
<1>4. CASE n = 0
  <2>1. FlattenSeq(seqs) = << >> /\ seqs = << >>
    BY <1>3, <1>4
  <2> QED
    BY <1>1, <1>2, <2>1
<1>5. CASE n # 0
  <2> HIDE DEF n, flatten
  <2>1. \A k \in 1 .. n, s \in Seq(B) : step[<<k, s>>] = s \o seqs[k]
    OBVIOUS
  <2>2. step \in [(1 .. n) \X Seq(B) -> Seq(B)] /\ << >> \in Seq(B)
    BY <1>1
  <2> HIDE DEF step
  <2>3. PICK g : AreSteps(g, n, Seq(B), << >>, step)
    BY <1>1, <2>2, StepsExist
  <2>4. \A k \in 1 .. n : g[k - 1] \in Seq(B) /\ g[k] = g[k - 1] \o seqs[k]
    <3>1. ASSUME NEW k \in 1 .. n PROVE g[k - 1] \in Seq(B) /\ g[k] = g[k - 1] \o seqs[k]
      <4>1. k - 1 \in 0 .. n
        BY <1>1
      <4>2. g[k - 1] \in Seq(B) /\ g[k] = step[<<k, g[k - 1]>>]
        BY <2>3, <4>1 DEF AreSteps
      <4> QED
        BY <2>1, <4>2
    <3> QED
      BY <3>1
  <2>5. \E f : Recursive(f)
    <3> DEFINE f == [k \in 1 .. n |-> g[k]]
    <3>1. ASSUME NEW i \in 1 .. n PROVE f[i] = IF i = 1 THEN seqs[i] ELSE f[i - 1] \o seqs[i]
      <4>1. CASE i = 1
        <5>1. g[0] = << >> /\ seqs[1] \in Seq(B) /\ 1 \in 1 .. n
          BY <1>1, <2>3, <4>1 DEF AreSteps
        <5>2. g[1] = g[0] \o seqs[1]
          <6>1. 1 - 1 = 0
            OBVIOUS
          <6> QED
            BY <2>4, <5>1, <6>1
        <5>3. g[1] = seqs[1]
          BY <5>1, <5>2
        <5> QED
          BY <4>1, <5>3
      <4>2. CASE i # 1
        <5>1. i - 1 \in 1 .. n
          BY <1>1, <4>2
        <5> QED
          BY <2>4, <4>2, <5>1
      <4> QED
        BY <4>1, <4>2
    <3>2. Recursive(f)
      BY <3>1
    <3> QED
      BY <3>2
  <2>6. Recursive(flatten)
    BY <2>5, Zenon DEF flatten
  <2>7. \A i \in 1 .. n : flatten[i] = IF i = 1 THEN seqs[i] ELSE flatten[i - 1] \o seqs[i]
    BY <2>6, Zenon
  <2> HIDE DEF Recursive
  <2> DEFINE Parts(m) ==
        /\ flatten[m] \in Seq(B)
        /\ Len(flatten[m]) = starts[m + 1]
        /\ \A k \in 1 .. m : \A i \in 1 .. Len(seqs[k]) :
             starts[k] + i \in 1 .. starts[m + 1] /\ flatten[m][starts[k] + i] = seqs[k][i]
             H == {m \in Nat : m \in 1 .. n => Parts(m)}
  <2>8. ASSUME NEW m \in Nat, m \in 1 .. n => Parts(m), m + 1 \in 1 .. n
        PROVE  Parts(m + 1)
    <3>1. /\ starts[m + 1] \in Nat /\ starts[m + 2] = starts[m + 1] + Len(seqs[m + 1])
          /\ seqs[m + 1] \in Seq(B)
      BY <1>1, <1>2, <2>8
    <3>2. CASE m = 0
      <4>1. flatten[1] = seqs[1] /\ starts[1] = 0
        BY <1>2, <2>7, <2>8, <3>2
      <4> QED
        BY <3>1, <3>2, <4>1
    <3>3. CASE m # 0
      <4>1. Parts(m) /\ m \in 1 .. n
        BY <1>1, <2>8, <3>3
      <4>2. flatten[m + 1] = flatten[m] \o seqs[m + 1]
        <5>1. (m + 1) - 1 = m /\ m + 1 # 1
          BY <3>3
        <5> QED
          BY <2>7, <2>8, <5>1
      <4> DEFINE front == flatten[m]
                  back  == seqs[m + 1]
      <4>3. /\ front \o back \in Seq(B) /\ Len(front \o back) = Len(front) + Len(back)
            /\ \A i \in 1 .. Len(front) : (front \o back)[i] = front[i]
            /\ \A i \in 1 .. Len(back) : (front \o back)[Len(front) + i] = back[i]
        <5>1. front \in Seq(B) /\ back \in Seq(B)
          BY <3>1, <4>1
        <5> HIDE DEF front, back
        <5> QED
          BY <5>1, Concatenation
      <4>4. Len(front) = starts[m + 1] /\ Len(back) \in Nat
        BY <3>1, <4>1
      <4>5. flatten[m + 1] \in Seq(B) /\ Len(flatten[m + 1]) = starts[m + 2]
        BY <3>1, <4>2, <4>3, <4>4
      <4>6. flatten[m + 1] = front \o back /\ starts[m + 2] = starts[m + 1] + Len(back)
        BY <3>1, <4>2
      <4> HIDE DEF front, back
      <4>7. ASSUME NEW k \in 1 .. m + 1, NEW i \in 1 .. Len(seqs[k])
            PROVE  /\ starts[k] + i \in 1 .. starts[m + 2]
                   /\ flatten[m + 1][starts[k] + i] = seqs[k][i]
        <5>1. CASE k = m + 1
          <6>1. i \in 1 .. Len(back) /\ starts[k] + i = Len(front) + i
            BY <4>4, <5>1 DEF back
          <6>2. back[i] = seqs[k][i]
            BY <5>1 DEF back
          <6>3. Len(front) + i \in 1 .. starts[m + 1] + Len(back)
            BY <3>1, <4>4, <6>1, SMTT(30)
          <6> QED
            BY <4>3, <4>6, <6>1, <6>2, <6>3
        <5>2. CASE k # m + 1
          <6>1. k \in 1 .. m
            BY <5>2
          <6>2. starts[k] + i \in 1 .. starts[m + 1] /\ flatten[m][starts[k] + i] = seqs[k][i]
            BY <4>1, <6>1
          <6> QED
            <7>1. front[starts[k] + i] = seqs[k][i] /\ starts[k] + i \in 1 .. Len(front)
              BY <4>4, <6>2 DEF front
            <7>2. starts[k] + i \in 1 .. starts[m + 1] + Len(back)
              BY <3>1, <4>4, <6>2
            <7> QED
              BY <4>3, <4>6, <7>1, <7>2
        <5> QED
          BY <5>1, <5>2
      <4> QED
        BY <4>5, <4>7
    <3> QED
      BY <3>2, <3>3
  <2>9. H = Nat
    <3> HIDE DEF Parts
    <3>1. H \in SUBSET Nat /\ 0 \in H /\ \A m \in H : m + 1 \in H
      BY <2>8
    <3> HIDE DEF H
    <3> QED
      BY <3>1, Induction
  <2>10. Parts(n)
    <3> HIDE DEF Parts
    <3> QED
      BY <1>1, <1>5, <2>9
  <2> QED
    BY <1>3, <1>5, <2>10 DEF n
<1> QED
  BY <1>4, <1>5

(* A sequence with the same parts is the same.                             *)
LEMMA FlattenUnique ==
  ASSUME NEW B, NEW seqs \in Seq(Seq(B)), NEW starts, AreStarts(starts, SizesOf(seqs)),
         NEW other \in Seq(B), Len(other) = starts[Len(seqs) + 1],
         \A k \in 1 .. Len(seqs) : \A i \in 1 .. Len(seqs[k]) :
           other[starts[k] + i] = seqs[k][i]
  PROVE  FlattenSeq(seqs) = other
<1> DEFINE flat == FlattenSeq(seqs)
<1>1. /\ flat \in Seq(B) /\ Len(flat) = starts[Len(seqs) + 1]
      /\ \A k \in 1 .. Len(seqs) : \A i \in 1 .. Len(seqs[k]) : flat[starts[k] + i] = seqs[k][i]
  BY FlattenParts
<1>2. SizesOf(seqs) \in Seq(Nat) /\ Len(SizesOf(seqs)) = Len(seqs)
  BY SizesFacts
<1> HIDE DEF flat
<1>3. ASSUME NEW i \in 1 .. Len(other) PROVE flat[i] = other[i]
  <2>1. i - 1 \in Nat /\ i \in Nat /\ i - 1 < starts[Len(SizesOf(seqs)) + 1]
    BY <1>2
  <2>2. PICK k \in 1 .. Len(seqs) :
          starts[k] <= i - 1 /\ i - 1 < starts[k] + SizesOf(seqs)[k]
    BY <1>2, <2>1, PieceAt
  <2>3. SizesOf(seqs)[k] = Len(seqs[k]) /\ starts[k] \in Nat /\ Len(seqs[k]) \in Nat
    <3>1. k \in 1 .. Len(seqs) + 1
      BY <2>2
    <3> QED
      BY <3>1, SizesFacts, SMTT(30)
  <2>4. i - starts[k] \in 1 .. Len(seqs[k]) /\ starts[k] + (i - starts[k]) = i
    <3> DEFINE s == starts[k]
               l == Len(seqs[k])
    <3>1. s \in Nat /\ l \in Nat /\ i \in Nat /\ s <= i - 1 /\ i - 1 < s + l
      BY <2>1, <2>2, <2>3
    <3> HIDE DEF s, l
    <3>2. i - s \in 1 .. l /\ s + (i - s) = i
      BY <3>1
    <3> QED
      BY <3>2 DEF s, l
  <2> QED
    BY <1>1, <2>4
<1>4. flat = other
  <2>1. DOMAIN flat = 1 .. Len(other) /\ DOMAIN other = 1 .. Len(other)
    BY <1>1
  <2>2. flat = [i \in 1 .. Len(other) |-> flat[i]] /\ other = [i \in 1 .. Len(other) |-> other[i]]
    BY <1>1, <2>1
  <2> QED
    BY <1>3, <2>2
<1> QED
  BY <1>4 DEF flat

(* The elements of a sequence.                                             *)
LEMMA ElementsOf ==
  ASSUME NEW X, NEW seq \in Seq(X)
  PROVE  \A k \in 1 .. Len(seq) : seq[k] \in X
OBVIOUS

(* Three sequences, put one after the other.                               *)
LEMMA FlattenThree ==
  ASSUME NEW B, NEW parts \in Seq(Seq(B)), Len(parts) = 3
  PROVE  FlattenSeq(parts) = (parts[1] \o parts[2]) \o parts[3]
<1>0. \A k \in 1 .. Len(parts) : parts[k] \in Seq(B)
  BY ONLY parts \in Seq(Seq(B)), ElementsOf
<1> DEFINE a == parts[1]
           b == parts[2]
           c == parts[3]
           starts == [k \in 1 .. 4 |-> IF k = 1 THEN 0
                                      ELSE IF k = 2 THEN Len(a)
                                      ELSE IF k = 3 THEN Len(a) + Len(b)
                                      ELSE Len(a) + Len(b) + Len(c)]
<1>1. a \in Seq(B) /\ b \in Seq(B) /\ c \in Seq(B)
  <2> HIDE DEF starts
  <2>1. 1 \in 1 .. Len(parts) /\ 2 \in 1 .. Len(parts) /\ 3 \in 1 .. Len(parts)
    OBVIOUS
  <2> QED
    BY <1>0, <2>1
<1>2. SizesOf(parts) = [k \in 1 .. 3 |-> Len(parts[k])]
  BY DEF SizesOf
<1>3. Len(SizesOf(parts)) = 3
  BY <1>2
<1>4. /\ SizesOf(parts)[1] = Len(a) /\ SizesOf(parts)[2] = Len(b)
      /\ SizesOf(parts)[3] = Len(c)
  BY <1>2
<1>p. \A k \in 1 .. Len(parts) : \/ k = 1 /\ parts[k] = a
                                 \/ k = 2 /\ parts[k] = b
                                 \/ k = 3 /\ parts[k] = c
  OBVIOUS
<1> HIDE DEF a, b, c
<1>5. Len(a) \in Nat /\ Len(b) \in Nat /\ Len(c) \in Nat
  BY <1>1
<1>6. /\ starts[1] = 0 /\ starts[2] = Len(a) /\ starts[3] = Len(a) + Len(b)
      /\ starts[4] = Len(a) + Len(b) + Len(c)
      /\ starts \in [1 .. 4 -> Nat]
  BY <1>5
<1> HIDE DEF starts
<1>7. AreStarts(starts, SizesOf(parts))
  <2>1. ASSUME NEW k \in 1 .. 3 PROVE starts[k + 1] = starts[k] + SizesOf(parts)[k]
    <3>1. k = 1 \/ k = 2 \/ k = 3
      OBVIOUS
    <3>2. CASE k = 1
      <4>1. k + 1 = 2
        BY <3>2
      <4> QED
        BY <1>4, <1>5, <1>6, <3>2, <4>1
    <3>3. CASE k = 2
      <4>1. k + 1 = 3
        BY <3>3
      <4> QED
        BY <1>4, <1>5, <1>6, <3>3, <4>1
    <3>4. CASE k = 3
      <4>1. k + 1 = 4
        BY <3>4
      <4> QED
        BY <1>4, <1>5, <1>6, <3>4, <4>1
    <3> QED
      BY <3>1, <3>2, <3>3, <3>4
  <2> QED
    BY <1>3, <1>6, <2>1 DEF AreStarts
<1> DEFINE both == a \o b
           all == both \o c
<1>8. /\ both \in Seq(B) /\ Len(both) = Len(a) + Len(b)
      /\ \A i \in 1 .. Len(a) : both[i] = a[i]
      /\ \A i \in 1 .. Len(b) : both[Len(a) + i] = b[i]
  BY ONLY <1>1, Concatenation
<1> HIDE DEF both
<1>b. both \in Seq(B)
  BY <1>8
<1>9. /\ all \in Seq(B) /\ Len(all) = Len(both) + Len(c)
      /\ \A i \in 1 .. Len(both) : all[i] = both[i]
      /\ \A i \in 1 .. Len(c) : all[Len(both) + i] = c[i]
  BY ONLY <1>1, <1>b, Concatenation
<1> HIDE DEF all
<1>10. Len(all) = starts[Len(parts) + 1]
  BY <1>6, <1>8, <1>9
<1>11. ASSUME NEW k \in 1 .. Len(parts), NEW i \in 1 .. Len(parts[k])
       PROVE  all[starts[k] + i] = parts[k][i]
  <2>1. CASE k = 1 /\ parts[k] = a
    <3>1. i \in 1 .. Len(a) /\ i \in 1 .. Len(both) /\ starts[k] + i = i
      BY <1>5, <1>6, <1>8, <2>1
    <3> QED
      BY <1>8, <1>9, <2>1, <3>1
  <2>2. CASE k = 2 /\ parts[k] = b
    <3>1. i \in 1 .. Len(b) /\ starts[k] = Len(a)
      BY <1>6, <2>2
    <3>2. Len(a) + i \in 1 .. Len(both)
      BY <1>5, <1>8, <3>1
    <3> QED
      BY <1>8, <1>9, <2>2, <3>1, <3>2
  <2>3. CASE k = 3 /\ parts[k] = c
    <3>1. i \in 1 .. Len(c) /\ starts[k] = Len(both)
      BY <1>6, <1>8, <2>3
    <3> QED
      BY <1>9, <2>3, <3>1
  <2> QED
    BY <1>p, <2>1, <2>2, <2>3
<1>12. all \in Seq(B)
  BY <1>9
<1>13. FlattenSeq(parts) = all
  BY ONLY parts \in Seq(Seq(B)), <1>7, <1>10, <1>11, <1>12, FlattenUnique
<1> QED
  BY <1>13 DEF all, both, a, b, c

-----------------------------------------------------------------------------
(* A stretch of a sequence, continued.                                     *)
LEMMA SubSeqContinued ==
  ASSUME NEW B, NEW seq \in Seq(B), NEW a \in Nat, NEW b \in Nat, NEW c \in Nat,
         a <= b, b <= c, c <= Len(seq)
  PROVE  SubSeq(seq, a + 1, b) \o SubSeq(seq, b + 1, c) = SubSeq(seq, a + 1, c)
<1>1. a + 1 \in 1 .. Len(seq) + 1 /\ b \in (a + 1) - 1 .. Len(seq) /\ c \in b .. Len(seq)
  OBVIOUS
<1> QED
  BY <1>1, ConcatAdjacentSubSeq

(* A stretch of a sequence, as a function.                                 *)
LEMMA Stretch ==
  ASSUME NEW B, NEW seq \in Seq(B), NEW a \in Nat, NEW c \in Nat, a + c <= Len(seq)
  PROVE  SubSeq(seq, a + 1, a + c) = [i \in 1 .. c |-> seq[a + i]]
BY SubSeqProperties

(* The same stretch of two sequences, one of which holds the other.        *)
LEMMA SameStretch ==
  ASSUME NEW B, NEW file \in Seq(B), NEW media \in Seq(B), NEW b \in Nat, NEW o \in Nat,
         NEW at \in Nat, NEW c \in Nat, b <= o, at = o - b,
         at + c <= Len(file), o + c <= Len(media),
         \A i \in 1 .. Len(file) : media[b + i] = file[i]
  PROVE  SubSeq(file, at + 1, at + c) = SubSeq(media, o + 1, o + c)
<1>1. SubSeq(file, at + 1, at + c) = [i \in 1 .. c |-> file[at + i]]
  BY ONLY file \in Seq(B), at \in Nat, c \in Nat, at + c <= Len(file), Stretch
<1>2. SubSeq(media, o + 1, o + c) = [i \in 1 .. c |-> media[o + i]]
  BY ONLY media \in Seq(B), o \in Nat, c \in Nat, o + c <= Len(media), Stretch
<1>3. \A i \in 1 .. c : file[at + i] = media[o + i]
  <2> TAKE i \in 1 .. c
  <2>1. at + i \in 1 .. Len(file) /\ b + (at + i) = o + i
    OBVIOUS
  <2> QED
    BY <2>1
<1> QED
  BY <1>1, <1>2, <1>3
=============================================================================
