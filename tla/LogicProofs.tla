---------------------------- MODULE LogicProofs -----------------------------
(***************************************************************************)
(* Proofs about the pure functions of the plug-in for inputs of every      *)
(* length.  The induction theorems of the library take an operator, which  *)
(* the provers cannot instantiate; here induction is about sets.           *)
(***************************************************************************)
EXTENDS MCLogic, FiniteSetTheorems, SequenceTheorems, WellFoundedInduction, TLAPS

-----------------------------------------------------------------------------
(* Induction over sets of numbers *)

\* The order of the natural numbers is well founded, so a set of them has a least element.
LEMMA LeastNumber ==
    ASSUME NEW T \in SUBSET Nat, T # {}
    PROVE  \E m \in T : \A k \in T : m <= k
<1>1. PICK R : R = OpToRel(<, Nat)
  OBVIOUS
<1>2. R = {p \in Nat \X Nat : p[1] < p[2]}
  BY <1>1 DEF OpToRel
<1>3. IsWellFoundedOn(R, Nat)
  BY <1>1, NatLessThanWellFounded
<1>4. PICK m \in T : \A k \in T : <<k, m>> \notin R
  BY <1>3, WFMin
<1>5. \A k \in T : ~(k < m)
  <2>1. ASSUME NEW k \in T, k < m PROVE FALSE
    <3>1. <<k, m>> \in Nat \X Nat /\ <<k, m>>[1] < <<k, m>>[2]
      BY <2>1
    <3>2. <<k, m>> \in R
      BY <1>2, <3>1
    <3>3. QED
      BY <1>4, <3>2
  <2>2. QED
    BY <2>1
<1>6. QED
  BY <1>4, <1>5

\* Induction over the natural numbers, for a set of them.
LEMMA Induction ==
    ASSUME NEW T, 0 \in T, \A n \in Nat : n \in T => n + 1 \in T
    PROVE  \A n \in Nat : n \in T
<1>1. SUFFICES ASSUME Nat \ T # {} PROVE FALSE
  OBVIOUS
<1>2. PICK m \in Nat \ T : \A k \in Nat \ T : m <= k
  BY <1>1, LeastNumber
<1>3. m # 0 /\ m - 1 \in Nat
  BY <1>2
<1>4. m - 1 \in T
  BY <1>2, <1>3
<1>5. (m - 1) + 1 \in T
  BY <1>3, <1>4
<1>6. QED
  BY <1>2, <1>3, <1>5

\* Induction up to n.
LEMMA InductionUpTo ==
    ASSUME NEW n \in Nat, NEW T, 0 \in T, \A k \in 0..(n - 1) : k \in T => k + 1 \in T
    PROVE  \A k \in 0..n : k \in T
<1> DEFINE U == {k \in Nat : k <= n => k \in T}
<1>1. 0 \in U
  OBVIOUS
<1>2. \A k \in Nat : k \in U => k + 1 \in U
  <2>1. ASSUME NEW k \in U, k + 1 <= n PROVE k + 1 \in T
    <3>1. k \in 0..(n - 1) /\ k \in T
      BY <2>1
    <3>2. QED
      BY <3>1
  <2>2. QED
    BY <2>1
<1> HIDE DEF U
<1>3. \A k \in Nat : k \in U
  BY <1>1, <1>2, Induction
<1>4. QED
  BY <1>3 DEF U

\* A set of numbers up to n has a greatest element.
LEMMA GreatestNumber ==
    ASSUME NEW n \in Nat, NEW S \in SUBSET (1..n), S # {}
    PROVE  \E m \in S : \A k \in S : k <= m
<1> DEFINE T == {k \in Nat : \A i \in S : i <= k}
<1>1. n \in T
  OBVIOUS
<1>2. T # {} /\ T \in SUBSET Nat
  BY <1>1
<1>3. PICK m \in T : \A k \in T : m <= k
  BY <1>2, LeastNumber
<1>4. m \in S
  <2>1. SUFFICES ASSUME m \notin S PROVE FALSE
    OBVIOUS
  <2>2. PICK i \in S : TRUE
    OBVIOUS
  <2>3. m - 1 \in Nat
    BY <1>3, <2>1, <2>2
  <2>4. \A k \in S : k <= m - 1
    BY <1>3, <2>1
  <2>5. m - 1 \in T
    BY <2>3, <2>4
  <2>6. QED
    BY <1>3, <2>3, <2>5
<1>5. QED
  BY <1>3, <1>4

\* The last of some positions.
LEMMA MaxOfPositions ==
    ASSUME NEW n \in Nat, NEW S \in SUBSET (1..n), S # {}
    PROVE  Max(S) \in S /\ Max(S) \in 1..n /\ \A k \in S : k <= Max(S)
<1>1. PICK m \in S : \A k \in S : k <= m
  BY GreatestNumber
<1>2. \A y \in S : m >= y
  BY <1>1
<1>3. Max(S) \in S /\ \A y \in S : Max(S) >= y
  BY <1>2 DEF Max
<1>4. QED
  BY <1>3

\* What is left of an interval without its last position.
LEMMA MaxOfInterval ==
    ASSUME NEW k \in Nat, k # 0
    PROVE  Max(1..k) = k /\ (1..k) \ {k} = 1..(k - 1)
<1>1. 1..k \in SUBSET (1..k) /\ 1..k # {}
  OBVIOUS
<1>2. Max(1..k) \in 1..k /\ \A i \in 1..k : i <= Max(1..k)
  BY <1>1, MaxOfPositions
<1>3. QED
  BY <1>2

-----------------------------------------------------------------------------
(* Functions that are defined by recursion *)

\* FoldLeft is a recursive function on the sets of positions, which takes the last one
\* first.  Such a function exists for every step that stays within a set of states.
IsFold(g, n, base, step) ==
    g = [P \in SUBSET (1..n) |-> IF P = {} THEN base ELSE step[<<g[P \ {Max(P)}], Max(P)>>]]

\* A fold is a recursive function over sets of positions, and there is one.
LEMMA FoldExists ==
    ASSUME NEW n \in Nat, NEW St, NEW base \in St, NEW step \in [St \X (1..n) -> St]
    PROVE  \E g \in [SUBSET (1..n) -> St] : IsFold(g, n, base, step)
<1> DEFINE Follows(g, S) ==
              g[S] = IF S = {} THEN base ELSE step[<<g[S \ {Max(S)}], Max(S)>>]
           Exists(k) == \E g \in [SUBSET (1..n) -> St] : \A S \in SUBSET (1..k) : Follows(g, S)
           T == {k \in Nat : k <= n => Exists(k)}
<1>1. 0 \in T
  <2> DEFINE g == [S \in SUBSET (1..n) |-> base]
  <2>1. g \in [SUBSET (1..n) -> St] /\ g[{}] = base
    OBVIOUS
  <2>2. \A S \in SUBSET (1..0) : S = {}
    OBVIOUS
  <2>3. \A S \in SUBSET (1..0) : Follows(g, S)
    BY <2>1, <2>2
  <2> HIDE DEF Follows, g
  <2>4. Exists(0)
    BY <2>1, <2>3
  <2>5. QED
    BY <2>4
<1>2. \A k \in Nat : k \in T => k + 1 \in T
  <2>1. SUFFICES ASSUME NEW k \in T, k + 1 <= n
                 PROVE  Exists(k + 1)
    <3> HIDE DEF Exists
    <3>1. QED
      OBVIOUS
  <2>a. Exists(k)
    <3> HIDE DEF Exists
    <3>1. QED
      BY <2>1
  <2>2. PICK g \in [SUBSET (1..n) -> St] : \A S \in SUBSET (1..k) : Follows(g, S)
    BY <2>a
  <2> DEFINE h == [S \in SUBSET (1..n) |->
                      IF k + 1 \in S THEN step[<<g[S \ {k + 1}], k + 1>>] ELSE g[S]]
  <2>3. h \in [SUBSET (1..n) -> St]
    <3>1. \A S \in SUBSET (1..n) : g[S] \in St /\ g[S \ {k + 1}] \in St
      OBVIOUS
    <3>2. \A x \in St : k + 1 \in 1..n => step[<<x, k + 1>>] \in St
      OBVIOUS
    <3>3. k + 1 \in 1..n
      BY <2>1
    <3>4. QED
      BY <3>1, <3>2, <3>3
  <2>4. ASSUME NEW S \in SUBSET (1..(k + 1)) PROVE Follows(h, S)
    <3>1. S \in SUBSET (1..n)
      BY <2>1
    <3>2. CASE k + 1 \in S
      <4>1. Max(S) = k + 1
        BY <2>1, <3>2, MaxOfPositions
      <4>2. S \ {k + 1} \in SUBSET (1..n) /\ k + 1 \notin S \ {k + 1}
        BY <3>1
      <4>3. h[S \ {k + 1}] = g[S \ {k + 1}]
        BY <4>2
      <4>4. h[S] = step[<<g[S \ {k + 1}], k + 1>>]
        BY <3>1, <3>2
      <4>5. QED
        BY <3>2, <4>1, <4>3, <4>4
    <3>3. CASE k + 1 \notin S
      <4>1. S \in SUBSET (1..k)
        BY <2>1, <3>3
      <4>2. Follows(g, S)
        BY <2>2, <4>1
      <4>3. h[S] = g[S]
        BY <3>1, <3>3
      <4>4. S \ {Max(S)} \in SUBSET (1..n) /\ k + 1 \notin S \ {Max(S)}
        BY <3>1, <3>3
      <4>5. h[S \ {Max(S)}] = g[S \ {Max(S)}]
        BY <4>4
      <4>6. QED
        BY <4>2, <4>3, <4>5
    <3>4. QED
      BY <3>2, <3>3
  <2> HIDE DEF h, Follows
  <2>5. QED
    BY <2>3, <2>4
<1> HIDE DEF T, Exists
<1>3. n \in T
  BY <1>1, <1>2, Induction
<1>e. Exists(n)
  BY <1>3 DEF T
<1>4. PICK g \in [SUBSET (1..n) -> St] : \A S \in SUBSET (1..n) : Follows(g, S)
  BY <1>e DEF Exists
<1>5. g = [S \in SUBSET (1..n) |-> g[S]]
  BY <1>4
<1>6. g = [S \in SUBSET (1..n) |->
              IF S = {} THEN base ELSE step[<<g[S \ {Max(S)}], Max(S)>>]]
  BY <1>4, <1>5
<1>7. QED
  BY <1>6 DEF IsFold

\* What holds at first and is kept by every step holds to the end.
LEMMA StaysIn ==
    ASSUME NEW n \in Nat, NEW f, NEW St, f[0] \in St,
           \A k \in 1..n : f[k - 1] \in St => f[k] \in St
    PROVE  \A k \in 0..n : f[k] \in St
<1> DEFINE T == {k \in 0..n : f[k] \in St}
<1>1. 0 \in T
  OBVIOUS
<1>2. ASSUME NEW k \in 0..(n - 1), k \in T PROVE k + 1 \in T
  <2>1. k + 1 \in 1..n /\ (k + 1) - 1 = k
    OBVIOUS
  <2>2. f[k + 1] \in St
    BY <1>2, <2>1
  <2>3. QED
    BY <2>1, <2>2
<1> HIDE DEF T
<1>3. \A k \in 0..n : k \in T
  BY <1>1, <1>2, InductionUpTo
<1>4. QED
  BY <1>3 DEF T

\* The values of such a function on the first positions follow from one another.
Folds(it, n, St, base, step) ==
    /\ it[{}] = base
    /\ \A P \in SUBSET (1..n) : P # {} /\ it[P \ {Max(P)}] \in St =>
          it[P] = step[<<it[P \ {Max(P)}], Max(P)>>]

Follow(results, n, base, step, last) ==
    /\ results[0] = base /\ results[n] = last
    /\ \A k \in 1..n : results[k] = step[<<results[k - 1], k>>]

\* A fold goes through the elements in their order.
LEMMA FoldRuns ==
    ASSUME NEW n \in Nat, NEW St, NEW base \in St, NEW step \in [St \X (1..n) -> St],
           NEW it, Folds(it, n, St, base, step)
    PROVE  \E results \in [0..n -> St] : Follow(results, n, base, step, it[1..n])
<1> DEFINE results == [k \in 0..n |-> it[1..k]]
<1>1. \A k \in 0..n : results[k] = it[1..k]
  OBVIOUS
<1>2. 0 \in 0..n /\ n \in 0..n /\ 1..0 = {}
  OBVIOUS
<1>3. results[0] = base /\ results[n] = it[1..n]
  BY <1>1, <1>2 DEF Folds
<1>4. ASSUME NEW k \in 1..n, results[k - 1] \in St
      PROVE  results[k] = step[<<results[k - 1], k>>]
  <2>1. 1..k \in SUBSET (1..n) /\ 1..k # {} /\ k \in 0..n /\ k - 1 \in 0..n
    OBVIOUS
  <2>2. Max(1..k) = k /\ (1..k) \ {k} = 1..(k - 1)
    BY MaxOfInterval
  <2> HIDE DEF results
  <2>3. it[(1..k) \ {Max(1..k)}] = results[k - 1]
    BY <1>1, <2>1, <2>2
  <2>4. it[1..k] = step[<<it[(1..k) \ {Max(1..k)}], Max(1..k)>>]
    BY <1>4, <2>1, <2>3 DEF Folds
  <2>5. QED
    BY <1>1, <2>1, <2>2, <2>3, <2>4
<1> HIDE DEF results
<1>5. \A k \in 1..n : results[k - 1] \in St => results[k] \in St
  BY <1>4
<1>6. \A k \in 0..n : results[k] \in St
  BY <1>3, <1>5, StaysIn
<1>7. results \in [0..n -> St]
  BY <1>6 DEF results
<1>8. \A k \in 1..n : results[k] = step[<<results[k - 1], k>>]
  <2>1. \A k \in 1..n : k - 1 \in 0..n
    OBVIOUS
  <2>2. QED
    BY <1>4, <1>6, <2>1
<1>9. QED
  BY <1>3, <1>7, <1>8 DEF Follow

-----------------------------------------------------------------------------
(* The methods of arrays *)

\* filter goes from element to element: results[k] is what it keeps of the first k.
Keeps(results, A, s, S) ==
    /\ results \in [0..Len(s) -> Seq(A)]
    /\ results[0] = <<>> /\ results[Len(s)] = Kept(s, S)
    /\ \A k \in 1..Len(s) : results[k] = IF s[k] \in S THEN Append(results[k - 1], s[k]) ELSE results[k - 1]

\* filter, element by element.
LEMMA KeptSteps ==
    ASSUME NEW A, NEW s \in Seq(A), NEW S
    PROVE  \E results : Keeps(results, A, s, S)
<1> DEFINE n == Len(s)
           States == Seq(A)
           Keep(x, e) == IF e \in S THEN Append(x, e) ELSE x
           it == CHOOSE g : g = [P \in SUBSET (DOMAIN s) |->
                                    IF P = {} THEN <<>> ELSE Keep(g[P \ {Max(P)}], s[Max(P)])]
           step == [q \in States \X (1..n) |-> Keep(q[1], s[q[2]])]
<1>1. n \in Nat /\ DOMAIN s = 1..n /\ \A k \in 1..n : s[k] \in A
  OBVIOUS
<1>2. Kept(s, S) = it[DOMAIN s]
  BY Zenon DEF Kept, FoldLeft, MapThenFoldSet
<1>3. \A x \in States, k \in 1..n : Keep(x, s[k]) \in States
  BY <1>1
<1>4. <<>> \in States
  OBVIOUS
<1> HIDE DEF n, States, Keep, it
<1>5. /\ step \in [States \X (1..n) -> States]
      /\ \A x \in States, k \in 1..n : step[<<x, k>>] = Keep(x, s[k])
  BY <1>3
<1> HIDE DEF step
<1>6. PICK g \in [SUBSET (1..n) -> States] : IsFold(g, n, <<>>, step)
  BY <1>1, <1>4, <1>5, FoldExists
<1>7. \A P \in SUBSET (1..n) : P # {} => Max(P) \in 1..n /\ g[P \ {Max(P)}] \in States
  BY <1>1, MaxOfPositions
<1>8. g = [P \in SUBSET (DOMAIN s) |-> IF P = {} THEN <<>> ELSE Keep(g[P \ {Max(P)}], s[Max(P)])]
  BY <1>1, <1>5, <1>6, <1>7 DEF IsFold
<1>9. it = [P \in SUBSET (DOMAIN s) |-> IF P = {} THEN <<>> ELSE Keep(it[P \ {Max(P)}], s[Max(P)])]
  BY <1>8, Zenon DEF it
<1>10. Folds(it, n, States, <<>>, step)
  <2>1. it[{}] = <<>>
    BY <1>9
  <2>2. \A P \in SUBSET (1..n) : P # {} => it[P] = Keep(it[P \ {Max(P)}], s[Max(P)])
    BY <1>1, <1>9
  <2>3. QED
    BY <1>5, <1>7, <2>1, <2>2 DEF Folds
<1>11. PICK results \in [0..n -> States] : Follow(results, n, <<>>, step, it[1..n])
  BY <1>1, <1>4, <1>5, <1>10, FoldRuns
<1>12. ASSUME NEW k \in 1..n PROVE results[k] = Keep(results[k - 1], s[k])
  <2>1. results[k - 1] \in States
    BY <1>1
  <2>2. QED
    BY <1>5, <1>11, <2>1 DEF Follow
<1>13. results[0] = <<>> /\ results[n] = Kept(s, S)
  BY <1>1, <1>2, <1>11 DEF Follow
<1>14. Keeps(results, A, s, S)
  BY <1>12, <1>13 DEF n, Keep, States, Keeps
<1>15. QED
  BY <1>14

\* Where the elements come from: positions in the same order, all those of an element of S.
Picks(at, kept, s, k, S) ==
    /\ at \in [1..Len(kept) -> 1..k]
    /\ \A i \in 1..Len(kept) : kept[i] = s[at[i]] /\ s[at[i]] \in S
    /\ \A i, j \in 1..Len(kept) : i < j => at[i] < at[j]
    /\ \A m \in 1..k : s[m] \in S => \E i \in 1..Len(kept) : at[i] = m

\* One more element is taken or left out.
LEMMA PicksNext ==
    ASSUME NEW A, NEW s \in Seq(A), NEW S, NEW k \in 1..Len(s), NEW kept \in Seq(A), NEW at,
           Picks(at, kept, s, k - 1, S)
    PROVE  \E next : Picks(next, IF s[k] \in S THEN Append(kept, s[k]) ELSE kept, s, k, S)
<1>1. at \in [1..Len(kept) -> 1..(k - 1)] /\ Len(kept) \in Nat /\ k \in Nat \ {0} /\ s[k] \in A
  BY DEF Picks
<1>2. CASE s[k] \notin S
  <2>1. at \in [1..Len(kept) -> 1..k]
    BY <1>1
  <2>2. Picks(at, kept, s, k, S)
    BY <1>1, <1>2, <2>1 DEF Picks
  <2>3. QED
    BY <1>2, <2>2
<1>3. CASE s[k] \in S
  <2> DEFINE n == Len(kept)
             longer == Append(kept, s[k])
             next == [i \in 1..(n + 1) |-> IF i <= n THEN at[i] ELSE k]
  <2>1. Len(longer) = n + 1 /\ longer[n + 1] = s[k] /\ \A i \in 1..n : longer[i] = kept[i]
    BY <1>1
  <2>2. next[n + 1] = k /\ \A i \in 1..n : next[i] = at[i]
    BY <1>1
  <2>3. \A i \in 1..(n + 1) : i \in 1..n \/ i = n + 1
    BY <1>1
  <2>4. next \in [1..(n + 1) -> 1..k]
    BY <1>1
  <2>p. /\ \A i \in 1..n : kept[i] = s[at[i]] /\ s[at[i]] \in S /\ at[i] \in 1..(k - 1)
        /\ \A i, j \in 1..n : i < j => at[i] < at[j]
        /\ \A m \in 1..(k - 1) : s[m] \in S => \E i \in 1..n : at[i] = m
    BY <1>1 DEF Picks
  <2> HIDE DEF longer, next
  <2>5. \A i \in 1..(n + 1) : longer[i] = s[next[i]] /\ s[next[i]] \in S
    BY <1>3, <2>p, <2>1, <2>2, <2>3
  <2>6. ASSUME NEW i \in 1..(n + 1), NEW j \in 1..(n + 1), i < j PROVE next[i] < next[j]
    <3>1. i \in 1..n
      BY <1>1, <2>6
    <3>2. next[i] = at[i] /\ at[i] < k
      BY <1>1, <2>2, <2>p, <3>1
    <3>3. CASE j = n + 1
      BY <2>2, <3>2, <3>3
    <3>4. CASE j \in 1..n
      BY <2>2, <2>6, <2>p, <3>1, <3>4
    <3>5. QED
      BY <2>3, <3>3, <3>4
  <2>7. ASSUME NEW m \in 1..k, s[m] \in S PROVE \E i \in 1..(n + 1) : next[i] = m
    <3>1. CASE m = k
      BY <1>1, <2>2, <3>1
    <3>2. CASE m # k
      <4>1. m \in 1..(k - 1)
        BY <1>1, <3>2
      <4>2. PICK i \in 1..n : at[i] = m
        BY <2>7, <2>p, <4>1
      <4>3. i \in 1..(n + 1) /\ next[i] = m
        BY <1>1, <2>2, <4>2
      <4>4. QED
        BY <4>3
    <3>3. QED
      BY <3>1, <3>2
  <2>8. Picks(next, longer, s, k, S)
    BY <2>1, <2>4, <2>5, <2>6, <2>7 DEF Picks
  <2>9. QED
    BY <1>3, <2>8 DEF longer
<1>4. QED
  BY <1>2, <1>3

\* What filter returns.
LEMMA KeptPicks ==
    ASSUME NEW A, NEW s \in Seq(A), NEW S
    PROVE  Kept(s, S) \in Seq(A) /\ \E at : Picks(at, Kept(s, S), s, Len(s), S)
<1>p. PICK results : Keeps(results, A, s, S)
  BY KeptSteps
<1>1. /\ results \in [0..Len(s) -> Seq(A)]
      /\ results[0] = <<>> /\ results[Len(s)] = Kept(s, S)
      /\ \A k \in 1..Len(s) :
            results[k] = IF s[k] \in S THEN Append(results[k - 1], s[k]) ELSE results[k - 1]
  BY <1>p DEF Keeps
<1> DEFINE Has(k) == \E at : Picks(at, results[k], s, k, S)
           T == {k \in Nat : Has(k)}
<1>2. 0 \in T
  <2>1. results[0] = <<>> /\ Len(<<>>) = 0 /\ 1..0 = {}
    BY <1>1
  <2>2. Picks([i \in 1..0 |-> 1], results[0], s, 0, S)
    BY <2>1 DEF Picks
  <2>3. Has(0)
    BY <2>2
  <2> HIDE DEF Has
  <2>4. QED
    BY <2>3
<1>3. ASSUME NEW k \in 0..(Len(s) - 1), k \in T PROVE k + 1 \in T
  <2>1. Has(k) /\ k + 1 \in 1..Len(s) /\ (k + 1) - 1 = k /\ results[k] \in Seq(A)
    BY <1>1, <1>3
  <2>2. PICK at : Picks(at, results[k], s, k, S)
    BY <2>1
  <2>a. Picks(at, results[k], s, (k + 1) - 1, S)
    BY <2>1, <2>2
  <2>3. \E next : Picks(next, IF s[k + 1] \in S THEN Append(results[k], s[k + 1]) ELSE results[k], s, k + 1, S)
    BY <2>1, <2>a, PicksNext
  <2>4. results[k + 1] = IF s[k + 1] \in S THEN Append(results[k], s[k + 1]) ELSE results[k]
    BY <1>1, <2>1
  <2>5. Has(k + 1)
    BY <2>3, <2>4
  <2> HIDE DEF Has
  <2>6. QED
    BY <2>1, <2>5
<1> HIDE DEF T
<1>4. \A k \in 0..Len(s) : k \in T
  <2>1. Len(s) \in Nat
    OBVIOUS
  <2>2. QED
    BY <1>2, <1>3, <2>1, InductionUpTo
<1>5. Has(Len(s))
  BY <1>4 DEF T
<1>6. QED
  BY <1>1, <1>5

\* A function on numbers that is defined by recursion exists as well.
LEMMA RunExists ==
    ASSUME NEW n \in Nat, NEW St, NEW base \in St, NEW step \in [St \X (1..n) -> St]
    PROVE  \E f \in [0..n -> St] : Follow(f, n, base, step, f[n])
<1>1. PICK g \in [SUBSET (1..n) -> St] : IsFold(g, n, base, step)
  BY FoldExists
<1>2. Folds(g, n, St, base, step)
  BY <1>1 DEF IsFold, Folds
<1>3. PICK f \in [0..n -> St] : Follow(f, n, base, step, g[1..n])
  BY <1>2, FoldRuns
<1>4. Follow(f, n, base, step, f[n])
  BY <1>3 DEF Follow
<1>5. QED
  BY <1>4

\* flat: the elements of all the sequences.
LEMMA FlattenSeqElements ==
    ASSUME NEW A, NEW seqs \in Seq(Seq(A))
    PROVE  /\ FlattenSeq(seqs) \in Seq(A)
           /\ \A a : (\E k \in DOMAIN FlattenSeq(seqs) : FlattenSeq(seqs)[k] = a)
                        <=> \E i \in DOMAIN seqs : \E k \in DOMAIN seqs[i] : seqs[i][k] = a
<1> DEFINE n == Len(seqs)
           it == CHOOSE g : g = [i \in 1..Len(seqs) |-> IF i = 1 THEN seqs[i] ELSE g[i - 1] \o seqs[i]]
           step == [q \in Seq(A) \X (1..n) |-> q[1] \o seqs[q[2]]]
           Holds(t, a) == \E k \in DOMAIN t : t[k] = a
<1>1. n \in Nat /\ DOMAIN seqs = 1..n /\ \A i \in 1..n : seqs[i] \in Seq(A)
  OBVIOUS
<1>2. FlattenSeq(seqs) = IF n = 0 THEN seqs ELSE it[n]
  BY Zenon DEF FlattenSeq
<1>3. step \in [Seq(A) \X (1..n) -> Seq(A)] /\ \A x \in Seq(A), i \in 1..n : step[<<x, i>>] = x \o seqs[i]
  BY <1>1, ConcatProperties
<1>4. <<>> \in Seq(A)
  OBVIOUS
<1> HIDE DEF n, it, step
<1>p. PICK f \in [0..n -> Seq(A)] : Follow(f, n, <<>>, step, f[n])
  BY <1>1, <1>3, <1>4, RunExists
<1>5. f[0] = <<>> /\ \A k \in 1..n : f[k] = step[<<f[k - 1], k>>]
  BY <1>p DEF Follow
<1>6. ASSUME NEW k \in 1..n PROVE f[k] = f[k - 1] \o seqs[k] /\ f[k - 1] \in Seq(A) /\ f[k] \in Seq(A)
  <2>1. f[k - 1] \in Seq(A) /\ f[k] \in Seq(A)
    BY <1>1
  <2>2. QED
    BY <1>3, <1>5, <2>1
<1>7. CASE n = 0
  BY <1>1, <1>2, <1>7 DEF n
<1>8. CASE n # 0
  <2> DEFINE g == [i \in 1..n |-> f[i]]
  <2>1. g = [i \in 1..n |-> IF i = 1 THEN seqs[i] ELSE g[i - 1] \o seqs[i]]
    <3>1. ASSUME NEW i \in 1..n PROVE g[i] = IF i = 1 THEN seqs[i] ELSE g[i - 1] \o seqs[i]
      <4>1. CASE i = 1
        <5>1. f[0] = <<>> /\ i - 1 = 0 /\ seqs[i] \in Seq(A)
          BY <1>1, <1>5, <4>1
        <5>2. f[i] = <<>> \o seqs[i]
          BY <1>6, <5>1
        <5>3. f[i] = seqs[i]
          BY <5>1, <5>2, ConcatEmptySeq
        <5>4. QED
          BY <4>1, <5>3
      <4>2. CASE i # 1
        <5>1. i - 1 \in 1..n
          BY <1>1, <4>2
        <5>2. g[i - 1] = f[i - 1] /\ g[i] = f[i]
          BY <5>1
        <5>3. QED
          BY <1>6, <4>2, <5>2
      <4>3. QED
        BY <4>1, <4>2
    <3>2. QED
      BY <3>1
  <2>2. g = [i \in 1..Len(seqs) |-> IF i = 1 THEN seqs[i] ELSE g[i - 1] \o seqs[i]]
    BY <2>1 DEF n
  <2> HIDE DEF g
  <2>3. it = [i \in 1..Len(seqs) |-> IF i = 1 THEN seqs[i] ELSE it[i - 1] \o seqs[i]]
    BY <2>2, Zenon DEF it
  <2>4. \A i \in 1..n : it[i] = IF i = 1 THEN seqs[i] ELSE it[i - 1] \o seqs[i]
    BY <2>3 DEF n
  <2> DEFINE Known(k) == k = 0 \/ (it[k] = f[k] /\ \A a : Holds(f[k], a) <=> \E i \in 1..k : Holds(seqs[i], a))
             T == {k \in Nat : Known(k)}
  <2>5. 0 \in T
    OBVIOUS
  <2>6. ASSUME NEW k \in 0..(n - 1), k \in T PROVE k + 1 \in T
    <3>1. k + 1 \in 1..n /\ (k + 1) - 1 = k /\ k \in Nat
      BY <1>1, <2>6
    <3>2. f[k + 1] = f[k] \o seqs[k + 1] /\ f[k] \in Seq(A) /\ seqs[k + 1] \in Seq(A)
      BY <1>1, <1>6, <3>1
    <3>3. it[k + 1] = f[k + 1]
      <4>1. CASE k = 0
        <5>1. it[k + 1] = seqs[k + 1]
          BY <2>4, <3>1, <4>1
        <5>2. f[k + 1] = <<>> \o seqs[k + 1]
          BY <1>5, <3>2, <4>1
        <5>3. QED
          BY <3>2, <5>1, <5>2, ConcatEmptySeq
      <4>2. CASE k # 0
        <5>1. it[k] = f[k]
          BY <2>6, <4>2
        <5>2. it[k + 1] = it[(k + 1) - 1] \o seqs[k + 1]
          <6>1. k + 1 # 1
            BY <3>1, <4>2
          <6>2. QED
            BY <2>4, <3>1, <6>1
        <5>3. QED
          BY <3>1, <3>2, <5>1, <5>2
      <4>3. QED
        BY <4>1, <4>2
    <3>4. ASSUME NEW a PROVE Holds(f[k + 1], a) <=> Holds(f[k], a) \/ Holds(seqs[k + 1], a)
      <4> DEFINE s == f[k]
                 t == seqs[k + 1]
      <4>1. /\ s \in Seq(A) /\ t \in Seq(A) /\ s \o t \in Seq(A) /\ f[k + 1] = s \o t
            /\ Len(s \o t) = Len(s) + Len(t)
            /\ \A i \in 1 .. Len(s) + Len(t) : (s \o t)[i] = IF i <= Len(s) THEN s[i] ELSE t[i - Len(s)]
        BY <3>2, ConcatProperties
      <4> HIDE DEF s, t
      <4>2. ASSUME NEW i \in 1..Len(s), s[i] = a PROVE \E j \in 1..(Len(s) + Len(t)) : (s \o t)[j] = a
        <5>1. i \in 1..(Len(s) + Len(t)) /\ (s \o t)[i] = a
          BY <4>1, <4>2
        <5>2. QED
          BY <5>1
      <4>3. ASSUME NEW i \in 1..Len(t), t[i] = a PROVE \E j \in 1..(Len(s) + Len(t)) : (s \o t)[j] = a
        <5>1. Len(s) + i \in 1..(Len(s) + Len(t)) /\ ~(Len(s) + i <= Len(s)) /\ (Len(s) + i) - Len(s) = i
          BY <4>1
        <5>2. (s \o t)[Len(s) + i] = a
          BY <4>1, <4>3, <5>1
        <5>3. QED
          BY <5>1, <5>2
      <4>4. ASSUME NEW i \in 1..(Len(s) + Len(t)), (s \o t)[i] = a
            PROVE  (\E j \in 1..Len(s) : s[j] = a) \/ \E j \in 1..Len(t) : t[j] = a
        <5>1. CASE i <= Len(s)
          BY <4>1, <4>4, <5>1
        <5>2. CASE ~(i <= Len(s))
          <6>1. i - Len(s) \in 1..Len(t)
            BY <4>1, <5>2
          <6>2. QED
            BY <4>1, <4>4, <5>2, <6>1
        <5>3. QED
          BY <5>1, <5>2
      <4>5. DOMAIN s = 1..Len(s) /\ DOMAIN t = 1..Len(t) /\ DOMAIN (s \o t) = 1..(Len(s) + Len(t))
        BY <4>1
      <4>6. Holds(s \o t, a) <=> Holds(s, a) \/ Holds(t, a)
        BY <4>2, <4>3, <4>4, <4>5
      <4>7. QED
        BY <4>1, <4>6 DEF s, t
    <3>5. ASSUME NEW a PROVE Holds(f[k], a) <=> \E i \in 1..k : Holds(seqs[i], a)
      <4>1. CASE k = 0
        BY <1>5, <4>1
      <4>2. CASE k # 0
        BY <2>6, <4>2
      <4>3. QED
        BY <4>1, <4>2
    <3> HIDE DEF Holds
    <3>6. \A i \in 1..(k + 1) : i \in 1..k \/ i = k + 1
      BY <3>1
    <3>7. k + 1 \in 1..(k + 1) /\ \A i \in 1..k : i \in 1..(k + 1)
      BY <3>1
    <3>8. \A a : Holds(f[k + 1], a) <=> \E i \in 1..(k + 1) : Holds(seqs[i], a)
      BY <3>4, <3>5, <3>6, <3>7
    <3>9. QED
      BY <3>1, <3>3, <3>8
  <2> HIDE DEF T, Holds
  <2>7. n \in T
    <3>1. \A k \in 0..n : k \in T
      BY <1>1, <2>5, <2>6, InductionUpTo
    <3>2. QED
      BY <1>1, <3>1
  <2>8. it[n] = f[n] /\ f[n] \in Seq(A) /\ \A a : Holds(f[n], a) <=> \E i \in 1..n : Holds(seqs[i], a)
    BY <1>1, <1>8, <2>7 DEF T
  <2>9. QED
    BY <1>1, <1>2, <1>8, <2>8 DEF Holds
<1>9. QED
  BY <1>7, <1>8

\* slice(-n): the last elements.
LEMMA NewestElements ==
    ASSUME NEW A, NEW s \in Seq(A), NEW n \in Nat \ {0}
    PROVE  /\ Newest(s, n) \in Seq(A)
           /\ Len(Newest(s, n)) = IF Len(s) > n THEN n ELSE Len(s)
           /\ \A i \in 1..Len(Newest(s, n)) :
                 Newest(s, n)[i] = s[Len(s) - Len(Newest(s, n)) + i]
<1> DEFINE m == Len(s)
           first == IF m > n THEN m - n + 1 ELSE 1
           newest == SubSeq(s, first, m)
<1>1. m \in Nat /\ first \in Nat \ {0} /\ (m - first) + 1 = IF m > n THEN n ELSE m
  OBVIOUS
<1>2. \A i \in first..m : s[i] \in A
  OBVIOUS
<1> HIDE DEF first, m
<1>3. /\ newest \in Seq(A) /\ Len(newest) = IF first <= m THEN m - first + 1 ELSE 0
      /\ \A i \in 1..(m - first + 1) : newest[i] = s[first + i - 1]
  BY <1>1, <1>2, SubSeqProperties
<1>4. Len(newest) = IF m > n THEN n ELSE m
  BY <1>1, <1>3 DEF first
<1>5. Len(newest) = (m - first) + 1
  BY <1>1, <1>4
<1> HIDE DEF newest
<1>6. ASSUME NEW i \in 1..Len(newest) PROVE newest[i] = s[m - Len(newest) + i]
  <2>1. i \in 1..(m - first + 1) /\ first + i - 1 = m - Len(newest) + i
    BY <1>1, <1>5
  <2>2. QED
    BY <1>3, <2>1
<1>7. Newest(s, n) = newest
  BY DEF Newest, newest, first, m
<1>8. QED
  BY <1>3, <1>4, <1>6, <1>7 DEF m

-----------------------------------------------------------------------------
(* Levels of the host *)

\* Division undoes multiplication.
LEMMA QuotientOfProduct ==
    ASSUME NEW a \in Nat, NEW b \in Nat \ {0}
    PROVE  (a * b) \div b = a
<1>1. 0 <= a * b /\ a * b \in Nat
  OBVIOUS
<1>2. PICK q \in Int : q = (a * b) \div b
  OBVIOUS
<1>3. b * q <= a * b /\ a * b < b * (q + 1)
  BY <1>1, <1>2
<1>4. q = a
  BY <1>3
<1>5. QED
  BY <1>2, <1>4

\* The quotient of a number that is at most c times the divisor.
LEMMA QuotientBounds ==
    ASSUME NEW a \in Nat, NEW b \in Nat \ {0}, NEW c \in Nat, a <= c * b
    PROVE  a \div b \in 0..c
<1>2. PICK q \in Int : q = a \div b
  OBVIOUS
<1>3. b * q <= a /\ a < b * (q + 1)
  BY <1>2
<1>4. q <= c
  BY <1>3
<1>5. q >= 0
  BY <1>3
<1>6. QED
  BY <1>2, <1>4, <1>5

\* With any sample missing, the levels of the host are unknown or within their scale.
THEOREM LevelsAlwaysFitScale ==
    ASSUME NEW total \in Nat \cup {Null}, NEW available \in Nat \cup {Null},
           NEW cores \in Nat \cup {Null}, NEW ratio \in 0..100 \cup {Null},
           NEW logical \in Nat \cup {Null}
    PROVE  LevelsFitScale(total, available, cores, ratio, logical)
<1> USE DEF Null
<1>1. ASSUME available <= total PROVE Percent(total, available) \in 0..100 \cup {Null}
  <2> DEFINE free == Gibibytes(available)
  <2>1. CASE Gibibytes(total) > 0
    <3>1. free \in Nat /\ total \in Nat \ {0} /\ Gibibytes(total) = total /\ free <= total
      BY <1>1, <2>1 DEF Gibibytes
    <3> HIDE DEF free
    <3>2. (total - free) * 100 \in Nat /\ (total - free) * 100 <= 100 * total
      BY <3>1
    <3>3. ((total - free) * 100) \div total \in 0..100
      BY <3>1, <3>2, QuotientBounds
    <3>4. QED
      BY <2>1, <3>1, <3>3 DEF Percent, free
  <2>2. QED
    BY <2>1 DEF Percent
<1>2. ASSUME logical > 0, ratio # Null, cores = Null
      PROVE  CpuFill(cores, ratio, logical) = ratio
  <2>1. CpuCapacityPercent(logical) = logical * 100 /\ CpuCurrent(cores, ratio, logical) = ratio * logical
    BY <1>2 DEF CpuCapacityPercent, CpuCurrent
  <2>2. logical * 100 \in Nat \ {0} /\ ratio * logical \in Nat /\ ratio * logical # Null
    BY <1>2
  <2>3. (ratio * logical) * 100 = ratio * (logical * 100)
    BY <1>2
  <2>4. (ratio * (logical * 100)) \div (logical * 100) = ratio
    BY <1>2, <2>2, QuotientOfProduct
  <2>5. CpuFill(cores, ratio, logical) = ((ratio * logical) * 100) \div (logical * 100)
    BY <2>1, <2>2 DEF CpuFill
  <2>6. QED
    BY <2>3, <2>4, <2>5
<1>3. ASSUME cores <= 100 * logical PROVE CpuFill(cores, ratio, logical) \in 0..100 \cup {Null}
  <2>1. CASE logical > 0 /\ cores # Null
    <3>1. CpuCapacityPercent(logical) = logical * 100 /\ CpuCurrent(cores, ratio, logical) = cores
      BY <2>1 DEF CpuCapacityPercent, CpuCurrent
    <3>2. logical * 100 \in Nat \ {0} /\ cores * 100 \in Nat /\ cores * 100 <= 100 * (logical * 100)
      BY <1>3, <2>1
    <3>3. (cores * 100) \div (logical * 100) \in 0..100
      BY <3>2, QuotientBounds
    <3>4. CpuFill(cores, ratio, logical) = (cores * 100) \div (logical * 100)
      BY <2>1, <3>1, <3>2 DEF CpuFill
    <3>5. QED
      BY <3>3, <3>4
  <2>2. CASE logical > 0 /\ cores = Null /\ ratio # Null
    BY <1>2, <2>2
  <2>3. CASE logical > 0 /\ cores = Null /\ ratio = Null
    BY <2>3 DEF CpuFill, CpuCurrent
  <2>4. CASE ~(logical > 0)
    BY <2>4 DEF CpuFill, CpuCapacityPercent
  <2>5. QED
    BY <2>1, <2>2, <2>3, <2>4
<1>4. QED
  BY <1>1, <1>2, <1>3 DEF LevelsFitScale

-----------------------------------------------------------------------------
(* Answers of the MCP server *)

\* parseMCPEnvelope: whatever messages a response holds, and in any number, a tool call
\* returns text only if one of them answers this call with text.
THEOREM OnlyOwnAnswersAreUsed ==
    ASSUME NEW events \in Seq(Seq(Messages))
    PROVE  OwnAnswersOnly(events)
<1> DEFINE messages == FlattenSeq(events)
           matching == {m \in ToSet(messages) : Matches(m)}
           own == Kept(messages, matching)
           wanted == [id |-> "own", outcome |-> "text"]
<1>1. SUFFICES ASSUME CallTool(events) = "text"
               PROVE  \E i \in DOMAIN events : Contains(events[i], wanted)
  BY DEF OwnAnswersOnly
<1>2. messages \in Seq(Messages)
  BY FlattenSeqElements
<1>3. own \in Seq(Messages) /\ \E at : Picks(at, own, messages, Len(messages), matching)
  BY <1>2, KeptPicks
<1>4. ParseMCPEnvelope(events) = IF own = <<>> THEN NoMessage ELSE own[1]
  BY DEF ParseMCPEnvelope
<1>5. ParseMCPEnvelope(events).outcome = "text"
  BY <1>1 DEF CallTool, ToolText
<1>6. own # <<>> /\ ParseMCPEnvelope(events) = own[1]
  BY <1>4, <1>5 DEF NoMessage
<1> HIDE DEF own, messages, matching
<1>7. 1 \in 1..Len(own) /\ own[1] \in Messages
  BY <1>3, <1>6
<1>8. PICK at : Picks(at, own, messages, Len(messages), matching)
  BY <1>3
<1>9. own[1] = messages[at[1]] /\ messages[at[1]] \in matching /\ at[1] \in 1..Len(messages)
  BY <1>7, <1>8 DEF Picks
<1>10. own[1] = wanted
  BY <1>5, <1>6, <1>7, <1>9 DEF matching, Matches, Messages
<1> HIDE DEF wanted
<1>11. \E k \in DOMAIN messages : messages[k] = wanted
  <2>1. at[1] \in DOMAIN messages /\ messages[at[1]] = wanted
    BY <1>2, <1>9, <1>10
  <2>2. QED
    BY <2>1
<1>12. PICK i \in DOMAIN events : \E k \in DOMAIN events[i] : events[i][k] = wanted
  <2>1. \A a : (\E k \in DOMAIN FlattenSeq(events) : FlattenSeq(events)[k] = a)
                  <=> \E i \in DOMAIN events : \E k \in DOMAIN events[i] : events[i][k] = a
    BY FlattenSeqElements
  <2>2. \E k \in DOMAIN FlattenSeq(events) : FlattenSeq(events)[k] = wanted
    BY <1>11 DEF messages
  <2>3. QED
    BY <2>1, <2>2
<1>13. Contains(events[i], wanted)
  <2>1. events[i] \in Seq(Messages)
    OBVIOUS
  <2>2. QED
    BY <1>12, <2>1 DEF Contains
<1>14. QED
  BY <1>13

-----------------------------------------------------------------------------
(* The question and its history *)

\* TextLength adds up the texts: sums[k] is the sum of the first k with their separators.
Sums(results, s) ==
    /\ results \in [0..Len(s) -> Nat]
    /\ results[0] = 0 /\ results[Len(s)] = TextSum(s)
    /\ \A k \in 1..Len(s) : results[k] = results[k - 1] + s[k].text + 2

\* The sum of the texts, one after another.
LEMMA TextLengthSteps ==
    ASSUME NEW s \in Seq([turn : Nat, text : Nat])
    PROVE  \E results : Sums(results, s)
<1> DEFINE n == Len(s)
           States == Nat
           Add(x, e) == x + e.text + 2
           it == CHOOSE g : g = [P \in SUBSET (DOMAIN s) |->
                                    IF P = {} THEN 0 ELSE Add(g[P \ {Max(P)}], s[Max(P)])]
           step == [q \in States \X (1..n) |-> Add(q[1], s[q[2]])]
<1>1. n \in Nat /\ DOMAIN s = 1..n /\ \A k \in 1..n : s[k] \in [turn : Nat, text : Nat]
  BY ElementOfSeq, LenProperties
<1>2. TextSum(s) = it[DOMAIN s]
  BY Zenon DEF TextSum, FoldLeft, MapThenFoldSet
<1>3. \A x \in States, k \in 1..n : Add(x, s[k]) \in States
  BY <1>1
<1>4. 0 \in States
  OBVIOUS
<1> HIDE DEF n, States, Add, it
<1>5. /\ step \in [States \X (1..n) -> States]
      /\ \A x \in States, k \in 1..n : step[<<x, k>>] = Add(x, s[k])
  BY <1>3
<1> HIDE DEF step
<1>6. PICK g \in [SUBSET (1..n) -> States] : IsFold(g, n, 0, step)
  BY <1>1, <1>4, <1>5, FoldExists
<1>7. \A P \in SUBSET (1..n) : P # {} => Max(P) \in 1..n /\ g[P \ {Max(P)}] \in States
  BY <1>1, MaxOfPositions
<1>8. g = [P \in SUBSET (DOMAIN s) |-> IF P = {} THEN 0 ELSE Add(g[P \ {Max(P)}], s[Max(P)])]
  BY <1>1, <1>5, <1>6, <1>7 DEF IsFold
<1>9. it = [P \in SUBSET (DOMAIN s) |-> IF P = {} THEN 0 ELSE Add(it[P \ {Max(P)}], s[Max(P)])]
  BY <1>8, Zenon DEF it
<1>10. Folds(it, n, States, 0, step)
  <2>1. it[{}] = 0
    BY <1>9
  <2>2. \A P \in SUBSET (1..n) : P # {} => it[P] = Add(it[P \ {Max(P)}], s[Max(P)])
    BY <1>1, <1>9
  <2>3. QED
    BY <1>5, <1>7, <2>1, <2>2 DEF Folds
<1>11. PICK results \in [0..n -> States] : Follow(results, n, 0, step, it[1..n])
  BY <1>1, <1>4, <1>5, <1>10, FoldRuns
<1>12. ASSUME NEW k \in 1..n PROVE results[k] = Add(results[k - 1], s[k])
  <2>1. results[k - 1] \in States
    BY <1>1
  <2>2. QED
    BY <1>5, <1>11, <2>1 DEF Follow
<1>13. results[0] = 0 /\ results[n] = TextSum(s)
  BY <1>1, <1>2, <1>11 DEF Follow
<1>14. Sums(results, s)
  BY <1>12, <1>13 DEF n, Add, States, Sums
<1>15. QED
  BY <1>14

\* No text has no length.
LEMMA TextSumOfEmpty == TextSum(<<>>) = 0
<1>1. <<>> \in Seq([turn : Nat, text : Nat]) /\ Len(<<>>) = 0
  OBVIOUS
<1>2. PICK sums : Sums(sums, <<>>)
  BY <1>1, TextLengthSteps
<1>3. QED
  BY <1>1, <1>2 DEF Sums

\* A text that is put in front adds its length.
LEMMA TextSumInFront ==
    ASSUME NEW s \in Seq([turn : Nat, text : Nat]), NEW t \in [turn : Nat, text : Nat]
    PROVE  /\ <<t>> \o s \in Seq([turn : Nat, text : Nat])
           /\ TextSum(s) \in Nat
           /\ TextSum(<<t>> \o s) = TextSum(s) + t.text + 2
<1> DEFINE Selected == [turn : Nat, text : Nat]
           longer == <<t>> \o s
           n == Len(s)
<1>1. <<t>> \in Seq(Selected) /\ Len(<<t>>) = 1 /\ <<t>>[1] = t /\ s \in Seq(Selected)
  OBVIOUS
<1> HIDE DEF Selected
<1>2. /\ longer \in Seq(Selected) /\ Len(longer) = 1 + n
      /\ \A i \in 1..(1 + n) : longer[i] = IF i <= 1 THEN <<t>>[i] ELSE s[i - 1]
  BY <1>1, ConcatProperties
<1>3. n \in Nat /\ t.text \in Nat /\ \A i \in 1..n : s[i] \in Selected /\ s[i].text \in Nat
  <2>1. n \in Nat /\ \A i \in 1..n : s[i] \in Selected
    BY <1>1, ElementOfSeq, LenProperties
  <2>2. \A x \in Selected : x.text \in Nat
    BY DEF Selected
  <2>3. QED
    BY <2>1, <2>2
<1>4. longer[1] = t /\ \A k \in 1..n : longer[k + 1] = s[k]
  <2>1. 1 \in 1..(1 + n) /\ \A k \in 1..n : k + 1 \in 1..(1 + n) /\ ~(k + 1 <= 1) /\ (k + 1) - 1 = k
    BY <1>3
  <2>2. QED
    BY <1>1, <1>2, <2>1
<1> HIDE DEF longer, n
<1>5. PICK a : /\ a \in [0..n -> Nat] /\ a[0] = 0 /\ a[n] = TextSum(s)
               /\ \A k \in 1..n : a[k] = a[k - 1] + s[k].text + 2
  <2>1. PICK a : Sums(a, s)
    BY <1>1, TextLengthSteps DEF Selected
  <2>2. QED
    BY <2>1 DEF Sums, n
<1>6. PICK b : /\ b \in [0..(1 + n) -> Nat] /\ b[0] = 0 /\ b[1 + n] = TextSum(longer)
               /\ \A k \in 1..(1 + n) : b[k] = b[k - 1] + longer[k].text + 2
  <2>1. PICK b : Sums(b, longer)
    BY <1>2, TextLengthSteps DEF Selected
  <2>2. QED
    BY <1>2, <2>1 DEF Sums
<1> DEFINE T == {k \in Nat : b[k + 1] = a[k] + t.text + 2}
<1>7. 0 \in T
  <2>1. 1 \in 1..(1 + n) /\ 1 - 1 = 0 /\ 0 + 1 = 1
    BY <1>3
  <2>2. b[1] = b[0] + longer[1].text + 2
    BY <1>6, <2>1
  <2>3. b[0 + 1] = a[0] + t.text + 2
    BY <1>3, <1>4, <1>5, <1>6, <2>2
  <2>4. QED
    BY <2>3
<1>8. ASSUME NEW k \in 0..(n - 1), k \in T PROVE k + 1 \in T
  <2>1. /\ k + 1 \in 1..n /\ (k + 1) + 1 \in 1..(1 + n) /\ ((k + 1) + 1) - 1 = k + 1
        /\ (k + 1) - 1 = k /\ k \in Nat
    BY <1>3
  <2>2. a[k] \in Nat /\ s[k + 1].text \in Nat
    <3>1. k \in 0..n
      BY <1>3, <2>1
    <3>2. QED
      BY <1>3, <1>5, <2>1, <3>1
  <2>3. a[k + 1] = a[k] + s[k + 1].text + 2
    BY <1>5, <2>1
  <2>4. b[(k + 1) + 1] = b[k + 1] + longer[(k + 1) + 1].text + 2
    BY <1>6, <2>1
  <2>5. longer[(k + 1) + 1] = s[k + 1] /\ b[k + 1] = a[k] + t.text + 2
    BY <1>4, <1>8, <2>1
  <2>6. b[(k + 1) + 1] = a[k + 1] + t.text + 2
    <3>1. b[(k + 1) + 1] = (a[k] + t.text + 2) + s[k + 1].text + 2
      BY <2>4, <2>5
    <3>2. (a[k] + t.text + 2) + s[k + 1].text + 2 = (a[k] + s[k + 1].text + 2) + t.text + 2
      <4>1. \A x, y, z \in Nat : (x + y + 2) + z + 2 = (x + z + 2) + y + 2
        OBVIOUS
      <4>2. a[k] \in Nat /\ t.text \in Nat /\ s[k + 1].text \in Nat
        BY <1>3, <2>2
      <4>3. QED
        BY <4>1, <4>2
    <3>3. QED
      BY <2>3, <3>1, <3>2
  <2>7. QED
    BY <2>1, <2>6
<1> HIDE DEF T
<1>9. n \in T
  <2>1. \A k \in 0..n : k \in T
    BY <1>3, <1>7, <1>8, InductionUpTo
  <2>2. QED
    BY <1>3, <2>1
<1>10. b[n + 1] = a[n] + t.text + 2 /\ a[n] \in Nat /\ n + 1 = 1 + n
  BY <1>3, <1>5, <1>9 DEF T
<1>11. TextSum(longer) = TextSum(s) + t.text + 2 /\ TextSum(s) \in Nat
  BY <1>5, <1>6, <1>10
<1>12. QED
  BY <1>2, <1>11 DEF longer, Selected

-----------------------------------------------------------------------------

Turn == [role : {"user", "assistant"}, length : Nat]

Selected == [turn : Nat, text : Nat]

Progress == [used : Nat, over : BOOLEAN, selected : Seq(Selected)]

NoneSelected == [used |-> 0, over |-> FALSE, selected |-> <<>>]

\* What a turn adds: a text that is cut short exceeds its room by less than its length.
Adds(turn, i, label, remaining, state, next) ==
    /\ label \in {2, 4} /\ next \in Progress
    /\ state.over \/ remaining <= 0 =>
          next.over /\ next.used = state.used /\ next.selected = state.selected
    /\ ~(state.over \/ remaining <= 0) =>
          \E chars \in Nat :
             /\ ~next.over /\ next.used = state.used + chars + label + 3
             /\ next.selected = <<[turn |-> i, text |-> label + 1 + chars]>> \o state.selected
             /\ chars <= remaining \/ (chars >= 9 /\ chars <= remaining + 8)
             /\ turn.length > 0 => chars > 0

\* What the loop does with one turn.
LEMMA TakeAdds ==
    ASSUME NEW history \in Seq(Turn), NEW budget \in Nat, NEW state \in Progress, NEW i \in 1..Len(history),
           NEW label, label = LabelLength(history[i]),
           NEW remaining, remaining = budget - state.used - label - 4,
           NEW next, next = Take(history, budget, state, i)
    PROVE  Adds(history[i], i, label, remaining, state, next)
<1> DEFINE turn == history[i]
           limit == Smaller(remaining, RoleLimit(turn))
           content == Clipped(turn.length, limit)
<1>1. turn \in Turn
  BY ElementOfSeq
<1>2. label \in {2, 4} /\ label \in Nat /\ RoleLimit(turn) \in {3000, 6000} /\ turn.length \in Nat
  BY <1>1 DEF LabelLength, RoleLimit, Turn, turn
<1>3. state.used \in Nat /\ state.over \in BOOLEAN /\ state.selected \in Seq(Selected)
  BY DEF Progress
<1>4. next = IF state.over \/ remaining <= 0
             THEN [state EXCEPT !.over = TRUE]
             ELSE [state EXCEPT !.used = @ + content + label + 3,
                                !.selected = <<[turn |-> i, text |-> label + 1 + content]>> \o @]
  BY DEF Take
<1> HIDE DEF turn, limit, content
<1>5. CASE state.over \/ remaining <= 0
  <2>1. next = [state EXCEPT !.over = TRUE]
    BY <1>4, <1>5
  <2>2. next \in Progress /\ next.over /\ next.used = state.used /\ next.selected = state.selected
    BY <2>1 DEF Progress
  <2>3. QED
    BY <1>2, <1>5, <2>2 DEF turn, Adds
<1>6. CASE ~(state.over \/ remaining <= 0)
  <2>1. remaining \in Nat \ {0}
    BY <1>2, <1>3, <1>6
  <2>2. limit \in Nat \ {0} /\ limit <= remaining
    BY <1>2, <2>1 DEF limit, Smaller
  <2>3. PICK c \in Nat :
           /\ c = content
           /\ c <= remaining \/ (c >= 9 /\ c <= remaining + 8)
           /\ turn.length > 0 => c > 0
    <3>1. /\ content \in Nat
          /\ content <= remaining \/ (content >= 9 /\ content <= remaining + 8)
          /\ turn.length > 0 => content > 0
      BY <1>2, <2>1, <2>2 DEF content, Clipped, CutLength
    <3>2. QED
      BY <3>1
  <2> DEFINE t == [turn |-> i, text |-> label + 1 + c]
  <2>4. t \in Selected /\ <<t>> \in Seq(Selected)
    BY <1>2, <2>3 DEF Selected
  <2>5. <<t>> \o state.selected \in Seq(Selected)
    BY <1>3, <2>4, ConcatProperties
  <2>6. next = [state EXCEPT !.used = @ + c + label + 3, !.selected = <<t>> \o @]
    BY <1>4, <1>6, <2>3
  <2> HIDE DEF t
  <2>7. /\ next.over = state.over /\ next.used = state.used + c + label + 3
        /\ next.selected = <<t>> \o state.selected
    BY <2>6 DEF Progress
  <2>8. state.used + c + label + 3 \in Nat
    <3>1. PICK u \in Nat : u = state.used
      BY <1>3
    <3>2. u + c + label + 3 \in Nat
      BY <1>2
    <3>3. QED
      BY <3>1, <3>2
  <2>9. next \in Progress
    BY <2>5, <2>6, <2>8 DEF Progress
  <2>10. ~next.over
    BY <1>6, <2>7
  <2>11. /\ next.selected = <<[turn |-> i, text |-> label + 1 + c]>> \o state.selected
         /\ history[i].length > 0 => c > 0
    BY <2>3, <2>7 DEF turn, t
  <2>12. \E chars \in Nat :
            /\ ~next.over /\ next.used = state.used + chars + label + 3
            /\ next.selected = <<[turn |-> i, text |-> label + 1 + chars]>> \o state.selected
            /\ chars <= remaining \/ (chars >= 9 /\ chars <= remaining + 8)
            /\ history[i].length > 0 => chars > 0
    BY <2>3, <2>7, <2>10, <2>11
  <2>13. label \in {2, 4} /\ next \in Progress
    BY <1>2, <2>9
  <2>14. QED
    BY <1>6, <2>12, <2>13 DEF Adds
<1>7. QED
  BY <1>5, <1>6

Selecting(history, budget, order) ==
    FoldLeft(LAMBDA state, i : Take(history, budget, state, i), NoneSelected, order)

\* The loop of buildConversationQuestion: states[k] is what it has selected of the k newest.
Selects(results, history, budget, order) ==
    /\ results \in [0..Len(order) -> Progress]
    /\ results[0] = NoneSelected /\ results[Len(order)] = Selecting(history, budget, order)
    /\ \A k \in 1..Len(order) : results[k] = Take(history, budget, results[k - 1], order[k])

\* The loop over the turns, from the newest to the oldest.
LEMMA SelectionSteps ==
    ASSUME NEW history \in Seq(Turn), NEW budget \in Nat, NEW order, order = TurnOrder(Len(history))
    PROVE  \E results : Selects(results, history, budget, order)
<1> DEFINE n == Len(order)
           States == Progress
           Add(x, e) == Take(history, budget, x, e)
           it == CHOOSE g : g = [P \in SUBSET (DOMAIN order) |->
                                    IF P = {} THEN NoneSelected ELSE Add(g[P \ {Max(P)}], order[Max(P)])]
           step == [q \in States \X (1..n) |-> Add(q[1], order[q[2]])]
<1>1. n \in Nat /\ DOMAIN order = 1..n /\ \A k \in 1..n : order[k] \in 1..Len(history)
  BY DEF TurnOrder
<1>2. Selecting(history, budget, order) = it[DOMAIN order]
  BY Zenon DEF Selecting, FoldLeft, MapThenFoldSet
<1>3. \A x \in States, k \in 1..n : Add(x, order[k]) \in States
  BY <1>1, TakeAdds DEF Adds
<1>4. NoneSelected \in States
  BY EmptySeq DEF Progress, NoneSelected, Selected
<1> HIDE DEF n, States, Add, it
<1>5. /\ step \in [States \X (1..n) -> States]
      /\ \A x \in States, k \in 1..n : step[<<x, k>>] = Add(x, order[k])
  BY <1>3
<1> HIDE DEF step
<1>6. PICK g \in [SUBSET (1..n) -> States] : IsFold(g, n, NoneSelected, step)
  BY <1>1, <1>4, <1>5, FoldExists
<1>7. \A P \in SUBSET (1..n) : P # {} => Max(P) \in 1..n /\ g[P \ {Max(P)}] \in States
  BY <1>1, MaxOfPositions
<1>8. g = [P \in SUBSET (DOMAIN order) |-> IF P = {} THEN NoneSelected ELSE Add(g[P \ {Max(P)}], order[Max(P)])]
  BY <1>1, <1>5, <1>6, <1>7 DEF IsFold
<1>9. it = [P \in SUBSET (DOMAIN order) |-> IF P = {} THEN NoneSelected ELSE Add(it[P \ {Max(P)}], order[Max(P)])]
  BY <1>8, Zenon DEF it
<1>10. Folds(it, n, States, NoneSelected, step)
  <2>1. it[{}] = NoneSelected
    BY <1>9
  <2>2. \A P \in SUBSET (1..n) : P # {} => it[P] = Add(it[P \ {Max(P)}], order[Max(P)])
    BY <1>1, <1>9
  <2>3. QED
    BY <1>5, <1>7, <2>1, <2>2 DEF Folds
<1>11. PICK results \in [0..n -> States] : Follow(results, n, NoneSelected, step, it[1..n])
  BY <1>1, <1>4, <1>5, <1>10, FoldRuns
<1>12. ASSUME NEW k \in 1..n PROVE results[k] = Add(results[k - 1], order[k])
  <2>1. results[k - 1] \in States
    BY <1>1
  <2>2. QED
    BY <1>5, <1>11, <2>1 DEF Follow
<1>13. results[0] = NoneSelected /\ results[n] = Selecting(history, budget, order)
  BY <1>1, <1>2, <1>11 DEF Follow
<1>14. Selects(results, history, budget, order)
  BY <1>12, <1>13 DEF n, Add, States, Selects
<1>15. QED
  BY <1>14

\* What the loop keeps: the selected turns are the newest, "used" is the length of
\* their texts, and only a first text that is cut short takes it beyond the budget.
IsNewest(st, k, n, budget) ==
    LET s == st.selected
    IN /\ st \in Progress
       /\ Len(s) <= k
       /\ ~st.over => Len(s) = k
       /\ st.over \/ k > 0 => Len(s) > 0
       /\ \A j \in 1..Len(s) : s[j].turn = n - Len(s) + j
       /\ TextSum(s) = st.used
       /\ Len(s) > 0 => s[1].text > 0
       /\ st.used <= budget \/ (Len(s) > 0 /\ s[1].text >= 12 /\ st.used <= budget + 7)

\* One turn more leaves the selection an end of the conversation.
LEMMA TakeKeepsNewest ==
    ASSUME NEW history \in Seq(Turn), \A i \in 1..Len(history) : history[i].length > 0,
           NEW budget \in Nat, budget > 10, NEW k \in 0..(Len(history) - 1),
           NEW n, n = Len(history), NEW st, IsNewest(st, k, n, budget),
           NEW next, next = Take(history, budget, st, n - k)
    PROVE  IsNewest(next, k + 1, n, budget)
<1>1. /\ n \in Nat /\ k \in Nat /\ k < n /\ n - k \in 1..Len(history) /\ k + 1 > 0
      /\ history[n - k].length > 0
  <2>1. n \in Nat /\ k \in Nat /\ k < n /\ n - k \in 1..Len(history) /\ k + 1 > 0
    OBVIOUS
  <2>2. QED
    BY <2>1
<1>p. PICK i, s, label : i = n - k /\ s = st.selected /\ label = LabelLength(history[i])
  OBVIOUS
<1>q. PICK used, remaining : used = st.used /\ remaining = budget - used - label - 4
  OBVIOUS
<1>2. st \in Progress /\ s \in Seq(Selected) /\ Len(s) \in Nat /\ used \in Nat /\ st.over \in BOOLEAN
  BY <1>p, <1>q DEF IsNewest, Progress
<1>3. /\ label \in {2, 4} /\ next \in Progress
      /\ st.over \/ remaining <= 0 => next.over /\ next.used = used /\ next.selected = s
      /\ ~(st.over \/ remaining <= 0) =>
            \E chars \in Nat :
               /\ ~next.over /\ next.used = used + chars + label + 3
               /\ next.selected = <<[turn |-> i, text |-> label + 1 + chars]>> \o s
               /\ chars <= remaining \/ (chars >= 9 /\ chars <= remaining + 8)
               /\ history[i].length > 0 => chars > 0
  <2>1. /\ i \in 1..Len(history) /\ st \in Progress /\ label = LabelLength(history[i])
        /\ remaining = budget - st.used - label - 4 /\ next = Take(history, budget, st, i)
    BY <1>1, <1>2, <1>p, <1>q
  <2>2. Adds(history[i], i, label, remaining, st, next)
    BY <2>1, TakeAdds
  <2>3. QED
    BY <1>p, <1>q, <2>2 DEF Adds
<1>r. remaining \in Int /\ label \in Nat
  BY <1>2, <1>3, <1>q
<1>4. /\ Len(s) <= k /\ (~st.over => Len(s) = k)
      /\ st.over \/ k > 0 => Len(s) > 0
      /\ \A j \in 1..Len(s) : s[j].turn = n - Len(s) + j
      /\ TextSum(s) = used
      /\ Len(s) > 0 => s[1].text > 0
      /\ used <= budget \/ (Len(s) > 0 /\ s[1].text >= 12 /\ used <= budget + 7)
  BY <1>p, <1>q DEF IsNewest
<1>5. CASE st.over \/ remaining <= 0
  <2>1. next.over /\ next.used = used /\ next.selected = s
    BY <1>3, <1>5
  <2>2. Len(s) > 0
    <3>1. CASE st.over \/ k > 0
      BY <1>4, <3>1
    <3>2. CASE ~st.over /\ k = 0
      <4>1. s = <<>>
        BY <1>2, <1>4, <3>2
      <4>2. used = 0
        BY <1>4, <4>1, TextSumOfEmpty
      <4>3. remaining > 0
        BY <1>3, <1>q, <1>r, <4>2
      <4>4. QED
        BY <1>5, <1>r, <3>2, <4>3
    <3>3. QED
      BY <1>1, <3>1, <3>2
  <2>3. Len(s) <= k + 1
    BY <1>1, <1>2, <1>4
  <2>4. QED
    BY <1>3, <1>4, <2>1, <2>2, <2>3 DEF IsNewest
<1>6. CASE ~(st.over \/ remaining <= 0)
  <2>1. PICK chars \in Nat :
           /\ ~next.over /\ next.used = used + chars + label + 3
           /\ next.selected = <<[turn |-> i, text |-> label + 1 + chars]>> \o s
           /\ chars <= remaining \/ (chars >= 9 /\ chars <= remaining + 8)
           /\ history[i].length > 0 => chars > 0
    BY <1>3, <1>6
  <2>2. PICK t : t = [turn |-> i, text |-> label + 1 + chars]
    OBVIOUS
  <2>3. PICK longer : longer = <<t>> \o s
    OBVIOUS
  <2>4. /\ t \in Selected /\ t.turn = n - k /\ t.text = label + 1 + chars
        /\ t.text > 0 /\ next.selected = longer
    <3>1. t.turn = n - k /\ t.text = label + 1 + chars
      BY <1>p, <2>2
    <3>2. n - k \in Nat /\ label + 1 + chars \in Nat /\ label + 1 + chars > 0
      BY <1>1, <1>r
    <3>3. t \in Selected
      BY <1>p, <2>2, <3>2 DEF Selected
    <3>4. QED
      BY <2>1, <2>2, <2>3, <3>1, <3>2, <3>3
  <2>5. /\ <<t>> \in Seq(Selected) /\ Len(<<t>>) = 1 /\ <<t>>[1] = t
    BY <2>4
  <2>6. /\ longer \in Seq(Selected) /\ Len(longer) = 1 + Len(s)
        /\ \A j \in 1..(1 + Len(s)) : longer[j] = IF j <= 1 THEN <<t>>[j] ELSE s[j - 1]
    BY <1>2, <2>3, <2>5, ConcatProperties
  <2>7. longer[1] = t /\ \A j \in 2..(1 + Len(s)) : longer[j] = s[j - 1] /\ j - 1 \in 1..Len(s)
    <3>1. 1 \in 1..(1 + Len(s)) /\ \A j \in 2..(1 + Len(s)) :
             j \in 1..(1 + Len(s)) /\ ~(j <= 1) /\ j - 1 \in 1..Len(s)
      BY <1>2
    <3>2. QED
      BY <2>5, <2>6, <3>1
  <2>8. Len(s) = k
    BY <1>4, <1>6
  <2>9. TextSum(longer) = used + chars + label + 3
    <3>1. TextSum(longer) = TextSum(s) + t.text + 2
      BY <1>2, <2>3, <2>4, TextSumInFront DEF Selected
    <3>2. TextSum(longer) = used + (label + 1 + chars) + 2
      BY <1>4, <2>4, <3>1
    <3>3. QED
      BY <1>2, <1>3, <3>2
  <2>10. ASSUME NEW j \in 1..Len(longer) PROVE longer[j].turn = n - Len(longer) + j
    <3>1. CASE j = 1
      BY <1>1, <2>4, <2>6, <2>7, <2>8, <3>1
    <3>2. CASE j # 1
      <4>1. j \in 2..(1 + Len(s))
        BY <1>2, <2>6, <3>2
      <4>2. longer[j].turn = n - Len(s) + (j - 1)
        BY <1>4, <2>7, <4>1
      <4>3. QED
        BY <1>1, <2>6, <2>8, <4>1, <4>2
    <3>3. QED
      BY <3>1, <3>2
  <2>11. \/ next.used <= budget
         \/ longer[1].text >= 12 /\ next.used <= budget + 7
    <3>1. remaining = budget - used - label - 4 /\ next.used = used + chars + label + 3
      BY <1>q, <2>1
    <3>2. CASE chars <= remaining
      <4>1. used + chars + label + 3 <= budget
        BY <1>2, <1>r, <3>1, <3>2
      <4>2. QED
        BY <3>1, <4>1
    <3>3. CASE chars >= 9 /\ chars <= remaining + 8
      <4>1. used + chars + label + 3 <= budget + 7
        BY <1>2, <1>r, <3>1, <3>3
      <4>2. label + 1 + chars >= 12
        BY <1>3, <3>3
      <4>3. QED
        BY <2>4, <2>7, <3>1, <4>1, <4>2
    <3>4. QED
      BY <2>1, <3>2, <3>3
  <2>12. Len(longer) = k + 1 /\ Len(longer) > 0 /\ longer[1].text > 0
    BY <1>1, <2>4, <2>6, <2>7, <2>8
  <2>13. TextSum(longer) = next.used /\ next \in Progress /\ next.selected = longer
    BY <1>3, <2>1, <2>4, <2>9
  <2>14. Len(longer) <= k + 1
    BY <1>1, <2>12
  <2>15. QED
    BY <2>10, <2>11, <2>12, <2>13, <2>14 DEF IsNewest
<1>7. QED
  BY <1>5, <1>6

\* The turns that are sent are not blank.
LEMMA HistoryIsSent ==
    ASSUME NEW turns \in Seq(Turn)
    PROVE  History(turns) \in Seq(Turn) /\ \A i \in 1..Len(History(turns)) : History(turns)[i].length > 0
<1> DEFINE sent == {t \in ToSet(turns) : t.length > 0}
           kept == Kept(turns, sent)
<1> HIDE DEF sent
<1>1. kept \in Seq(Turn)
  BY KeptPicks
<1>2. PICK at : Picks(at, kept, turns, Len(turns), sent)
  BY KeptPicks
<1>3. \A i \in 1..Len(kept) : kept[i].length > 0
  BY <1>2 DEF Picks, sent
<1>4. History(turns) = Newest(kept, 6)
  BY DEF History, sent
<1> HIDE DEF kept
<1>5. /\ Newest(kept, 6) \in Seq(Turn)
      /\ Len(Newest(kept, 6)) = IF Len(kept) > 6 THEN 6 ELSE Len(kept)
      /\ \A i \in 1..Len(Newest(kept, 6)) : Newest(kept, 6)[i] = kept[Len(kept) - Len(Newest(kept, 6)) + i]
  <2>1. 6 \in Nat \ {0}
    OBVIOUS
  <2>2. QED
    BY <1>1, <2>1, NewestElements
<1>6. ASSUME NEW i \in 1..Len(Newest(kept, 6)) PROVE Newest(kept, 6)[i].length > 0
  <2>1. Len(kept) - Len(Newest(kept, 6)) + i \in 1..Len(kept)
    BY <1>1, <1>5
  <2>2. QED
    BY <1>3, <1>5, <2>1
<1>7. QED
  BY <1>4, <1>5, <1>6

\* The selection is an end of the conversation.
LEMMA SelectionIsNewest ==
    ASSUME NEW history \in Seq(Turn), \A i \in 1..Len(history) : history[i].length > 0,
           NEW budget \in Nat, budget > 10
    PROVE  \E st : IsNewest(st, Len(history), Len(history), budget) /\ Selection(history, budget) = st.selected
<1> DEFINE n == Len(history)
           order == TurnOrder(n)
<1>1. n \in Nat /\ order = [k \in 1..n |-> n + 1 - k] /\ Len(order) = n
  BY DEF TurnOrder
<1>p. PICK states : Selects(states, history, budget, order)
  BY SelectionSteps
<1>2. /\ states \in [0..Len(order) -> Progress]
      /\ states[0] = NoneSelected
      /\ states[Len(order)] = Selecting(history, budget, order)
      /\ \A k \in 1..Len(order) : states[k] = Take(history, budget, states[k - 1], order[k])
  BY <1>p DEF Selects
<1>3. Selection(history, budget) = states[n].selected
  BY <1>1, <1>2 DEF Selection, Selecting, NoneSelected
<1> DEFINE T == {k \in Nat : IsNewest(states[k], k, n, budget)}
<1>4. 0 \in T
  <2>1. states[0] = NoneSelected /\ states[0] \in Progress
    <3>1. 0 \in 0..Len(order)
      BY <1>1
    <3>2. QED
      BY <1>2, <3>1
  <2>2. NoneSelected.selected = <<>> /\ NoneSelected.used = 0 /\ NoneSelected.over = FALSE
    BY DEF NoneSelected
  <2>3. IsNewest(states[0], 0, n, budget)
    BY <1>1, <2>1, <2>2, TextSumOfEmpty DEF IsNewest
  <2>4. QED
    BY <2>3
<1> HIDE DEF order, n
<1>5. ASSUME NEW k \in 0..(n - 1), k \in T PROVE k + 1 \in T
  <2>1. k + 1 \in 1..n /\ (k + 1) - 1 = k /\ order[k + 1] = n - k /\ k \in Nat
    BY <1>1
  <2>2. states[k + 1] = Take(history, budget, states[k], n - k)
    BY <1>1, <1>2, <2>1
  <2>3. IsNewest(states[k + 1], k + 1, n, budget)
    BY <1>5, <2>2, TakeKeepsNewest DEF n
  <2>4. QED
    BY <2>1, <2>3
<1> HIDE DEF T
<1>6. n \in T
  <2>1. \A k \in 0..n : k \in T
    BY <1>1, <1>4, <1>5, InductionUpTo
  <2>2. QED
    BY <1>1, <2>1
<1>7. QED
  BY <1>3, <1>6 DEF T, n

\* A blank question is not sent, and the text area takes no more than 4000 characters.
QuestionLengths == 1..4000

\* buildConversationQuestion, for every conversation and every question that the text
\* area accepts: the request is within the limit, although a text that is cut exceeds
\* its own by the note, and the history in it is the end of the conversation.
THEOREM QuestionAlwaysFits ==
    ASSUME NEW turns \in Seq(Turn), NEW current \in QuestionLengths
    PROVE  QuestionWithinLimit(turns, current) /\ NewestTurnsAreSent(turns, current)
<1> DEFINE history == History(turns)
           n == Len(history)
           budget == IF MaxLength > PrefixLength + SuffixLength + current
                     THEN MaxLength - PrefixLength - SuffixLength - current ELSE 0
           selected == Selection(history, budget)
           question == BuildConversationQuestion(turns, current)
<1>1. history \in Seq(Turn) /\ \A i \in 1..n : history[i].length > 0
  BY HistoryIsSent
<1>2. /\ budget \in Nat /\ budget > 10 /\ current \in Nat
      /\ PrefixLength + budget + SuffixLength + current <= MaxLength
      /\ PrefixLength \in Nat /\ SuffixLength \in Nat /\ MaxLength \in Nat /\ current <= MaxLength
  BY DEF MaxLength, PrefixLength, SuffixLength, QuestionLengths
<1>3. question = IF history = <<>>
                 THEN [selected |-> <<>>, history |-> 0, length |-> Smaller(current, MaxLength)]
                 ELSE [selected |-> selected,
                       history |-> Bounded(TextLength(selected), budget),
                       length |-> PrefixLength + Bounded(TextLength(selected), budget) + SuffixLength + current]
  BY DEF BuildConversationQuestion
<1> HIDE DEF history, budget, selected, question
<1>4. CASE history = <<>>
  <2>1. question.length = current
    BY <1>2, <1>3, <1>4 DEF Smaller
  <2>2. QED
    BY <1>2, <1>4, <2>1 DEF QuestionWithinLimit, NewestTurnsAreSent, question, history
<1>5. CASE history # <<>>
  <2>1. PICK st : IsNewest(st, n, n, budget) /\ selected = st.selected
    BY <1>1, <1>2, SelectionIsNewest DEF selected
  <2>2. n \in Nat \ {0}
    BY <1>1, <1>5
  <2>3. /\ selected \in Seq(Selected) /\ Len(selected) \in Nat /\ Len(selected) > 0
        /\ \A j \in 1..Len(selected) : selected[j].turn = n - Len(selected) + j
        /\ TextSum(selected) = st.used /\ selected[1].text > 0
        /\ st.used <= budget \/ (selected[1].text >= 12 /\ st.used <= budget + 7)
        /\ st.used \in Nat /\ selected[1].text \in Nat
    <3>1. st \in Progress /\ selected \in Seq(Selected) /\ Len(selected) \in Nat /\ st.used \in Nat
      BY <2>1 DEF IsNewest, Progress
    <3>2. Len(selected) > 0
      BY <2>1, <2>2 DEF IsNewest
    <3>3. selected[1] \in Selected
      BY <3>1, <3>2, ElementOfSeq
    <3>4. QED
      <4>1. selected[1].text \in Nat
        BY <3>3 DEF Selected
      <4>2. /\ \A j \in 1..Len(selected) : selected[j].turn = n - Len(selected) + j
            /\ TextSum(selected) = st.used /\ (Len(selected) > 0 => selected[1].text > 0)
            /\ st.used <= budget \/ (Len(selected) > 0 /\ selected[1].text >= 12 /\ st.used <= budget + 7)
        <5>1. st.selected = selected /\ IsNewest(st, n, n, budget)
          BY <2>1
        <5>2. \A j \in 1..Len(st.selected) : st.selected[j].turn = n - Len(st.selected) + j
          BY <5>1 DEF IsNewest
        <5>3. TextSum(st.selected) = st.used
          BY <5>1 DEF IsNewest
        <5>4. Len(st.selected) > 0 => st.selected[1].text > 0
          BY <5>1 DEF IsNewest
        <5>5. st.used <= budget
                   \/ (Len(st.selected) > 0 /\ st.selected[1].text >= 12 /\ st.used <= budget + 7)
          BY <5>1 DEF IsNewest
        <5>6. QED
          BY <5>1, <5>2, <5>3, <5>4, <5>5
      <4>3. QED
        BY <3>1, <3>2, <4>1, <4>2
  <2>4. TextLength(selected) = st.used - 2
    <3>1. selected # <<>>
      BY <2>3
    <3>2. TextLength(selected) = TextSum(selected) - (IF selected = <<>> THEN 0 ELSE 2)
      BY DEF TextLength
    <3>3. QED
      BY <2>3, <3>1, <3>2
  <2>5. PICK sent : sent = Bounded(TextLength(selected), budget)
    OBVIOUS
  <2>6. sent \in Int /\ sent <= budget /\ TextLength(selected) - sent < selected[1].text
    <3>1. PICK used \in Nat, first \in Nat : used = st.used /\ first = selected[1].text
      BY <2>3
    <3>2. sent = IF used - 2 < budget THEN used - 2 ELSE budget
      BY <2>4, <2>5, <3>1 DEF Bounded, Smaller
    <3>3. first > 0 /\ (used <= budget \/ (first >= 12 /\ used <= budget + 7))
      BY <2>3, <3>1
    <3>4. sent \in Int /\ sent <= budget /\ (used - 2) - sent < first
      BY <1>2, <3>2, <3>3
    <3>5. QED
      BY <2>4, <3>1, <3>4
  <2>7. question = [selected |-> selected, history |-> sent,
                    length |-> PrefixLength + sent + SuffixLength + current]
    BY <1>3, <1>5, <2>5
  <2>8. question.length <= MaxLength
    <3>1. question.length = PrefixLength + sent + SuffixLength + current
      BY <2>7
    <3>2. PrefixLength + sent + SuffixLength + current <= MaxLength
      BY <1>2, <2>6
    <3>3. QED
      BY <3>1, <3>2
  <2>9. question.selected = selected /\ question.history = sent
    BY <2>7
  <2>10. selected # <<>> /\ selected[Len(selected)].turn = n
    <3>1. Len(selected) \in 1..Len(selected)
      BY <2>3
    <3>2. selected[Len(selected)].turn = n - Len(selected) + Len(selected)
      BY <2>3, <3>1
    <3>3. QED
      BY <2>2, <2>3, <3>2
  <2>11. \A k \in DOMAIN selected : selected[k].turn = n - Len(selected) + k
    BY <2>3
  <2>12. NewestTurnsAreSent(turns, current)
    BY <2>6, <2>9, <2>10, <2>11 DEF NewestTurnsAreSent, question, history
  <2>13. QED
    BY <2>8, <2>12 DEF QuestionWithinLimit, question
<1>6. QED
  BY <1>4, <1>5

-----------------------------------------------------------------------------
(* The list of traces *)

\* appendTrace returns a list of traces.
LEMMA AppendTraceType ==
    ASSUME NEW A, NEW items \in Seq(A), NEW t \in A, NEW n \in Nat \ {0}
    PROVE  AppendTrace(items, t, n) \in Seq(A)
<1>1. Append(items, t) \in Seq(A)
  OBVIOUS
<1>2. Newest(Append(items, t), n) \in Seq(A)
  BY <1>1, NewestElements
<1>3. QED
  BY <1>2 DEF AppendTrace

\* restoreConversation appends trace by trace: lists[k] is the list after the first k.
Restores(results, A, s, max) ==
    /\ results \in [0..Len(s) -> Seq(A)]
    /\ results[0] = <<>> /\ results[Len(s)] = AppendedTraces(s, max)
    /\ \A k \in 1..Len(s) : results[k] = AppendTrace(results[k - 1], s[k], max)

\* The traces are restored one by one.
LEMMA RestoreSteps ==
    ASSUME NEW A, NEW s \in Seq(A), NEW max \in Nat \ {0}
    PROVE  \E results : Restores(results, A, s, max)
<1> DEFINE n == Len(s)
           States == Seq(A)
           Add(x, e) == AppendTrace(x, e, max)
           it == CHOOSE g : g = [P \in SUBSET (DOMAIN s) |->
                                    IF P = {} THEN <<>> ELSE Add(g[P \ {Max(P)}], s[Max(P)])]
           step == [q \in States \X (1..n) |-> Add(q[1], s[q[2]])]
<1>1. n \in Nat /\ DOMAIN s = 1..n /\ \A k \in 1..n : s[k] \in A
  OBVIOUS
<1>2. AppendedTraces(s, max) = it[DOMAIN s]
  BY Zenon DEF AppendedTraces, FoldLeft, MapThenFoldSet
<1>3. \A x \in States, k \in 1..n : Add(x, s[k]) \in States
  BY <1>1, AppendTraceType
<1>4. <<>> \in States
  OBVIOUS
<1> HIDE DEF n, States, Add, it
<1>5. /\ step \in [States \X (1..n) -> States]
      /\ \A x \in States, k \in 1..n : step[<<x, k>>] = Add(x, s[k])
  BY <1>3
<1> HIDE DEF step
<1>6. PICK g \in [SUBSET (1..n) -> States] : IsFold(g, n, <<>>, step)
  BY <1>1, <1>4, <1>5, FoldExists
<1>7. \A P \in SUBSET (1..n) : P # {} => Max(P) \in 1..n /\ g[P \ {Max(P)}] \in States
  BY <1>1, MaxOfPositions
<1>8. g = [P \in SUBSET (DOMAIN s) |-> IF P = {} THEN <<>> ELSE Add(g[P \ {Max(P)}], s[Max(P)])]
  BY <1>1, <1>5, <1>6, <1>7 DEF IsFold
<1>9. it = [P \in SUBSET (DOMAIN s) |-> IF P = {} THEN <<>> ELSE Add(it[P \ {Max(P)}], s[Max(P)])]
  BY <1>8, Zenon DEF it
<1>10. Folds(it, n, States, <<>>, step)
  <2>1. it[{}] = <<>>
    BY <1>9
  <2>2. \A P \in SUBSET (1..n) : P # {} => it[P] = Add(it[P \ {Max(P)}], s[Max(P)])
    BY <1>1, <1>9
  <2>3. QED
    BY <1>5, <1>7, <2>1, <2>2 DEF Folds
<1>11. PICK results \in [0..n -> States] : Follow(results, n, <<>>, step, it[1..n])
  BY <1>1, <1>4, <1>5, <1>10, FoldRuns
<1>12. ASSUME NEW k \in 1..n PROVE results[k] = Add(results[k - 1], s[k])
  <2>1. results[k - 1] \in States
    BY <1>1
  <2>2. QED
    BY <1>5, <1>11, <2>1 DEF Follow
<1>13. results[0] = <<>> /\ results[n] = AppendedTraces(s, max)
  BY <1>1, <1>2, <1>11 DEF Follow
<1>14. Restores(results, A, s, max)
  BY <1>12, <1>13 DEF n, Add, States, Restores
<1>15. QED
  BY <1>14

\* What a list of traces never has: more than its limit, a repetition, two protocols.
Same(s, i, j) == s[i].type = s[j].type /\ s[i].detail = s[j].detail

IsCompact(s, n) ==
    /\ Len(s) <= n
    /\ \A i, j \in 1..Len(s) : i < j /\ Same(s, i, j) => j # i + 1 /\ s[i].type \notin OnceOnly

\* appendTrace keeps a list compact.
LEMMA AppendTraceIsCompact ==
    ASSUME NEW A, NEW s \in Seq(A), NEW t \in A, NEW n \in Nat \ {0}, IsCompact(s, n)
    PROVE  IsCompact(AppendTrace(s, t, n), n)
<1> DEFINE same(u) == u.type = t.type /\ u.detail = t.detail
           known == \E i \in DOMAIN s : same(s[i])
           repeated == s # <<>> /\ same(s[Len(s)])
           m == Len(s)
           longer == Append(s, t)
           next == Newest(longer, n)
<1>1. AppendTrace(s, t, n) = IF (t.type \in OnceOnly /\ known) \/ repeated THEN s ELSE next
  BY DEF AppendTrace
<1>2. CASE (t.type \in OnceOnly /\ known) \/ repeated
  BY <1>1, <1>2
<1>3. CASE ~((t.type \in OnceOnly /\ known) \/ repeated)
  <2>1. /\ m \in Nat /\ longer \in Seq(A) /\ Len(longer) = m + 1 /\ longer[m + 1] = t
        /\ \A i \in 1..m : longer[i] = s[i]
    OBVIOUS
  <2>2. \A i \in 1..m : t.type \in OnceOnly => ~same(s[i])
    BY <1>3
  <2>3. m > 0 => ~same(s[m])
    BY <1>3
  <2> HIDE DEF longer
  <2>4. /\ next \in Seq(A) /\ Len(next) = IF m + 1 > n THEN n ELSE m + 1
        /\ \A i \in 1..Len(next) : next[i] = longer[(m + 1) - Len(next) + i]
    BY <2>1, NewestElements
  <2> HIDE DEF next
  <2>p. PICK e \in Nat, d \in Nat : e = Len(next) /\ e <= n /\ d = (m + 1) - e
    BY <2>1, <2>4
  <2>q. \A i \in 1..e : d + i \in 1..(m + 1) /\ d + i = (m + 1) - e + i
    BY <2>1, <2>p
  <2>5. /\ d \in Nat /\ Len(next) \in Nat /\ Len(next) <= n /\ d + Len(next) = m + 1
        /\ \A i \in 1..Len(next) : next[i] = longer[d + i] /\ d + i \in 1..(m + 1)
    <3>1. d \in Nat /\ Len(next) \in Nat /\ Len(next) <= n /\ d + Len(next) = m + 1
      BY <2>1, <2>p
    <3>2. ASSUME NEW i \in 1..Len(next) PROVE next[i] = longer[d + i] /\ d + i \in 1..(m + 1)
      <4>1. d + i \in 1..(m + 1) /\ d + i = (m + 1) - Len(next) + i
        BY <2>p, <2>q
      <4>2. QED
        BY <2>4, <4>1
    <3>3. QED
      BY <3>1, <3>2
  <2>6. ASSUME NEW i \in 1..Len(next), NEW j \in 1..Len(next), i < j, Same(next, i, j)
        PROVE  j # i + 1 /\ next[i].type \notin OnceOnly
    <3>1. d + i \in 1..m /\ next[i] = s[d + i]
      <4>1. d + i \in 1..m
        BY <2>1, <2>5, <2>6
      <4>2. QED
        BY <2>1, <2>5, <4>1
    <3>2. CASE d + j <= m
      <4>1. d + j \in 1..m /\ next[j] = s[d + j] /\ d + i < d + j
        <5>1. d + j \in 1..m /\ d + i < d + j
          BY <2>1, <2>5, <2>6, <3>2
        <5>2. QED
          BY <2>1, <2>5, <5>1
      <4>2. Same(s, d + i, d + j)
        BY <2>6, <3>1, <4>1 DEF Same
      <4>3. d + j # (d + i) + 1 /\ s[d + i].type \notin OnceOnly
        BY <3>1, <4>1, <4>2 DEF IsCompact
      <4>4. j # i + 1
        BY <2>5, <4>3
      <4>5. QED
        BY <3>1, <4>3, <4>4
    <3>3. CASE d + j = m + 1
      <4>1. next[j] = t
        BY <2>1, <2>5, <3>3
      <4>2. same(s[d + i])
        BY <2>6, <3>1, <4>1 DEF Same
      <4>3. t.type \notin OnceOnly
        BY <2>2, <3>1, <4>2
      <4>4. d + i # m
        BY <2>1, <2>3, <3>1, <4>2
      <4>5. QED
        BY <2>5, <3>1, <3>3, <4>2, <4>3, <4>4
    <3>4. QED
      <4>1. d + j \in 1..(m + 1)
        BY <2>5
      <4>2. d + j <= m \/ d + j = m + 1
        BY <2>1, <4>1
      <4>3. QED
        BY <3>2, <3>3, <4>2
  <2>7. QED
    BY <1>1, <1>3, <2>5, <2>6 DEF IsCompact, longer, next
<1>4. QED
  BY <1>2, <1>3

\* A compact list that is appended trace by trace to nothing is the same list.
LEMMA CompactIsRestored ==
    ASSUME NEW A, NEW s \in Seq(A), NEW n \in Nat \ {0}, IsCompact(s, n)
    PROVE  RestoredTraces(s, n) = s
<1> DEFINE m == Len(s)
<1>1. m \in Nat /\ m <= n
  BY DEF IsCompact
<1>2. Newest(s, n) = s
  <2>1. Newest(s, n) = SubSeq(s, 1, m)
    <3>1. (IF Len(s) > n THEN Len(s) - n + 1 ELSE 1) = 1
      BY <1>1
    <3>2. QED
      BY <3>1 DEF Newest
  <2>2. QED
    BY <2>1, SubSeqFull
<1>p. PICK lists : Restores(lists, A, s, n)
  BY RestoreSteps
<1>3. /\ lists \in [0..Len(s) -> Seq(A)]
      /\ lists[0] = <<>>
      /\ lists[Len(s)] = AppendedTraces(s, n)
      /\ \A k \in 1..Len(s) : lists[k] = AppendTrace(lists[k - 1], s[k], n)
  BY <1>p DEF Restores
<1>4. RestoredTraces(s, n) = lists[m]
  BY <1>2, <1>3 DEF RestoredTraces
<1> DEFINE T == {k \in Nat : lists[k] = SubSeq(s, 1, k)}
<1>5. 0 \in T
  <2>1. SubSeq(s, 1, 0) = <<>>
    BY SubSeqEmpty
  <2>2. QED
    BY <1>3, <2>1
<1>6. ASSUME NEW k \in 0..(m - 1), k \in T PROVE k + 1 \in T
  <2> DEFINE current == lists[k]
             t == s[k + 1]
  <2>1. k \in Nat /\ k + 1 \in 1..m /\ (k + 1) - 1 = k /\ k + 1 <= n
    BY <1>1
  <2>2. current = SubSeq(s, 1, k) /\ lists[k + 1] = AppendTrace(current, t, n)
    BY <1>3, <1>6, <2>1
  <2>3. current \in Seq(A) /\ Len(current) = k /\ t \in A
    BY <1>1, <1>3, <2>1, <2>2
  <2>4. \A i \in 1..k : current[i] = s[i]
    BY <1>1, <2>1, <2>2
  <2>5. Append(current, t) = SubSeq(s, 1, k + 1)
    BY <1>1, <2>1, <2>2
  <2>6. \A i \in 1..k : Same(s, i, k + 1) => k + 1 # i + 1 /\ s[i].type \notin OnceOnly
    BY <1>1, <2>1 DEF IsCompact
  <2> HIDE DEF current, t
  <2>7. ~(t.type \in OnceOnly /\ \E i \in DOMAIN current : current[i].type = t.type /\ current[i].detail = t.detail)
    BY <2>1, <2>3, <2>4, <2>6 DEF Same, t
  <2>8. ~(current # <<>> /\ current[Len(current)].type = t.type /\ current[Len(current)].detail = t.detail)
    BY <2>1, <2>3, <2>4, <2>6 DEF Same, t
  <2>9. AppendTrace(current, t, n) = Newest(Append(current, t), n)
    BY <2>7, <2>8 DEF AppendTrace
  <2>10. Append(current, t) \in Seq(A) /\ Len(Append(current, t)) = k + 1
    BY <2>3
  <2>11. Newest(Append(current, t), n) = SubSeq(Append(current, t), 1, Len(Append(current, t)))
    BY <2>1, <2>10 DEF Newest
  <2>12. Newest(Append(current, t), n) = Append(current, t)
    BY <2>10, <2>11, SubSeqFull
  <2>13. lists[k + 1] = SubSeq(s, 1, k + 1)
    BY <2>2, <2>5, <2>9, <2>12
  <2>14. QED
    BY <2>1, <2>13
<1> HIDE DEF T, m
<1>7. m \in T
  <2>1. \A k \in 0..m : k \in T
    BY <1>1, <1>5, <1>6, InductionUpTo
  <2>2. QED
    BY <1>1, <2>1
<1>8. lists[m] = SubSeq(s, 1, m)
  BY <1>7 DEF T
<1>9. QED
  BY <1>4, <1>8, SubSeqFull DEF m

\* So does appending any number of traces.
LEMMA AppendedTracesAreCompact ==
    ASSUME NEW A, NEW s \in Seq(A), NEW n \in Nat \ {0}
    PROVE  AppendedTraces(s, n) \in Seq(A) /\ IsCompact(AppendedTraces(s, n), n)
<1>p. PICK lists : Restores(lists, A, s, n)
  BY RestoreSteps
<1>1. /\ lists \in [0..Len(s) -> Seq(A)]
      /\ lists[0] = <<>>
      /\ lists[Len(s)] = AppendedTraces(s, n)
      /\ \A k \in 1..Len(s) : lists[k] = AppendTrace(lists[k - 1], s[k], n)
  BY <1>p DEF Restores
<1> DEFINE Compact == {items \in Seq(A) : IsCompact(items, n)}
<1>2. lists[0] \in Compact
  <2>1. IsCompact(<<>>, n) /\ <<>> \in Seq(A)
    BY DEF IsCompact
  <2>2. QED
    BY <1>1, <2>1
<1>3. ASSUME NEW k \in 1..Len(s), lists[k - 1] \in Compact PROVE lists[k] \in Compact
  <2>1. s[k] \in A /\ k \in 0..Len(s) /\ lists[k] = AppendTrace(lists[k - 1], s[k], n)
    BY <1>1
  <2>2. lists[k] \in Seq(A)
    BY <1>1, <2>1
  <2>3. IsCompact(lists[k], n)
    BY <1>3, <2>1, AppendTraceIsCompact
  <2>4. QED
    BY <2>2, <2>3
<1> HIDE DEF Compact
<1>4. AppendedTraces(s, n) \in Compact
  <2>1. Len(s) \in Nat
    OBVIOUS
  <2>2. \A k \in 0..Len(s) : lists[k] \in Compact
    BY <1>2, <1>3, <2>1, StaysIn
  <2>3. QED
    BY <1>1, <2>1, <2>2
<1>5. QED
  BY <1>4 DEF Compact

\* appendTrace and restoreConversation, for every list that was stored and every limit:
\* what is restored is within the limit and repeats nothing, and stays as it is.
THEOREM TracesAreAlwaysCompact ==
    ASSUME NEW A, NEW traces \in Seq(A), NEW n \in Nat \ {0}
    PROVE  TracesAreCompact(traces, n)
<1> DEFINE restored == RestoredTraces(traces, n)
<1>1. Newest(traces, n) \in Seq(A)
  BY NewestElements
<1>2. restored \in Seq(A) /\ IsCompact(restored, n)
  BY <1>1, AppendedTracesAreCompact DEF RestoredTraces
<1> HIDE DEF restored
<1>3. RestoredTraces(restored, n) = restored
  BY <1>2, CompactIsRestored
<1>4. DOMAIN restored = 1..Len(restored)
  BY <1>2
<1>5. QED
  BY <1>2, <1>3, <1>4 DEF TracesAreCompact, IsCompact, Same, restored

-----------------------------------------------------------------------------
(* The report of an inspection *)

\* Objects with properties from K and values from V.
Objects(K, V) == UNION {[D -> V] : D \in SUBSET K}

\* An object without a property.
LEMMA EmptyObject ==
    ASSUME NEW K, NEW V
    PROVE  <<>> \in Objects(K, V) /\ DOMAIN <<>> = {}
<1>1. <<>> \in [{} -> V] /\ DOMAIN <<>> = {}
  OBVIOUS
<1>2. {} \in SUBSET K
  OBVIOUS
<1>3. QED
  BY <1>1, <1>2 DEF Objects

HasProperty(next, object, key, value) ==
    /\ DOMAIN next = DOMAIN object \cup {key} /\ next[key] = value
    /\ \A k \in DOMAIN object : k # key => next[k] = object[k]

\* An assignment to a property leaves the other ones.
LEMMA WithProperty ==
    ASSUME NEW K, NEW V, NEW object \in Objects(K, V), NEW key \in K, NEW value \in V
    PROVE  /\ With(object, key, value) \in Objects(K, V)
           /\ HasProperty(With(object, key, value), object, key, value)
<1> DEFINE next == With(object, key, value)
           D == DOMAIN object \cup {key}
<1>1. DOMAIN object \in SUBSET K /\ object \in [DOMAIN object -> V]
  BY DEF Objects
<1>2. next = [k \in D |-> IF k = key THEN value ELSE object[k]]
  BY DEF With
<1>3. next \in [D -> V] /\ D \in SUBSET K
  BY <1>1, <1>2
<1>4. next \in Objects(K, V)
  BY <1>3 DEF Objects
<1>5. QED
  BY <1>2, <1>4 DEF HasProperty

Line(K, V) == [key : K, value : V]

\* parseRepositoryInspection sets field by field: fields[k] is what it has after k lines.
Sets(results, K, V, s) ==
    /\ results \in [0..Len(s) -> Objects(K, V)]
    /\ results[0] = <<>> /\ results[Len(s)] = FieldsOf(s)
    /\ \A k \in 1..Len(s) : results[k] = SetField(results[k - 1], s[k])

\* The fields of a report are set line by line.
LEMMA FieldsSteps ==
    ASSUME NEW K, NEW V, NEW s \in Seq(Line(K, V))
    PROVE  \E results : Sets(results, K, V, s)
<1> DEFINE n == Len(s)
           States == Objects(K, V)
           Add(x, e) == SetField(x, e)
           it == CHOOSE g : g = [P \in SUBSET (DOMAIN s) |->
                                    IF P = {} THEN <<>> ELSE Add(g[P \ {Max(P)}], s[Max(P)])]
           step == [q \in States \X (1..n) |-> Add(q[1], s[q[2]])]
<1>1. n \in Nat /\ DOMAIN s = 1..n /\ \A k \in 1..n : s[k] \in Line(K, V)
  OBVIOUS
<1>2. FieldsOf(s) = it[DOMAIN s]
  BY Zenon DEF FieldsOf, FoldLeft, MapThenFoldSet
<1>3. \A x \in States, k \in 1..n : Add(x, s[k]) \in States
  <2>1. ASSUME NEW x \in Objects(K, V), NEW k \in 1..n PROVE SetField(x, s[k]) \in Objects(K, V)
    <3>1. s[k] \in Line(K, V)
      BY <1>1
    <3>2. s[k].key \in K /\ s[k].value \in V
      BY <3>1 DEF Line
    <3>3. QED
      BY <3>2, WithProperty DEF SetField
  <2>2. QED
    BY <2>1
<1>4. <<>> \in States
  BY EmptyObject
<1> HIDE DEF n, States, Add, it
<1>5. /\ step \in [States \X (1..n) -> States]
      /\ \A x \in States, k \in 1..n : step[<<x, k>>] = Add(x, s[k])
  BY <1>3
<1> HIDE DEF step
<1>6. PICK g \in [SUBSET (1..n) -> States] : IsFold(g, n, <<>>, step)
  BY <1>1, <1>4, <1>5, FoldExists
<1>7. \A P \in SUBSET (1..n) : P # {} => Max(P) \in 1..n /\ g[P \ {Max(P)}] \in States
  BY <1>1, MaxOfPositions
<1>8. g = [P \in SUBSET (DOMAIN s) |-> IF P = {} THEN <<>> ELSE Add(g[P \ {Max(P)}], s[Max(P)])]
  BY <1>1, <1>5, <1>6, <1>7 DEF IsFold
<1>9. it = [P \in SUBSET (DOMAIN s) |-> IF P = {} THEN <<>> ELSE Add(it[P \ {Max(P)}], s[Max(P)])]
  BY <1>8, Zenon DEF it
<1>10. Folds(it, n, States, <<>>, step)
  <2>1. it[{}] = <<>>
    BY <1>9
  <2>2. \A P \in SUBSET (1..n) : P # {} => it[P] = Add(it[P \ {Max(P)}], s[Max(P)])
    BY <1>1, <1>9
  <2>3. QED
    BY <1>5, <1>7, <2>1, <2>2 DEF Folds
<1>11. PICK results \in [0..n -> States] : Follow(results, n, <<>>, step, it[1..n])
  BY <1>1, <1>4, <1>5, <1>10, FoldRuns
<1>12. ASSUME NEW k \in 1..n PROVE results[k] = Add(results[k - 1], s[k])
  <2>1. results[k - 1] \in States
    BY <1>1
  <2>2. QED
    BY <1>5, <1>11, <2>1 DEF Follow
<1>13. results[0] = <<>> /\ results[n] = FieldsOf(s)
  BY <1>1, <1>2, <1>11 DEF Follow
<1>14. Sets(results, K, V, s)
  BY <1>12, <1>13 DEF n, Add, States, Sets
<1>15. QED
  BY <1>14

\* Each field has the value of its last line.
IsLatest(f, s, k) ==
    /\ DOMAIN f = {s[i].key : i \in 1..k}
    /\ \A key \in DOMAIN f : \E i \in 1..k :
          s[i].key = key /\ (\A j \in 1..k : s[j].key = key => j <= i) /\ f[key] = s[i].value

\* A field has the value of its last line.
LEMMA FieldsAreLatest ==
    ASSUME NEW K, NEW V, NEW s \in Seq(Line(K, V))
    PROVE  IsLatest(FieldsOf(s), s, Len(s))
<1>p. PICK fields : Sets(fields, K, V, s)
  BY FieldsSteps
<1>1. /\ fields \in [0..Len(s) -> Objects(K, V)]
      /\ fields[0] = <<>> /\ fields[Len(s)] = FieldsOf(s)
      /\ \A k \in 1..Len(s) : fields[k] = SetField(fields[k - 1], s[k])
  BY <1>p DEF Sets
<1> DEFINE T == {k \in Nat : IsLatest(fields[k], s, k)}
<1>2. 0 \in T
  <2>1. fields[0] = <<>> /\ DOMAIN <<>> = {}
    BY <1>1, EmptyObject
  <2>2. {s[i].key : i \in 1..0} = {}
    OBVIOUS
  <2>3. QED
    BY <2>1, <2>2 DEF IsLatest
<1>3. ASSUME NEW k \in 0..(Len(s) - 1), k \in T PROVE k + 1 \in T
  <2>1. PICK m, f, line : /\ m \in 1..Len(s) /\ m = k + 1 /\ k \in Nat /\ m - 1 = k /\ f = fields[k] /\ line = s[m]
    OBVIOUS
  <2>2. f \in Objects(K, V) /\ line \in Line(K, V) /\ fields[m] = SetField(f, line)
    BY <1>1, <2>1
  <2>3. line.key \in K /\ line.value \in V
    BY <2>2 DEF Line
  <2>4. PICK next : next = With(f, line.key, line.value) /\ fields[m] = next
    BY <2>2 DEF SetField
  <2>5. /\ DOMAIN next = DOMAIN f \cup {line.key}
        /\ next[line.key] = line.value
        /\ \A key \in DOMAIN f : key # line.key => next[key] = f[key]
    <3>1. HasProperty(next, f, line.key, line.value)
      BY <2>2, <2>3, <2>4, WithProperty
    <3>2. QED
      BY <3>1 DEF HasProperty
  <2>6. IsLatest(f, s, k)
    BY <1>3, <2>1
  <2>7. \A i \in 1..m : i = m \/ i \in 1..k
    BY <2>1
  <2>8. m \in 1..m /\ \A i \in 1..k : i \in 1..m
    BY <2>1
  <2>9. DOMAIN next = {s[i].key : i \in 1..m}
    BY <2>1, <2>5, <2>6, <2>7, <2>8 DEF IsLatest
  <2>10. ASSUME NEW key \in DOMAIN next
         PROVE  \E i \in 1..m : s[i].key = key /\ (\A j \in 1..m : s[j].key = key => j <= i) /\ next[key] = s[i].value
    <3>1. CASE key = line.key
      <4>1. s[m].key = key /\ next[key] = s[m].value /\ \A j \in 1..m : j <= m
        BY <2>1, <2>5, <3>1
      <4>2. QED
        BY <2>8, <4>1
    <3>2. CASE key # line.key
      <4>1. key \in DOMAIN f /\ next[key] = f[key]
        BY <2>5, <3>2
      <4>2. PICK i \in 1..k : s[i].key = key /\ (\A j \in 1..k : s[j].key = key => j <= i) /\ f[key] = s[i].value
        BY <2>6, <4>1 DEF IsLatest
      <4>3. \A j \in 1..m : s[j].key = key => j <= i
        BY <2>1, <2>7, <3>2, <4>2
      <4>4. i \in 1..m
        BY <2>8
      <4>5. QED
        BY <4>1, <4>2, <4>3, <4>4
    <3>3. QED
      BY <3>1, <3>2
  <2>11. IsLatest(next, s, m)
    BY <2>9, <2>10 DEF IsLatest
  <2>12. QED
    BY <2>1, <2>4, <2>11
<1> HIDE DEF T
<1>4. Len(s) \in T
  <2>1. Len(s) \in Nat
    OBVIOUS
  <2>2. \A k \in 0..Len(s) : k \in T
    BY <1>2, <1>3, <2>1, InductionUpTo
  <2>3. QED
    BY <2>1, <2>2
<1>5. QED
  BY <1>1, <1>4 DEF T

\* parseRepositoryInspection, for every report: each field that occurs is shown with its
\* latest value, and every line without a field is counted.
THEOREM InspectionIsAlwaysKept ==
    ASSUME NEW K, NEW V, NEW lines \in Seq(Line(K, V))
    PROVE  InspectionIsKept(lines)
<1> DEFINE named == {l \in ToSet(lines) : l.key # ""}
           kept == Kept(lines, named)
           fields == FieldsOf(kept)
           report == ParseRepositoryInspection(lines)
<1>4. \A m \in 1..Len(lines) : lines[m] \in named <=> lines[m].key # ""
  <2>1. DOMAIN lines = 1..Len(lines)
    OBVIOUS
  <2>2. QED
    BY <2>1 DEF ToSet
<1>1. /\ report.fields = fields
      /\ report.extra = Cardinality({i \in DOMAIN lines : lines[i].key = ""})
  BY DEF ParseRepositoryInspection
<1> HIDE DEF named
<1>2. kept \in Seq(Line(K, V)) /\ DOMAIN lines = 1..Len(lines)
  BY KeptPicks
<1>3. PICK at : Picks(at, kept, lines, Len(lines), named)
  BY <1>2, KeptPicks
<1> HIDE DEF kept
<1>5. IsLatest(fields, kept, Len(kept))
  BY <1>2, FieldsAreLatest
<1> HIDE DEF fields, report
<1>6. /\ \A i \in 1..Len(kept) : at[i] \in 1..Len(lines) /\ kept[i] = lines[at[i]] /\ lines[at[i]] \in named
      /\ \A i, j \in 1..Len(kept) : i < j => at[i] < at[j]
      /\ \A m \in 1..Len(lines) : lines[m] \in named => \E i \in 1..Len(kept) : at[i] = m
  BY <1>3 DEF Picks
<1>7. DOMAIN fields = {lines[i].key : i \in DOMAIN lines} \ {""}
  <2>1. DOMAIN fields = {kept[i].key : i \in 1..Len(kept)}
    BY <1>5 DEF IsLatest
  <2>2. ASSUME NEW i \in 1..Len(kept) PROVE kept[i].key \in {lines[m].key : m \in DOMAIN lines} \ {""}
    <3>1. at[i] \in DOMAIN lines /\ kept[i].key = lines[at[i]].key /\ lines[at[i]].key # ""
      BY <1>2, <1>4, <1>6
    <3>2. QED
      BY <3>1
  <2>3. ASSUME NEW m \in DOMAIN lines, lines[m].key # "" PROVE lines[m].key \in {kept[i].key : i \in 1..Len(kept)}
    <3>1. PICK i \in 1..Len(kept) : at[i] = m
      BY <1>2, <1>4, <1>6, <2>3
    <3>2. kept[i].key = lines[m].key
      BY <1>6, <3>1
    <3>3. QED
      BY <3>2
  <2>4. QED
    BY <2>1, <2>2, <2>3
<1>8. ASSUME NEW key \in DOMAIN fields
      PROVE  \E m \in {i \in DOMAIN lines : lines[i].key = key} :
                (\A j \in {i \in DOMAIN lines : lines[i].key = key} : j <= m) /\ fields[key] = lines[m].value
  <2>1. PICK i \in 1..Len(kept) :
           kept[i].key = key /\ (\A j \in 1..Len(kept) : kept[j].key = key => j <= i) /\ fields[key] = kept[i].value
    BY <1>5 DEF IsLatest
  <2>2. at[i] \in DOMAIN lines /\ lines[at[i]].key = key /\ fields[key] = lines[at[i]].value
    BY <1>2, <1>6, <2>1
  <2>3. ASSUME NEW j \in DOMAIN lines, lines[j].key = key PROVE j <= at[i]
    <3>1. key # ""
      BY <1>7
    <3>2. PICK h \in 1..Len(kept) : at[h] = j
      BY <1>2, <1>4, <1>6, <2>3, <3>1
    <3>3. h <= i
      BY <1>6, <2>1, <2>3, <3>2
    <3>4. h = i \/ h < i
      BY <1>2, <3>3
    <3>5. at[h] = at[i] \/ at[h] < at[i]
      BY <1>6, <3>4
    <3>6. QED
      BY <1>2, <1>6, <3>2, <3>5
  <2>4. QED
    BY <2>2, <2>3
<1>9. QED
  BY <1>1, <1>7, <1>8 DEF InspectionIsKept, report

-----------------------------------------------------------------------------
(* A document inside one fence *)

\* What trim() leaves begins and ends with a line that is not blank.
IsTrimmed(s) ==
    s = <<>> \/ (s # <<>> /\ s[1] \notin {"blank", "indented"} /\ s[Len(s)] # "blank")

\* What trim() leaves of the lines.
IsTrimOf(s, lines) ==
    \/ s = <<>> /\ \A i \in 1..Len(lines) : lines[i] = "blank"
    \/ \E first, last \in 1..Len(lines) :
          /\ first <= last /\ lines[first] # "blank" /\ lines[last] # "blank"
          /\ \A i \in 1..Len(lines) : lines[i] # "blank" => first <= i /\ i <= last
          /\ Len(s) = (last - first) + 1
          /\ s[1] = IF lines[first] = "indented" THEN "fence" ELSE lines[first]
          /\ \A i \in 2..Len(s) : s[i] = lines[first + i - 1]

\* trim removes lines at both ends only.
LEMMA TrimLines ==
    ASSUME NEW lines \in Seq(Lines)
    PROVE  Trim(lines) \in Seq(Lines) /\ IsTrimOf(Trim(lines), lines)
<1> DEFINE n == Len(lines)
           solid == {i \in DOMAIN lines : lines[i] # "blank"}
           first == CHOOSE i \in solid : \A j \in solid : i <= j
           last == CHOOSE i \in solid : \A j \in solid : j <= i
           unindent(line) == IF line = "indented" THEN "fence" ELSE line
           rest == SubSeq(lines, first + 1, last)
           head == unindent(lines[first])
<1>1. n \in Nat /\ solid \in SUBSET (1..n) /\ solid \in SUBSET Nat /\ \A i \in 1..n : lines[i] \in Lines
  OBVIOUS
<1>2. Trim(lines) = IF solid = {} THEN <<>> ELSE <<head>> \o rest
  BY DEF Trim
<1>3. CASE solid = {}
  <2>1. Trim(lines) = <<>> /\ <<>> \in Seq(Lines)
    BY <1>2, <1>3
  <2>2. \A i \in 1..n : lines[i] = "blank"
    BY <1>3
  <2>3. QED
    BY <2>1, <2>2 DEF IsTrimOf
<1>4. CASE solid # {}
  <2>1. first \in solid /\ \A j \in solid : first <= j
    <3>1. \E i \in solid : \A j \in solid : i <= j
      BY <1>1, <1>4, LeastNumber
    <3>2. QED
      BY <3>1, Zenon
  <2>2. last \in solid /\ \A j \in solid : j <= last
    <3>1. \E i \in solid : \A j \in solid : j <= i
      BY <1>1, <1>4, GreatestNumber
    <3>2. QED
      BY <3>1, Zenon
  <2> HIDE DEF first, last
  <2>3. first \in 1..n /\ last \in 1..n /\ first <= last /\ lines[first] # "blank" /\ lines[last] # "blank"
    BY <1>1, <2>1, <2>2
  <2>4. \A i \in 1..n : lines[i] # "blank" => first <= i /\ i <= last
    BY <2>1, <2>2
  <2>5. head \in Lines /\ <<head>> \in Seq(Lines) /\ Len(<<head>>) = 1 /\ <<head>>[1] = head
    <3>1. head \in Lines
      BY <1>1, <2>3 DEF Lines, Fences
    <3> HIDE DEF head
    <3>2. QED
      BY <3>1
  <2>h. head = IF lines[first] = "indented" THEN "fence" ELSE lines[first]
    OBVIOUS
  <2> HIDE DEF solid, head, n
  <2>6. /\ rest \in Seq(Lines) /\ Len(rest) = IF first + 1 <= last THEN last - (first + 1) + 1 ELSE 0
        /\ \A i \in 1..(last - (first + 1) + 1) : rest[i] = lines[(first + 1) + i - 1]
    <3>1. first + 1 \in Int /\ last \in Int /\ \A i \in (first + 1)..last : lines[i] \in Lines
      BY <1>1, <2>3
    <3>2. QED
      BY <3>1, SubSeqProperties
  <2>7. Len(rest) = last - first
    BY <1>1, <2>3, <2>6
  <2> HIDE DEF rest
  <2> DEFINE s == <<head>> \o rest
  <2>8. /\ s \in Seq(Lines) /\ Len(s) = 1 + Len(rest)
        /\ \A i \in 1..(1 + Len(rest)) : s[i] = IF i <= 1 THEN <<head>>[i] ELSE rest[i - 1]
    BY <2>5, <2>6, ConcatProperties
  <2> HIDE DEF s
  <2>9. Len(s) = (last - first) + 1
    BY <1>1, <2>3, <2>7, <2>8
  <2>10. s[1] = head
    <3>1. 1 \in 1..(1 + Len(rest))
      BY <1>1, <2>3, <2>7
    <3>2. QED
      BY <2>5, <2>8, <3>1
  <2>11. ASSUME NEW i \in 2..Len(s) PROVE s[i] = lines[first + i - 1]
    <3>1. /\ i \in 1..(1 + Len(rest)) /\ ~(i <= 1) /\ i - 1 \in 1..(last - (first + 1) + 1)
          /\ (first + 1) + (i - 1) - 1 = first + i - 1
      BY <1>1, <2>3, <2>7, <2>9
    <3>2. s[i] = rest[i - 1]
      BY <2>8, <3>1
    <3>3. QED
      BY <2>6, <3>1, <3>2
  <2>12. Trim(lines) = s
    BY <1>2, <1>4 DEF s
  <2>13. IsTrimOf(s, lines)
    BY <2>3, <2>4, <2>9, <2>10, <2>11, <2>h DEF IsTrimOf, n
  <2>14. QED
    BY <2>8, <2>12, <2>13
<1>5. QED
  BY <1>3, <1>4

\* What is left neither begins nor ends with a blank line.
LEMMA TrimIsTrimmed ==
    ASSUME NEW lines \in Seq(Lines)
    PROVE  Trim(lines) \in Seq(Lines) /\ IsTrimmed(Trim(lines))
<1>1. PICK s : s = Trim(lines) /\ s \in Seq(Lines) /\ IsTrimOf(s, lines)
  BY TrimLines
<1>2. CASE s = <<>>
  BY <1>1, <1>2 DEF IsTrimmed
<1>3. CASE s # <<>>
  <2>1. PICK first \in 1..Len(lines), last \in 1..Len(lines) :
          /\ first <= last /\ lines[first] # "blank" /\ lines[last] # "blank"
          /\ Len(s) = (last - first) + 1
          /\ s[1] = IF lines[first] = "indented" THEN "fence" ELSE lines[first]
          /\ \A i \in 2..Len(s) : s[i] = lines[first + i - 1]
    BY <1>1, <1>3 DEF IsTrimOf
  <2>2. s[1] \notin {"blank", "indented"}
    BY <2>1
  <2>3. s[Len(s)] # "blank"
    <3>1. CASE Len(s) = 1
      BY <2>2, <3>1
    <3>2. CASE Len(s) # 1
      <4>1. Len(s) \in 2..Len(s) /\ first + Len(s) - 1 = last
        BY <2>1, <3>2
      <4>2. s[Len(s)] = lines[last]
        BY <2>1, <4>1
      <4>3. QED
        BY <2>1, <4>2
    <3>3. QED
      BY <3>1, <3>2
  <2>4. QED
    BY <1>1, <1>3, <2>2, <2>3 DEF IsTrimmed
<1>4. QED
  BY <1>2, <1>3

\* trim() changes nothing the second time.
LEMMA TrimmedIsTrim ==
    ASSUME NEW s \in Seq(Lines), IsTrimmed(s)
    PROVE  Trim(s) = s
<1>1. PICK t : t = Trim(s) /\ t \in Seq(Lines) /\ IsTrimOf(t, s)
  BY TrimLines
<1>2. CASE s = <<>>
  <2>1. Len(s) = 0 /\ 1..Len(s) = {}
    BY <1>2
  <2>2. t = <<>>
    BY <1>1, <2>1 DEF IsTrimOf
  <2>3. QED
    BY <1>1, <1>2, <2>2
<1>3. CASE s # <<>>
  <2>1. Len(s) \in Nat \ {0} /\ s[1] \notin {"blank", "indented"} /\ s[Len(s)] # "blank"
    BY <1>3 DEF IsTrimmed
  <2>2. 1 \in 1..Len(s) /\ Len(s) \in 1..Len(s)
    BY <2>1
  <2>3. PICK first \in 1..Len(s), last \in 1..Len(s) :
          /\ first <= last
          /\ \A i \in 1..Len(s) : s[i] # "blank" => first <= i /\ i <= last
          /\ Len(t) = (last - first) + 1
          /\ t[1] = IF s[first] = "indented" THEN "fence" ELSE s[first]
          /\ \A i \in 2..Len(t) : t[i] = s[first + i - 1]
    BY <1>1, <2>1, <2>2 DEF IsTrimOf
  <2>4. first = 1 /\ last = Len(s)
    <3>1. first <= 1 /\ Len(s) <= last
      BY <2>1, <2>2, <2>3
    <3>2. QED
      BY <2>1, <3>1
  <2>5. Len(t) = Len(s) /\ t[1] = s[1]
    BY <2>1, <2>3, <2>4
  <2>6. ASSUME NEW i \in 1..Len(s) PROVE t[i] = s[i]
    <3>1. CASE i = 1
      BY <2>5, <3>1
    <3>2. CASE i # 1
      <4>1. i \in 2..Len(t) /\ first + i - 1 = i
        BY <2>1, <2>4, <2>5, <3>2
      <4>2. QED
        BY <2>3, <4>1
    <3>3. QED
      BY <3>1, <3>2
  <2>7. QED
    BY <1>1, <2>5, <2>6, SeqEqual
<1>4. QED
  BY <1>2, <1>3

Inner(s) == SubSeq(s, 2, Len(s) - 1)

\* The trimmed lines are one fence and what is inside.
IsWrapped(s) ==
    /\ Len(s) >= 3
    /\ s[1] \in WrapperLanguages /\ s[Len(s)] = "fence"
    /\ \A i \in DOMAIN Inner(s) : Inner(s)[i] \notin Fences \ {"indented"}
    /\ s[1] = "fenceMd" \/ HasMarkdownDocumentStructure(Trim(Inner(s)))

\* What unwrapMarkdownDocumentFence returns.
LEMMA UnwrapIsTrim ==
    ASSUME NEW value
    PROVE  UnwrapMarkdownDocumentFence(value) =
              IF IsWrapped(Trim(value)) THEN Trim(Inner(Trim(value))) ELSE Trim(value)
<1> HIDE DEF Trim, HasMarkdownDocumentStructure
<1>1. QED
  BY Zenon DEF UnwrapMarkdownDocumentFence, IsWrapped, Inner

\* The lines between the two fences of a wrapper.
LEMMA InnerLines ==
    ASSUME NEW s \in Seq(Lines), Len(s) >= 3
    PROVE  /\ Inner(s) \in Seq(Lines) /\ Len(Inner(s)) = Len(s) - 2
           /\ \A i \in 1..(Len(s) - 2) : Inner(s)[i] = s[i + 1]
<1> DEFINE n == Len(s)
<1>1. n \in Nat /\ n >= 3 /\ 2 \in Int /\ n - 1 \in Int /\ \A i \in 2..(n - 1) : s[i] \in Lines
  OBVIOUS
<1> HIDE DEF n
<1>2. /\ SubSeq(s, 2, n - 1) \in Seq(Lines)
      /\ Len(SubSeq(s, 2, n - 1)) = IF 2 <= n - 1 THEN (n - 1) - 2 + 1 ELSE 0
      /\ \A i \in 1..((n - 1) - 2 + 1) : SubSeq(s, 2, n - 1)[i] = s[2 + i - 1]
  BY <1>1, SubSeqProperties
<1>3. Inner(s) = SubSeq(s, 2, n - 1)
  BY DEF Inner, n
<1>4. Len(Inner(s)) = n - 2 /\ (n - 1) - 2 + 1 = n - 2 /\ \A i \in 1..(n - 2) : 2 + i - 1 = i + 1
  BY <1>1, <1>2, <1>3
<1>5. \A i \in 1..(n - 2) : Inner(s)[i] = s[i + 1]
  BY <1>2, <1>3, <1>4
<1>6. QED
  BY <1>2, <1>3, <1>4, <1>5 DEF n

\* No line that is not blank and has no white space in front is lost by trim().
LEMMA TrimKeeps ==
    ASSUME NEW lines \in Seq(Lines), NEW i \in 1..Len(lines), lines[i] \notin {"blank", "indented"}
    PROVE  \E k \in 1..Len(Trim(lines)) : Trim(lines)[k] = lines[i]
<1>1. PICK s : s = Trim(lines) /\ s \in Seq(Lines) /\ IsTrimOf(s, lines)
  BY TrimLines
<1>2. PICK first \in 1..Len(lines), last \in 1..Len(lines) :
        /\ first <= last
        /\ \A j \in 1..Len(lines) : lines[j] # "blank" => first <= j /\ j <= last
        /\ Len(s) = (last - first) + 1
        /\ s[1] = IF lines[first] = "indented" THEN "fence" ELSE lines[first]
        /\ \A j \in 2..Len(s) : s[j] = lines[first + j - 1]
  BY <1>1 DEF IsTrimOf
<1>3. first <= i /\ i <= last
  BY <1>2
<1> DEFINE k == (i - first) + 1
<1>4. k \in 1..Len(s)
  BY <1>2, <1>3
<1>5. s[k] = lines[i]
  <2>1. CASE i = first
    BY <1>2, <2>1
  <2>2. CASE i # first
    <3>1. k \in 2..Len(s) /\ first + k - 1 = i
      BY <1>2, <1>3, <1>4, <2>2
    <3>2. QED
      BY <1>2, <3>1
  <2>3. QED
    BY <2>1, <2>2
<1>6. QED
  BY <1>1, <1>4, <1>5

\* Nothing inside a fence that goes is a fence around a document again.
LEMMA UnwrappedIsNotWrapped ==
    ASSUME NEW s \in Seq(Lines), IsWrapped(s)
    PROVE  ~IsWrapped(Trim(Inner(s)))
<1>1. Len(s) >= 3 /\ \A i \in DOMAIN Inner(s) : Inner(s)[i] \notin Fences \ {"indented"}
  BY DEF IsWrapped
<1>2. Inner(s) \in Seq(Lines)
  BY <1>1, InnerLines
<1>3. PICK body : body = Trim(Inner(s)) /\ body \in Seq(Lines) /\ IsTrimOf(body, Inner(s))
  BY <1>2, TrimLines
<1>4. SUFFICES ASSUME Len(body) >= 3, body[Len(body)] = "fence" PROVE FALSE
  BY <1>3 DEF IsWrapped
<1>5. PICK first \in 1..Len(Inner(s)), last \in 1..Len(Inner(s)) :
        /\ Len(body) = (last - first) + 1
        /\ \A j \in 2..Len(body) : body[j] = Inner(s)[first + j - 1]
  BY <1>3, <1>4 DEF IsTrimOf
<1>6. Len(body) \in 2..Len(body) /\ first + Len(body) - 1 = last
  BY <1>3, <1>4, <1>5
<1>7. body[Len(body)] = Inner(s)[last] /\ last \in DOMAIN Inner(s)
  BY <1>2, <1>5, <1>6
<1>8. QED
  BY <1>1, <1>4, <1>7 DEF Fences

\* unwrapMarkdownDocumentFence: for every report, unwrapping once is enough, and no
\* fence with the language of a program goes.
THEOREM UnwrapIsAlwaysFinal ==
    ASSUME NEW lines \in Seq(Lines)
    PROVE  UnwrapIsFinal(lines)
<1>1. PICK s : s = Trim(lines) /\ s \in Seq(Lines) /\ IsTrimmed(s)
  BY TrimIsTrimmed
<1>k. ASSUME Contains(lines, "fenceJs") PROVE Contains(s, "fenceJs")
  <2>1. PICK i \in 1..Len(lines) : lines[i] = "fenceJs"
    BY <1>k DEF Contains
  <2>2. lines[i] \notin {"blank", "indented"}
    BY <2>1
  <2>3. \E k \in 1..Len(s) : s[k] = lines[i]
    BY <1>1, <2>2, TrimKeeps
  <2>4. QED
    BY <2>1, <2>3 DEF Contains
<1>2. CASE ~IsWrapped(s)
  <2>1. UnwrapMarkdownDocumentFence(lines) = s
    BY <1>1, <1>2, UnwrapIsTrim
  <2>2. Trim(s) = s
    BY <1>1, TrimmedIsTrim
  <2>3. UnwrapMarkdownDocumentFence(s) = s
    BY <1>2, <2>2, UnwrapIsTrim
  <2>4. QED
    BY <1>k, <2>1, <2>3 DEF UnwrapIsFinal
<1>3. CASE IsWrapped(s)
  <2>1. UnwrapMarkdownDocumentFence(lines) = Trim(Inner(s))
    BY <1>1, <1>3, UnwrapIsTrim
  <2>2. Len(s) >= 3
    BY <1>3 DEF IsWrapped
  <2>3. Inner(s) \in Seq(Lines)
    BY <1>1, <2>2, InnerLines
  <2>4. PICK body : body = Trim(Inner(s)) /\ body \in Seq(Lines) /\ IsTrimmed(body)
    BY <2>3, TrimIsTrimmed
  <2>5. Trim(body) = body
    BY <2>4, TrimmedIsTrim
  <2>6. ~IsWrapped(body)
    BY <1>1, <1>3, <2>4, UnwrappedIsNotWrapped
  <2>7. UnwrapMarkdownDocumentFence(body) = body
    BY <2>5, <2>6, UnwrapIsTrim
  <2>8. ~Contains(s, "fenceJs")
    <3>1. SUFFICES ASSUME NEW k \in 1..Len(s), s[k] = "fenceJs" PROVE FALSE
      BY DEF Contains
    <3>2. s[1] # "fenceJs" /\ s[Len(s)] # "fenceJs"
      BY <1>3 DEF IsWrapped, WrapperLanguages
    <3>3. k - 1 \in 1..(Len(s) - 2) /\ (k - 1) + 1 = k
      BY <1>1, <3>1, <3>2
    <3>4. Inner(s)[k - 1] = "fenceJs" /\ k - 1 \in DOMAIN Inner(s)
      BY <1>1, <2>2, <3>1, <3>3, InnerLines
    <3>5. QED
      BY <1>3, <3>4 DEF IsWrapped, Fences
  <2>9. QED
    BY <1>k, <2>1, <2>4, <2>7, <2>8 DEF UnwrapIsFinal
<1>4. QED
  BY <1>2, <1>3

-----------------------------------------------------------------------------
(* Functions that go on from position to position *)

\* A function that is defined at each position by its value at a later one exists.
Chains(f, n, base, nxt, step) ==
    f[n + 1] = base /\ \A i \in 1..n : f[i] = step[<<i, f[nxt[i]]>>]

\* A recursive function along positions that grow, up to the end.
LEMMA ChainExists ==
    ASSUME NEW n \in Nat, NEW V, NEW base \in V, NEW step \in [(1..n) \X V -> V],
           NEW nxt \in [1..n -> 1..(n + 1)], \A i \in 1..n : nxt[i] > i
    PROVE  \E f \in [1..(n + 1) -> V] : Chains(f, n, base, nxt, step)
<1> DEFINE Works(f, k) == f[n + 1] = base /\ \A i \in ((n - k) + 1)..n : f[i] = step[<<i, f[nxt[i]]>>]
           Exists(k) == \E f \in [1..(n + 1) -> V] : Works(f, k)
           T == {k \in Nat : k <= n => Exists(k)}
<1>1. 0 \in T
  <2> DEFINE f == [i \in 1..(n + 1) |-> base]
  <2>1. f \in [1..(n + 1) -> V] /\ f[n + 1] = base /\ ((n - 0) + 1)..n = {}
    OBVIOUS
  <2> HIDE DEF f
  <2>2. Exists(0)
    BY <2>1
  <2>3. QED
    BY <2>2
<1>2. ASSUME NEW k \in 0..(n - 1), k \in T PROVE k + 1 \in T
  <2>1. Exists(k)
    <3> HIDE DEF Exists
    <3>1. QED
      BY <1>2
  <2>2. PICK f \in [1..(n + 1) -> V] : Works(f, k)
    BY <2>1
  <2> DEFINE p == n - k
             h == [i \in 1..(n + 1) |-> IF i = p THEN step[<<p, f[nxt[p]]>>] ELSE f[i]]
  <2>3. p \in 1..n /\ (n - (k + 1)) + 1 = p
    BY <1>2
  <2>4. f[nxt[p]] \in V
    BY <2>3
  <2>5. step[<<p, f[nxt[p]]>>] \in V
    BY <2>3, <2>4
  <2>6. h \in [1..(n + 1) -> V]
    BY <2>5
  <2>7. h[n + 1] = base
    BY <2>2, <2>3
  <2>8. ASSUME NEW i \in p..n PROVE h[i] = step[<<i, h[nxt[i]]>>]
    <3>1. i \in 1..n /\ nxt[i] \in 1..(n + 1) /\ nxt[i] # p
      BY <2>3
    <3>2. h[nxt[i]] = f[nxt[i]]
      BY <3>1
    <3>a. i \in 1..(n + 1) /\ h[i] = IF i = p THEN step[<<p, f[nxt[p]]>>] ELSE f[i]
      BY <3>1
    <3> HIDE DEF h, p
    <3>3. CASE i = p
      BY <3>a, <3>2, <3>3
    <3>4. CASE i # p
      <4>1. i \in (p + 1)..n
        BY <2>3, <3>4
      <4>2. f[i] = step[<<i, f[nxt[i]]>>]
        BY <2>2, <4>1 DEF p
      <4>3. QED
        BY <3>a, <3>2, <3>4, <4>2
    <3>5. QED
      BY <3>3, <3>4
  <2> HIDE DEF h
  <2>9. Works(h, k + 1)
    <3>1. \A i \in ((n - (k + 1)) + 1)..n : h[i] = step[<<i, h[nxt[i]]>>]
      BY <2>3, <2>8
    <3>2. QED
      BY <2>7, <3>1
  <2> HIDE DEF Works
  <2>10. Exists(k + 1)
    BY <2>6, <2>9
  <2> HIDE DEF Exists
  <2>11. QED
    BY <1>2, <2>10
<1> HIDE DEF T, Exists
<1>3. n \in T
  <2>1. \A k \in 0..n : k \in T
    BY <1>1, <1>2, InductionUpTo
  <2>2. QED
    BY <2>1
<1>4. Exists(n)
  BY <1>3 DEF T
<1>5. PICK f \in [1..(n + 1) -> V] : Works(f, n)
  BY <1>4 DEF Exists
<1>6. \A i \in 1..n : i \in ((n - n) + 1)..n
  OBVIOUS
<1>7. Chains(f, n, base, nxt, step)
  BY <1>5, <1>6 DEF Chains
<1>8. QED
  BY <1>7

\* What holds at the end, and at a position if it holds at the next one, holds everywhere.
LEMMA ChainInduction ==
    ASSUME NEW n \in Nat, NEW T, n + 1 \in T,
           NEW nxt \in [1..n -> 1..(n + 1)], \A i \in 1..n : nxt[i] > i,
           \A i \in 1..n : nxt[i] \in T => i \in T
    PROVE  \A i \in 1..(n + 1) : i \in T
<1> DEFINE bad == (1..(n + 1)) \ T
<1>1. SUFFICES ASSUME bad # {} PROVE FALSE
  OBVIOUS
<1>2. n + 1 \in Nat /\ bad \in SUBSET (1..(n + 1))
  OBVIOUS
<1>3. PICK i \in bad : \A k \in bad : k <= i
  <2> HIDE DEF bad
  <2>1. QED
    BY <1>1, <1>2, GreatestNumber
<1>4. i \in 1..n
  BY <1>3
<1>5. nxt[i] \in 1..(n + 1) /\ nxt[i] > i
  BY <1>4
<1>6. nxt[i] \in T
  BY <1>3, <1>4, <1>5
<1>7. QED
  BY <1>3, <1>4, <1>6

-----------------------------------------------------------------------------
(* Blocks of a report *)

\* A loop stops at the first position it does not go on with.
LEMMA FirstOutsideIsFirst ==
    ASSUME NEW n \in Nat, NEW S \in SUBSET (1..n), NEW i \in 1..(n + 1)
    PROVE  /\ FirstOutside(S, i, n) \in i..(n + 1) /\ FirstOutside(S, i, n) \notin S
           /\ \A k \in i..(FirstOutside(S, i, n) - 1) : k \in S
<1> DEFINE T == {j \in i..(n + 1) : j \notin S}
<1>1. n + 1 \in T
  OBVIOUS
<1>2. T \in SUBSET Nat /\ T # {}
  BY <1>1
<1>3. PICK m \in T : \A k \in T : m <= k
  <2> HIDE DEF T
  <2>1. QED
    BY <1>2, LeastNumber
<1>4. m \in i..(n + 1) /\ m \notin S
  OBVIOUS
<1>5. \A k \in i..(m - 1) : k \in S
  BY <1>3, <1>4
<1>6. \E j \in i..(n + 1) : j \notin S /\ i..(j - 1) \subseteq S
  BY <1>4, <1>5
<1>7. FirstOutside(S, i, n) \in i..(n + 1) /\ FirstOutside(S, i, n) \notin S
      /\ i..(FirstOutside(S, i, n) - 1) \subseteq S
  BY <1>6, Zenon DEF FirstOutside
<1>8. QED
  BY <1>7

Types == {"codeBlock", "heading", "rule", "table", "list", "quote", "paragraph"}

\* A line behind the first one of a block, of the lines from i on before end.
Fits(lines, i, k, end, type) ==
    CASE type = "codeBlock" -> k < end - 1 => ~IsClosing(lines[k])
      [] type = "table" -> IF k = i + 1 THEN IsTableDivider(lines[k]) ELSE HasPipe(lines[k])
      [] type = "list" -> {lines[i], lines[k]} \subseteq Bullets \/ {lines[i], lines[k]} \subseteq Numbers
      [] type = "quote" -> lines[k] \in Quotes
      [] type = "paragraph" ->
            /\ lines[k] \notin Headings \cup Bullets \cup Numbers \cup Quotes \cup Fences
            /\ ~StartsTable(lines, k)
      [] OTHER -> FALSE

\* Why a block does not go on with the line behind it.
Stops(lines, i, end, type) ==
    CASE type = "codeBlock" -> i < end - 1 /\ IsClosing(lines[end - 1])
      [] type = "table" -> ~HasPipe(lines[end])
      [] type = "list" -> lines[end] \notin Alike(lines[i])
      [] type = "quote" -> lines[end] \notin Quotes
      [] type = "paragraph" -> ~InParagraph(lines, end)
      [] OTHER -> TRUE

\* The lines from i on, before end, are one whole block of the type.
IsBlock(lines, i, end, type) ==
    /\ type \in Types /\ type = BlockType(lines, i)
    /\ end \in (i + 1)..(Len(lines) + 1)
    /\ \A k \in i..(end - 1) : lines[k] = "blank" => type = "codeBlock"
    /\ \A k \in (i + 1)..(end - 1) : Fits(lines, i, k, end, type)
    /\ end <= Len(lines) => Stops(lines, i, end, type)

\* Items and quotes are of one kind.
LEMMA AlikeIs ==
    ASSUME NEW line
    PROVE  /\ line \in Bullets => Alike(line) = Bullets
           /\ line \in Numbers => Alike(line) = Numbers
           /\ line \in Quotes => Alike(line) = Quotes
BY DEF Alike, Bullets, Numbers, Quotes

\* What the type says of the first line of a block.
LEMMA TypeOfLine ==
    ASSUME NEW lines, NEW i
    PROVE  /\ BlockType(lines, i) \in Types
           /\ BlockType(lines, i) = "table" => StartsTable(lines, i)
           /\ BlockType(lines, i) = "list" => lines[i] \in Bullets \cup Numbers
           /\ BlockType(lines, i) = "quote" => lines[i] \in Quotes
           /\ BlockType(lines, i) = "paragraph" =>
                 /\ lines[i] \notin Headings \cup Bullets \cup Numbers \cup Quotes \cup Fences
                 /\ ~StartsTable(lines, i)
BY Zenon DEF BlockType, Types

\* A blank line has none of the features that blocks look for.
LEMMA BlankIsPlain ==
    /\ ~HasPipe("blank") /\ ~IsTableDivider("blank")
    /\ "blank" \notin Bullets \cup Numbers \cup Quotes
BY DEF HasPipe, IsTableDivider, Piped, Bullets, Numbers, Quotes

\* A block ends behind its first line and within the document.
LEMMA BlockEndIsEnd ==
    ASSUME NEW lines \in Seq(Lines), NEW i \in 1..Len(lines), ~IsBlank(lines[i])
    PROVE  IsBlock(lines, i, BlockEnd(lines, i), BlockType(lines, i))
<1> DEFINE n == Len(lines)
           code == {j \in 1..n : ~IsClosing(lines[j])}
           table == {j \in 1..n : HasPipe(lines[j])}
           alike == {j \in 1..n : lines[j] \in Alike(lines[i])}
           paragraph == {j \in 1..n : InParagraph(lines, j)}
           closing == FirstOutside(code, i + 1, n)
           type == BlockType(lines, i)
<1>1. /\ n \in Nat /\ i \in 1..n /\ i + 1 \in 1..(n + 1) /\ lines[i] # "blank"
      /\ \A k \in 1..n : k \notin code => IsClosing(lines[k])
      /\ \A k \in 1..n : k \notin table => ~HasPipe(lines[k])
      /\ \A k \in 1..n : k \notin alike => lines[k] \notin Alike(lines[i])
      /\ \A k \in 1..n : k \notin paragraph => ~InParagraph(lines, k)
  BY DEF IsBlank
<1>2. /\ code \in SUBSET (1..n) /\ table \in SUBSET (1..n)
      /\ alike \in SUBSET (1..n) /\ paragraph \in SUBSET (1..n)
  OBVIOUS
<1>e. BlockEnd(lines, i) =
        CASE type = "codeBlock" -> IF closing <= n THEN closing + 1 ELSE closing
          [] type \in {"heading", "rule"} -> i + 1
          [] type = "table" -> FirstOutside(table, i + 2, n)
          [] type \in {"list", "quote"} -> FirstOutside(alike, i + 1, n)
          [] type = "paragraph" -> FirstOutside(paragraph, i + 1, n)
  BY DEF BlockEnd
<1>c. \A k \in code : ~IsClosing(lines[k])
  OBVIOUS
<1>t. \A k \in table : HasPipe(lines[k])
  OBVIOUS
<1>a. \A k \in alike : lines[k] \in Alike(lines[i])
  OBVIOUS
<1>p. \A k \in paragraph : InParagraph(lines, k)
  OBVIOUS
<1>y. /\ type \in Types /\ type = BlockType(lines, i)
      /\ type = "table" => StartsTable(lines, i)
      /\ type = "list" => lines[i] \in Bullets \cup Numbers
      /\ type = "quote" => lines[i] \in Quotes
  BY TypeOfLine
<1> HIDE DEF n, code, table, alike, paragraph, type
<1>3. CASE type = "codeBlock"
  <2>1. PICK c : c = closing
    OBVIOUS
  <2>2. c \in (i + 1)..(n + 1) /\ c \notin code /\ \A k \in (i + 1)..(c - 1) : k \in code
    BY <1>1, <1>2, <2>1, FirstOutsideIsFirst
  <2>3. PICK e : e = IF c <= n THEN c + 1 ELSE c
    OBVIOUS
  <2>4. BlockEnd(lines, i) = e
    BY <1>e, <1>3, <2>1, <2>3
  <2>5. e \in (i + 1)..(n + 1) /\ \A k \in (i + 1)..(e - 1) : k < e - 1 => k \in (i + 1)..(c - 1)
    BY <1>1, <2>2, <2>3
  <2>6. \A k \in (i + 1)..(e - 1) : Fits(lines, i, k, e, "codeBlock")
    BY <1>c, <2>2, <2>5 DEF Fits
  <2>7. e <= n => Stops(lines, i, e, "codeBlock")
    <3>1. SUFFICES ASSUME e <= n PROVE i < e - 1 /\ IsClosing(lines[e - 1])
      BY DEF Stops
    <3>2. c \in 1..n /\ e - 1 = c /\ i < c
      BY <1>1, <2>2, <2>3, <3>1
    <3>3. QED
      BY <1>1, <2>2, <3>2
  <2>8. IsBlock(lines, i, e, type)
    BY <1>3, <1>y, <2>5, <2>6, <2>7 DEF IsBlock, n
  <2>9. QED
    BY <2>4, <2>8 DEF type
<1>4. CASE type \in {"heading", "rule"}
  <2>1. PICK e : e = i + 1
    OBVIOUS
  <2>2. BlockEnd(lines, i) = e
    BY <1>e, <1>4, <2>1
  <2>3. e \in (i + 1)..(n + 1) /\ (i + 1)..(e - 1) = {} /\ i..(e - 1) = {i}
    BY <1>1, <2>1
  <2>4. Stops(lines, i, e, type)
    BY <1>4 DEF Stops
  <2>5. IsBlock(lines, i, e, type)
    BY <1>1, <1>y, <2>3, <2>4 DEF IsBlock, n
  <2>6. QED
    BY <2>2, <2>5 DEF type
<1>5. CASE type = "table"
  <2>1. HasPipe(lines[i]) /\ i < n /\ IsTableDivider(lines[i + 1])
    BY <1>5, <1>y DEF StartsTable, n
  <2>2. i + 2 \in 1..(n + 1)
    BY <1>1, <2>1
  <2>3. PICK e : e = FirstOutside(table, i + 2, n)
    OBVIOUS
  <2>4. e \in (i + 2)..(n + 1) /\ e \notin table /\ \A k \in (i + 2)..(e - 1) : k \in table
    BY <1>1, <1>2, <2>2, <2>3, FirstOutsideIsFirst
  <2>5. BlockEnd(lines, i) = e
    BY <1>e, <1>5, <2>3
  <2>6. e \in (i + 1)..(n + 1) /\ \A k \in (i + 1)..(e - 1) : k = i + 1 \/ (k \in (i + 2)..(e - 1) /\ k # i + 1)
    BY <1>1, <2>4
  <2>7. \A k \in (i + 1)..(e - 1) : IF k = i + 1 THEN IsTableDivider(lines[k]) ELSE HasPipe(lines[k])
    BY <1>t, <2>1, <2>4, <2>6
  <2>8. \A k \in i..(e - 1) : lines[k] # "blank"
    <3>1. ASSUME NEW k \in i..(e - 1) PROVE k = i \/ k \in (i + 1)..(e - 1)
      BY <1>1, <2>6
    <3>2. QED
      BY <2>1, <2>7, <3>1, BlankIsPlain
  <2>9. \A k \in (i + 1)..(e - 1) : Fits(lines, i, k, e, "table")
    BY <2>7 DEF Fits
  <2>10. e <= n => Stops(lines, i, e, "table")
    <3>1. SUFFICES ASSUME e <= n PROVE ~HasPipe(lines[e])
      BY DEF Stops
    <3>2. e \in 1..n
      BY <1>1, <2>6, <3>1
    <3>3. QED
      BY <1>1, <2>4, <3>2
  <2>11. IsBlock(lines, i, e, type)
    BY <1>5, <1>y, <2>6, <2>8, <2>9, <2>10 DEF IsBlock, n
  <2>12. QED
    BY <2>5, <2>11 DEF type
<1>6. CASE type \in {"list", "quote"}
  <2>1. PICK e : e = FirstOutside(alike, i + 1, n)
    OBVIOUS
  <2>2. e \in (i + 1)..(n + 1) /\ e \notin alike /\ \A k \in (i + 1)..(e - 1) : k \in alike
    BY <1>1, <1>2, <2>1, FirstOutsideIsFirst
  <2>3. BlockEnd(lines, i) = e
    BY <1>e, <1>6, <2>1
  <2>4. \A k \in (i + 1)..(e - 1) : lines[k] \in Alike(lines[i])
    BY <1>a, <2>2
  <2>5. /\ type = "list" => \/ lines[i] \in Bullets /\ Alike(lines[i]) = Bullets
                            \/ lines[i] \in Numbers /\ Alike(lines[i]) = Numbers
        /\ type = "quote" => Alike(lines[i]) = Quotes
    BY <1>y, AlikeIs
  <2>6. \A k \in i..(e - 1) : lines[k] # "blank"
    <3>1. ASSUME NEW k \in i..(e - 1) PROVE k = i \/ k \in (i + 1)..(e - 1)
      BY <1>1, <2>2
    <3>2. QED
      BY <1>1, <1>6, <2>4, <2>5, <3>1, BlankIsPlain
  <2>7. ASSUME NEW k \in (i + 1)..(e - 1) PROVE Fits(lines, i, k, e, type)
    BY <1>6, <2>4, <2>5 DEF Fits
  <2>8. e <= n => Stops(lines, i, e, type)
    <3>1. SUFFICES ASSUME e <= n PROVE lines[e] \notin Alike(lines[i])
      BY <1>6, <2>5 DEF Stops
    <3>2. e \in 1..n
      BY <1>1, <2>2, <3>1
    <3>3. QED
      BY <1>1, <2>2, <3>2
  <2>9. IsBlock(lines, i, e, type)
    BY <1>y, <2>2, <2>6, <2>7, <2>8 DEF IsBlock, n
  <2>10. QED
    BY <2>3, <2>9 DEF type
<1>7. CASE type = "paragraph"
  <2>1. PICK e : e = FirstOutside(paragraph, i + 1, n)
    OBVIOUS
  <2>2. e \in (i + 1)..(n + 1) /\ e \notin paragraph /\ \A k \in (i + 1)..(e - 1) : k \in paragraph
    BY <1>1, <1>2, <2>1, FirstOutsideIsFirst
  <2>3. BlockEnd(lines, i) = e
    BY <1>e, <1>7, <2>1
  <2>4. \A k \in (i + 1)..(e - 1) : InParagraph(lines, k)
    BY <1>p, <2>2
  <2>5. \A k \in i..(e - 1) : lines[k] # "blank"
    <3>1. ASSUME NEW k \in i..(e - 1) PROVE k = i \/ k \in (i + 1)..(e - 1)
      BY <1>1, <2>2
    <3>2. QED
      BY <1>1, <2>4, <3>1 DEF InParagraph
  <2>6. \A k \in (i + 1)..(e - 1) : Fits(lines, i, k, e, "paragraph")
    BY <2>4 DEF Fits, InParagraph
  <2>7. e <= n => Stops(lines, i, e, "paragraph")
    <3>1. SUFFICES ASSUME e <= n PROVE ~InParagraph(lines, e)
      BY DEF Stops
    <3>2. e \in 1..n
      BY <1>1, <2>2, <3>1
    <3>3. QED
      BY <1>1, <2>2, <3>2
  <2>8. IsBlock(lines, i, e, type)
    BY <1>7, <1>y, <2>2, <2>5, <2>6, <2>7 DEF IsBlock, n
  <2>9. QED
    BY <2>3, <2>8 DEF type
<1>8. QED
  BY <1>3, <1>4, <1>5, <1>6, <1>7, <1>y DEF Types

Block == [type : Types, first : Nat, last : Nat]

BlockAt(lines, i) == [type |-> BlockType(lines, i), first |-> i, last |-> BlockEnd(lines, i) - 1]

NextLine(lines, i) == IF IsBlank(lines[i]) THEN i + 1 ELSE BlockEnd(lines, i)

\* The next position to read is further on.
LEMMA BlocksFollow ==
    ASSUME NEW lines \in Seq(Lines)
    PROVE  \A i \in 1..Len(lines) :
              /\ NextLine(lines, i) \in (i + 1)..(Len(lines) + 1)
              /\ ~IsBlank(lines[i]) => BlockAt(lines, i) \in Block
<1> SUFFICES ASSUME NEW i \in 1..Len(lines)
             PROVE  /\ NextLine(lines, i) \in (i + 1)..(Len(lines) + 1)
                    /\ ~IsBlank(lines[i]) => BlockAt(lines, i) \in Block
  OBVIOUS
<1>1. Len(lines) \in Nat
  OBVIOUS
<1>2. CASE IsBlank(lines[i])
  BY <1>1, <1>2 DEF NextLine
<1>3. CASE ~IsBlank(lines[i])
  <2>1. PICK end, type : end = BlockEnd(lines, i) /\ type = BlockType(lines, i)
    OBVIOUS
  <2>2. IsBlock(lines, i, end, type)
    BY <1>3, <2>1, BlockEndIsEnd
  <2>3. end \in (i + 1)..(Len(lines) + 1) /\ type \in Types
    BY <2>2 DEF IsBlock
  <2>4. [type |-> type, first |-> i, last |-> end - 1] \in Block
    BY <1>1, <2>3 DEF Block
  <2>5. QED
    BY <1>3, <2>1, <2>3, <2>4 DEF NextLine, BlockAt
<1>4. QED
  BY <1>2, <1>3

\* What the parser returns from each line on.
Parses(parse, lines) ==
    /\ parse \in [1..(Len(lines) + 1) -> Seq(Block)]
    /\ parse[Len(lines) + 1] = <<>>
    /\ \A i \in 1..Len(lines) :
          parse[i] = IF IsBlank(lines[i]) THEN parse[NextLine(lines, i)]
                     ELSE <<BlockAt(lines, i)>> \o parse[NextLine(lines, i)]
    /\ ParseSafeMarkdown(lines) = parse[1]

\* What the recursive function of parseSafeMarkdown satisfies.
LEMMA ParseExists ==
    ASSUME NEW lines \in Seq(Lines)
    PROVE  \E parse : Parses(parse, lines)
<1> DEFINE n == Len(lines)
           V == Seq(Block)
           Put(i, x) == IF IsBlank(lines[i]) THEN x ELSE <<BlockAt(lines, i)>> \o x
           parse == CHOOSE p : p = [i \in 1..(Len(lines) + 1) |->
                      IF i = Len(lines) + 1 THEN <<>>
                      ELSE IF IsBlank(lines[i]) THEN p[i + 1]
                      ELSE <<[type |-> BlockType(lines, i), first |-> i, last |-> BlockEnd(lines, i) - 1]>>
                               \o p[BlockEnd(lines, i)]]
           step == [q \in (1..n) \X V |-> Put(q[1], q[2])]
           nxt == [i \in 1..n |-> NextLine(lines, i)]
<1>1. n \in Nat /\ <<>> \in V
  OBVIOUS
<1>2. /\ \A i \in 1..n : NextLine(lines, i) \in 1..(n + 1) /\ NextLine(lines, i) > i
      /\ \A i \in 1..n : ~IsBlank(lines[i]) => BlockAt(lines, i) \in Block
  <2>1. \A i \in 1..n : NextLine(lines, i) \in (i + 1)..(n + 1)
    BY BlocksFollow
  <2>2. QED
    BY <1>1, <2>1, BlocksFollow
<1>3. \A i \in 1..n, x \in V : Put(i, x) \in V
  BY <1>2, ConcatProperties
<1>4. ParseSafeMarkdown(lines) = parse[1]
  BY Zenon DEF ParseSafeMarkdown
<1> HIDE DEF n, V, Put, parse
<1>6. /\ step \in [(1..n) \X V -> V] /\ \A i \in 1..n, x \in V : step[<<i, x>>] = Put(i, x)
  BY <1>3
<1>7. nxt \in [1..n -> 1..(n + 1)] /\ \A i \in 1..n : nxt[i] = NextLine(lines, i) /\ nxt[i] > i
  BY <1>2
<1> HIDE DEF step, nxt
<1>8. PICK f \in [1..(n + 1) -> V] : Chains(f, n, <<>>, nxt, step)
  BY <1>1, <1>6, <1>7, ChainExists
<1>9. f[n + 1] = <<>> /\ \A i \in 1..n : f[i] = Put(i, f[NextLine(lines, i)])
  <2>1. \A i \in 1..n : f[nxt[i]] \in V
    BY <1>7
  <2>2. QED
    BY <1>6, <1>7, <1>8, <2>1 DEF Chains
<1>10. f = [i \in 1..(Len(lines) + 1) |->
            IF i = Len(lines) + 1 THEN <<>>
            ELSE IF IsBlank(lines[i]) THEN f[i + 1]
            ELSE <<[type |-> BlockType(lines, i), first |-> i, last |-> BlockEnd(lines, i) - 1]>>
                     \o f[BlockEnd(lines, i)]]
  <2>1. \A i \in 1..(n + 1) : i = n + 1 \/ i \in 1..n
    BY <1>1
  <2>2. ASSUME NEW i \in 1..n
        PROVE  f[i] = IF IsBlank(lines[i]) THEN f[i + 1]
                      ELSE <<[type |-> BlockType(lines, i), first |-> i, last |-> BlockEnd(lines, i) - 1]>>
                               \o f[BlockEnd(lines, i)]
    BY <1>9 DEF Put, NextLine, BlockAt
  <2>3. f = [i \in 1..(n + 1) |-> f[i]]
    OBVIOUS
  <2>4. \A i \in 1..n : i # n + 1
    BY <1>1
  <2>5. QED
    BY <1>9, <2>1, <2>2, <2>3, <2>4 DEF n
<1>11. parse = [i \in 1..(Len(lines) + 1) |->
            IF i = Len(lines) + 1 THEN <<>>
            ELSE IF IsBlank(lines[i]) THEN parse[i + 1]
            ELSE <<[type |-> BlockType(lines, i), first |-> i, last |-> BlockEnd(lines, i) - 1]>>
                     \o parse[BlockEnd(lines, i)]]
  BY <1>10, Zenon DEF parse
<1>12. parse[n + 1] = <<>> /\ \A i \in 1..n : parse[i] = Put(i, parse[NextLine(lines, i)])
  <2>1. n + 1 \in 1..(n + 1) /\ \A i \in 1..n : i \in 1..(n + 1) /\ i # n + 1
    BY <1>1
  <2>2. parse[n + 1] = <<>>
    BY <1>11, <2>1 DEF n
  <2>3. ASSUME NEW i \in 1..n
        PROVE  parse[i] = IF IsBlank(lines[i]) THEN parse[i + 1]
                          ELSE <<[type |-> BlockType(lines, i), first |-> i, last |-> BlockEnd(lines, i) - 1]>>
                                   \o parse[BlockEnd(lines, i)]
    BY <1>11, <2>1 DEF n
  <2>4. \A i \in 1..n : parse[i] = Put(i, parse[NextLine(lines, i)])
    BY <2>3 DEF Put, NextLine, BlockAt
  <2>5. QED
    BY <2>2, <2>4
<1>13. \A i \in 1..(n + 1) : parse[i] \in V
  <2> DEFINE T == {i \in 1..(n + 1) : parse[i] \in V}
  <2>1. n + 1 \in T
    BY <1>1, <1>12
  <2>2. ASSUME NEW i \in 1..n, nxt[i] \in T PROVE i \in T
    <3>1. nxt[i] = NextLine(lines, i) /\ i \in 1..(n + 1)
      BY <1>1, <1>7
    <3>2. parse[NextLine(lines, i)] \in V
      BY <2>2, <3>1
    <3>3. QED
      BY <1>3, <1>12, <3>1, <3>2
  <2> HIDE DEF T
  <2>3. \A i \in 1..(n + 1) : i \in T
    BY <1>1, <1>7, <2>1, <2>2, ChainInduction
  <2>4. QED
    BY <2>3 DEF T
<1>14. parse \in [1..(n + 1) -> V]
  <2>1. DOMAIN parse = 1..(n + 1) /\ parse = [i \in DOMAIN parse |-> parse[i]]
    BY <1>11 DEF n
  <2>2. QED
    BY <1>13, <2>1
<1>15. Parses(parse, lines)
  BY <1>4, <1>12, <1>14 DEF Parses, n, V, Put
<1>16. QED
  BY <1>15

\* Every line from i on that is not blank is in one of the blocks, which do not overlap.
CoversFrom(blocks, lines, i) ==
    /\ blocks \in Seq(Block)
    /\ \A b \in 1..Len(blocks) :
          /\ i <= blocks[b].first /\ blocks[b].first <= blocks[b].last /\ blocks[b].last <= Len(lines)
          /\ IsBlock(lines, blocks[b].first, blocks[b].last + 1, blocks[b].type)
    /\ \A b, c \in 1..Len(blocks) : b < c => blocks[b].last < blocks[c].first
    /\ \A k \in i..Len(lines) : lines[k] # "blank" =>
          \E b \in 1..Len(blocks) : blocks[b].first <= k /\ k <= blocks[b].last

\* A blank line makes no block.
LEMMA BlankIsSkipped ==
    ASSUME NEW lines \in Seq(Lines), NEW i \in 1..Len(lines), IsBlank(lines[i]),
           NEW x, CoversFrom(x, lines, i + 1)
    PROVE  CoversFrom(x, lines, i)
<1>1. \A b \in 1..Len(x) : i <= x[b].first
  <2>1. ASSUME NEW b \in 1..Len(x) PROVE i <= x[b].first
    <3>1. x[b] \in Block /\ i + 1 <= x[b].first
      BY DEF CoversFrom
    <3>2. QED
      BY <3>1 DEF Block
  <2>2. QED
    BY <2>1
<1>2. \A k \in i..Len(lines) : lines[k] # "blank" => k \in (i + 1)..Len(lines)
  BY DEF IsBlank
<1>3. QED
  BY <1>1, <1>2 DEF CoversFrom

\* A block in front of those that cover the rest.
LEMMA BlockIsAdded ==
    ASSUME NEW lines \in Seq(Lines), NEW i \in 1..Len(lines), ~IsBlank(lines[i]),
           NEW x, CoversFrom(x, lines, BlockEnd(lines, i))
    PROVE  CoversFrom(<<BlockAt(lines, i)>> \o x, lines, i)
<1> DEFINE blk == BlockAt(lines, i)
           y == <<blk>> \o x
           m == Len(x)
<1>1. PICK end : end = BlockEnd(lines, i)
  OBVIOUS
<1>2. IsBlock(lines, i, end, BlockType(lines, i))
  BY <1>1, BlockEndIsEnd
<1>3. end \in (i + 1)..(Len(lines) + 1) /\ Len(lines) \in Nat
  BY <1>2 DEF IsBlock
<1>4. blk \in Block /\ blk.type = BlockType(lines, i) /\ blk.first = i /\ blk.last = end - 1
  BY <1>1, BlocksFollow DEF BlockAt
<1> HIDE DEF blk
<1>5. /\ x \in Seq(Block) /\ m \in Nat /\ \A b \in 1..m : x[b] \in Block
      /\ \A b \in 1..m : /\ end <= x[b].first /\ x[b].first <= x[b].last /\ x[b].last <= Len(lines)
                         /\ IsBlock(lines, x[b].first, x[b].last + 1, x[b].type)
      /\ \A b, c \in 1..m : b < c => x[b].last < x[c].first
      /\ \A k \in end..Len(lines) : lines[k] # "blank" =>
            \E b \in 1..m : x[b].first <= k /\ k <= x[b].last
  BY <1>1 DEF CoversFrom
<1>6. /\ y \in Seq(Block) /\ Len(y) = 1 + m /\ y[1] = blk
      /\ \A b \in 2..(1 + m) : b - 1 \in 1..m /\ y[b] = x[b - 1]
  <2>1. <<blk>> \in Seq(Block) /\ Len(<<blk>>) = 1 /\ <<blk>>[1] = blk
    BY <1>4
  <2>2. /\ y \in Seq(Block) /\ Len(y) = 1 + m
        /\ \A b \in 1..(1 + m) : y[b] = IF b <= 1 THEN <<blk>>[b] ELSE x[b - 1]
    BY <1>5, <2>1, ConcatProperties
  <2> HIDE DEF y, m
  <2>3. 1 \in 1..(1 + m) /\ \A b \in 2..(1 + m) : b \in 1..(1 + m) /\ ~(b <= 1) /\ b - 1 \in 1..m
    BY <1>5
  <2>4. QED
    BY <2>1, <2>2, <2>3
<1> HIDE DEF y, m
<1>7. \A b \in 1..(1 + m) : b = 1 \/ b \in 2..(1 + m)
  BY <1>5
<1>8. ASSUME NEW b \in 1..(1 + m)
      PROVE  /\ i <= y[b].first /\ y[b].first <= y[b].last /\ y[b].last <= Len(lines)
             /\ IsBlock(lines, y[b].first, y[b].last + 1, y[b].type)
  <2>1. CASE b = 1
    <3>1. (end - 1) + 1 = end
      BY <1>3
    <3>2. IsBlock(lines, y[b].first, y[b].last + 1, y[b].type)
      BY <1>2, <1>4, <1>6, <2>1, <3>1
    <3>3. QED
      BY <1>3, <1>4, <1>6, <2>1, <3>2
  <2>2. CASE b \in 2..(1 + m)
    <3>1. PICK z \in Block : z = x[b - 1] /\ z = y[b]
      BY <1>5, <1>6, <2>2
    <3>2. /\ end <= z.first /\ z.first <= z.last /\ z.last <= Len(lines)
          /\ IsBlock(lines, z.first, z.last + 1, z.type)
      BY <1>5, <1>6, <2>2, <3>1
    <3>3. i <= z.first
      BY <1>3, <3>2 DEF Block
    <3>4. QED
      BY <3>1, <3>2, <3>3
  <2>3. QED
    BY <1>7, <2>1, <2>2
<1>9. ASSUME NEW b \in 1..(1 + m), NEW c \in 1..(1 + m), b < c PROVE y[b].last < y[c].first
  <2>1. c \in 2..(1 + m)
    BY <1>5, <1>9
  <2>2. PICK z \in Block : z = x[c - 1] /\ z = y[c] /\ end <= z.first
    BY <1>5, <1>6, <2>1
  <2>3. CASE b = 1
    <3>1. end - 1 < z.first
      BY <1>3, <2>2 DEF Block
    <3>2. QED
      BY <1>4, <1>6, <2>2, <2>3, <3>1
  <2>4. CASE b \in 2..(1 + m)
    <3>1. b - 1 \in 1..m /\ c - 1 \in 1..m /\ b - 1 < c - 1
      BY <1>5, <1>9, <2>1, <2>4
    <3>2. QED
      BY <1>5, <1>6, <2>1, <2>4, <3>1
  <2>5. QED
    BY <1>7, <2>3, <2>4
<1>10. ASSUME NEW k \in i..Len(lines), lines[k] # "blank"
       PROVE  \E b \in 1..(1 + m) : y[b].first <= k /\ k <= y[b].last
  <2>1. CASE k < end
    <3>1. 1 \in 1..(1 + m) /\ i <= k /\ k <= end - 1
      BY <1>3, <1>5, <2>1
    <3>2. QED
      BY <1>4, <1>6, <3>1
  <2>2. CASE ~(k < end)
    <3>1. k \in end..Len(lines)
      BY <1>3, <2>2
    <3>2. PICK b \in 1..m : x[b].first <= k /\ k <= x[b].last
      BY <1>5, <1>10, <3>1
    <3>3. b + 1 \in 2..(1 + m) /\ (b + 1) - 1 = b /\ b + 1 \in 1..(1 + m)
      BY <1>5
    <3>4. y[b + 1] = x[b]
      BY <1>6, <3>3
    <3>5. QED
      BY <3>2, <3>3, <3>4
  <2>3. QED
    BY <2>1, <2>2
<1>11. CoversFrom(y, lines, i)
  BY <1>6, <1>8, <1>9, <1>10 DEF CoversFrom
<1>12. QED
  BY <1>11 DEF y, blk

\* The blocks cover the document from its first line.
LEMMA BlocksCoverFromFirst ==
    ASSUME NEW lines \in Seq(Lines)
    PROVE  CoversFrom(ParseSafeMarkdown(lines), lines, 1)
<1>1. PICK parse : Parses(parse, lines)
  BY ParseExists
<1> DEFINE n == Len(lines)
           T == {i \in 1..(n + 1) : CoversFrom(parse[i], lines, i)}
           nxt == [i \in 1..n |-> NextLine(lines, i)]
<1>2. n \in Nat
  OBVIOUS
<1>3. n + 1 \in T
  <2>1. parse[n + 1] = <<>> /\ Len(<<>>) = 0 /\ <<>> \in Seq(Block)
    BY <1>1 DEF Parses
  <2>2. 1..0 = {} /\ (n + 1)..n = {}
    BY <1>2
  <2>3. CoversFrom(<<>>, lines, n + 1)
    BY <2>1, <2>2 DEF CoversFrom
  <2>4. QED
    BY <1>2, <2>1, <2>3
<1>4. \A i \in 1..n : NextLine(lines, i) \in 1..(n + 1) /\ NextLine(lines, i) > i
  <2>1. \A i \in 1..n : NextLine(lines, i) \in (i + 1)..(n + 1)
    BY BlocksFollow
  <2>2. QED
    BY <1>2, <2>1
<1>5. nxt \in [1..n -> 1..(n + 1)] /\ \A i \in 1..n : nxt[i] = NextLine(lines, i) /\ nxt[i] > i
  BY <1>4
<1>6. ASSUME NEW i \in 1..n, nxt[i] \in T PROVE i \in T
  <2>1. PICK next, x : next = NextLine(lines, i) /\ x = parse[next]
    OBVIOUS
  <2>2. CoversFrom(x, lines, next)
    BY <1>5, <1>6, <2>1
  <2>3. parse[i] = IF IsBlank(lines[i]) THEN x ELSE <<BlockAt(lines, i)>> \o x
    BY <1>1, <2>1 DEF Parses
  <2>4. CoversFrom(parse[i], lines, i)
    <3>1. CASE IsBlank(lines[i])
      <4>1. next = i + 1 /\ parse[i] = x
        BY <2>1, <2>3, <3>1 DEF NextLine
      <4>2. CoversFrom(x, lines, i)
        BY <2>2, <3>1, <4>1, BlankIsSkipped
      <4>3. QED
        BY <4>1, <4>2
    <3>2. CASE ~IsBlank(lines[i])
      <4>1. next = BlockEnd(lines, i) /\ parse[i] = <<BlockAt(lines, i)>> \o x
        BY <2>1, <2>3, <3>2 DEF NextLine
      <4>2. CoversFrom(<<BlockAt(lines, i)>> \o x, lines, i)
        BY <2>2, <3>2, <4>1, BlockIsAdded
      <4>3. QED
        BY <4>1, <4>2
    <3>3. QED
      BY <3>1, <3>2
  <2>5. i \in 1..(n + 1)
    BY <1>2
  <2>6. QED
    BY <2>4, <2>5
<1> HIDE DEF n, T, nxt
<1>7. \A i \in 1..(n + 1) : i \in T
  BY <1>2, <1>3, <1>5, <1>6, ChainInduction
<1>8. 1 \in T
  BY <1>2, <1>7
<1>9. CoversFrom(parse[1], lines, 1)
  BY <1>8 DEF T
<1>10. QED
  BY <1>1, <1>9 DEF Parses

\* parseSafeMarkdown: for every report, each line that is not blank is in exactly one
\* block, with lines of its own kind, the blocks are in the order of the lines, and none is
\* broken in two.
THEOREM BlocksAlwaysCover ==
    ASSUME NEW lines \in Seq(Lines)
    PROVE  BlocksCover(lines) /\ LinesFitBlocks(lines) /\ BlocksAreWhole(lines)
<1>1. PICK blocks : blocks = ParseSafeMarkdown(lines) /\ CoversFrom(blocks, lines, 1)
  BY BlocksCoverFromFirst
<1> DEFINE m == Len(blocks)
<1>2. /\ blocks \in Seq(Block) /\ m \in Nat /\ DOMAIN blocks = 1..m /\ DOMAIN lines = 1..Len(lines)
      /\ \A b \in 1..m : blocks[b] \in Block
      /\ \A b \in 1..m : IsBlock(lines, blocks[b].first, blocks[b].last + 1, blocks[b].type)
      /\ \A b, c \in 1..m : b < c => blocks[b].last < blocks[c].first
      /\ \A k \in 1..Len(lines) : lines[k] # "blank" =>
            \E b \in 1..m : blocks[b].first <= k /\ k <= blocks[b].last
  BY <1>1 DEF CoversFrom
<1> HIDE DEF m
<1> DEFINE Around(k) == {b \in DOMAIN blocks : blocks[b].first <= k /\ k <= blocks[b].last}
<1>3. ASSUME NEW b \in 1..m
      PROVE  /\ blocks[b].first \in Nat /\ blocks[b].last \in Nat /\ (blocks[b].last + 1) - 1 = blocks[b].last
             /\ \A k \in blocks[b].first..blocks[b].last : lines[k] = "blank" => blocks[b].type = "codeBlock"
             /\ \A k \in (blocks[b].first + 1)..blocks[b].last :
                   Fits(lines, blocks[b].first, k, blocks[b].last + 1, blocks[b].type)
  <2>1. PICK z \in Block : z = blocks[b]
    BY <1>2
  <2>2. z.first \in Nat /\ z.last \in Nat /\ (z.last + 1) - 1 = z.last
    BY DEF Block
  <2>3. IsBlock(lines, z.first, z.last + 1, z.type)
    BY <1>2, <2>1
  <2>4. QED
    BY <2>1, <2>2, <2>3 DEF IsBlock
<1>4. ASSUME NEW k \in 1..Len(lines), lines[k] # "blank" PROVE Cardinality(Around(k)) = 1
  <2>1. PICK b \in 1..m : blocks[b].first <= k /\ k <= blocks[b].last
    BY <1>2, <1>4
  <2>2. ASSUME NEW c \in 1..m, blocks[c].first <= k, k <= blocks[c].last PROVE c = b
    <3>1. ASSUME b < c PROVE FALSE
      <4>1. blocks[b].last < blocks[c].first
        BY <1>2, <3>1
      <4>2. QED
        BY <1>3, <2>1, <2>2, <4>1
    <3>2. ASSUME c < b PROVE FALSE
      <4>1. blocks[c].last < blocks[b].first
        BY <1>2, <3>2
      <4>2. QED
        BY <1>3, <2>1, <2>2, <4>1
    <3>3. QED
      BY <1>2, <3>1, <3>2
  <2>3. Around(k) = {b}
    BY <1>2, <2>1, <2>2
  <2>4. QED
    BY <2>3, FS_Singleton
<1>5. ASSUME NEW k \in 1..Len(lines), lines[k] = "blank", NEW b \in Around(k)
      PROVE  blocks[b].type = "codeBlock"
  <2>1. b \in 1..m /\ k \in blocks[b].first..blocks[b].last
    BY <1>2, <1>3
  <2>2. QED
    BY <1>3, <1>5, <2>1
<1>6. BlocksCover(lines)
  <2>1. \A i \in DOMAIN lines :
           IF lines[i] = "blank" THEN \A b \in Around(i) : blocks[b].type = "codeBlock"
           ELSE Cardinality(Around(i)) = 1
    BY <1>2, <1>4, <1>5
  <2>2. \A b, c \in DOMAIN blocks : b < c => blocks[b].last < blocks[c].first
    BY <1>2
  <2>3. QED
    BY <1>1, <2>1, <2>2, Zenon DEF BlocksCover
<1>7. LinesFitBlocks(lines)
  <2> HIDE DEF Around
  <2>1. SUFFICES ASSUME NEW b \in 1..m, NEW i \in (blocks[b].first + 1)..blocks[b].last
                 PROVE  CASE blocks[b].type = "codeBlock" -> i < blocks[b].last => ~IsClosing(lines[i])
                          [] blocks[b].type = "table" ->
                                IF i = blocks[b].first + 1 THEN IsTableDivider(lines[i]) ELSE HasPipe(lines[i])
                          [] blocks[b].type = "list" -> {lines[blocks[b].first], lines[i]} \subseteq Bullets
                                                        \/ {lines[blocks[b].first], lines[i]} \subseteq Numbers
                          [] blocks[b].type = "quote" -> lines[i] \in Quotes
                          [] blocks[b].type = "paragraph" ->
                                /\ lines[i] \notin Headings \cup Bullets \cup Numbers \cup Quotes \cup Fences
                                /\ ~StartsTable(lines, i)
                          [] OTHER -> FALSE
    BY <1>1, <1>2, Zenon DEF LinesFitBlocks
  <2>2. (blocks[b].last + 1) - 1 = blocks[b].last
    BY <1>3
  <2>3. Fits(lines, blocks[b].first, i, blocks[b].last + 1, blocks[b].type)
    BY <1>3, <2>1
  <2>4. QED
    BY <2>2, <2>3 DEF Fits
<1>8. BlocksAreWhole(lines)
  <2> HIDE DEF Around
  <2>1. ASSUME NEW b \in 1..m, NEW c \in 1..m, blocks[b].last + 1 = blocks[c].first,
               blocks[b].type = blocks[c].type
        PROVE  CASE blocks[b].type \in {"heading", "rule"} -> TRUE
                 [] blocks[b].type = "codeBlock" ->
                       blocks[b].first < blocks[b].last /\ IsClosing(lines[blocks[b].last])
                 [] blocks[b].type = "list" -> lines[blocks[b].first] \in Bullets <=> lines[blocks[c].first] \in Numbers
                 [] blocks[b].type = "paragraph" -> lines[blocks[c].first] \in Markers
                 [] OTHER -> FALSE
    <3>1. PICK y \in Block, z \in Block : y = blocks[b] /\ z = blocks[c]
      BY <1>2
    <3>2. IsBlock(lines, y.first, y.last + 1, y.type) /\ IsBlock(lines, z.first, z.last + 1, z.type)
      BY <1>2, <3>1
    <3>3. y.first \in Nat /\ y.last \in Nat /\ z.first \in Nat /\ z.last \in Nat /\ y.type \in Types
          /\ y.last + 1 = z.first /\ y.type = z.type /\ (y.last + 1) - 1 = y.last
      BY <2>1, <3>1 DEF Block
    <3>4. z.first <= Len(lines) /\ z.first \in z.first..((z.last + 1) - 1)
      BY <3>2, <3>3 DEF IsBlock
    <3>5. Stops(lines, y.first, z.first, y.type)
      BY <3>2, <3>3, <3>4 DEF IsBlock
    <3>6. BlockType(lines, y.first) = y.type /\ BlockType(lines, z.first) = y.type
      BY <3>2, <3>3 DEF IsBlock
    <3>7. lines[z.first] = "blank" => y.type = "codeBlock"
      BY <3>2, <3>3, <3>4 DEF IsBlock
    <3>8. CASE y.type \in {"heading", "rule"}
      BY <3>1, <3>8
    <3>9. CASE y.type = "codeBlock"
      <4>1. z.first - 1 = y.last
        BY <3>3
      <4>2. y.first < y.last /\ IsClosing(lines[y.last])
        BY <3>5, <3>9, <4>1 DEF Stops
      <4>3. QED
        BY <3>1, <3>9, <4>2
    <3>10. CASE y.type = "table"
      <4>1. ~HasPipe(lines[z.first])
        BY <3>5, <3>10 DEF Stops
      <4>2. HasPipe(lines[z.first])
        BY <3>6, <3>10, TypeOfLine DEF StartsTable
      <4>3. QED
        BY <4>1, <4>2
    <3>11. CASE y.type = "list"
      <4>1. lines[z.first] \notin Alike(lines[y.first])
        BY <3>5, <3>11 DEF Stops
      <4>2. lines[y.first] \in Bullets \cup Numbers /\ lines[z.first] \in Bullets \cup Numbers
        BY <3>6, <3>11, TypeOfLine
      <4>3. \A line : ~(line \in Bullets /\ line \in Numbers)
        BY DEF Bullets, Numbers
      <4>4. lines[y.first] \in Bullets <=> lines[z.first] \in Numbers
        BY <4>1, <4>2, <4>3, AlikeIs
      <4>5. QED
        BY <3>1, <3>11, <4>4
    <3>12. CASE y.type = "quote"
      <4>1. lines[z.first] \notin Quotes
        BY <3>5, <3>12 DEF Stops
      <4>2. lines[z.first] \in Quotes
        BY <3>6, <3>12, TypeOfLine
      <4>3. QED
        BY <4>1, <4>2
    <3>13. CASE y.type = "paragraph"
      <4>1. ~InParagraph(lines, z.first)
        BY <3>5, <3>13 DEF Stops
      <4>2. /\ lines[z.first] \notin Headings \cup Bullets \cup Numbers \cup Quotes \cup Fences
            /\ ~StartsTable(lines, z.first)
        BY <3>6, <3>13, TypeOfLine
      <4>3. lines[z.first] # "blank"
        BY <3>7, <3>13
      <4>4. lines[z.first] \in Markers
        BY <4>1, <4>2, <4>3, Zenon DEF InParagraph
      <4>5. QED
        BY <3>1, <3>13, <4>4
    <3>14. QED
      BY <3>3, <3>8, <3>9, <3>10, <3>11, <3>12, <3>13 DEF Types
  <2>2. QED
    BY <1>1, <1>2, <2>1, Zenon DEF BlocksAreWhole
<1>9. QED
  BY <1>6, <1>7, <1>8

-----------------------------------------------------------------------------
(* The list of projects *)

HeadsTable(lines, h) == h < Len(lines) /\ lines[h] # "text" /\ lines[h + 1] = "tableDivider"

NextRow(lines, i) == IF HeadsTable(lines, i) THEN i + 2 ELSE i + 1

\* What line i adds to the rows x of the lines behind it.
RowsFrom(lines, i, x, columns) ==
    IF lines[i] = "text" THEN x[FALSE]
    ELSE IF HeadsTable(lines, i) THEN x[lines[i] = "header"]
    ELSE (IF columns /\ lines[i] = "project" THEN {i} ELSE {}) \cup x[columns]

\* The next line to read is further on.
LEMMA RowsFollow ==
    ASSUME NEW lines \in Seq(ProjectLines)
    PROVE  \A i \in 1..Len(lines) : NextRow(lines, i) \in 1..(Len(lines) + 1) /\ NextRow(lines, i) > i
<1>1. Len(lines) \in Nat
  OBVIOUS
<1>2. QED
  BY <1>1 DEF NextRow, HeadsTable

RowSets == [BOOLEAN -> SUBSET Nat]

\* The positions of projects from each line on, with columns known or not.
Scans(scan, lines) ==
    /\ scan \in [1..(Len(lines) + 1) -> RowSets]
    /\ \A columns \in BOOLEAN : scan[Len(lines) + 1][columns] = {}
    /\ \A i \in 1..Len(lines), columns \in BOOLEAN :
          scan[i][columns] = RowsFrom(lines, i, scan[NextRow(lines, i)], columns)
    /\ ParseProjects(lines) = scan[1][FALSE]

\* What the recursive function of parseProjects satisfies.
LEMMA ScanExists ==
    ASSUME NEW lines \in Seq(ProjectLines)
    PROVE  \E scan : Scans(scan, lines)
<1> DEFINE n == Len(lines)
           V == RowSets
           none == [columns \in BOOLEAN |-> {}]
           Row(i, x) == [columns \in BOOLEAN |-> RowsFrom(lines, i, x, columns)]
           Heads(i) == i < Len(lines) /\ lines[i + 1] = "tableDivider"
           Body(g, i, columns) ==
                IF i = Len(lines) + 1 THEN {}
                ELSE IF lines[i] = "text" THEN g[i + 1][ColumnsAfterText(columns)]
                ELSE IF Heads(i) THEN g[i + 2][lines[i] = "header"]
                ELSE (IF columns /\ lines[i] = "project" THEN {i} ELSE {}) \cup g[i + 1][columns]
           scan == CHOOSE g : g = [i \in 1..(Len(lines) + 1) |-> [columns \in BOOLEAN |-> Body(g, i, columns)]]
           step == [q \in (1..n) \X V |-> Row(q[1], q[2])]
           nxt == [i \in 1..n |-> NextRow(lines, i)]
<1>1. n \in Nat /\ none \in V
  BY DEF RowSets
<1>2. \A i \in 1..n, x \in V : Row(i, x) \in V
  <2>1. ASSUME NEW i \in 1..n, NEW x \in V, NEW columns \in BOOLEAN
        PROVE  RowsFrom(lines, i, x, columns) \in SUBSET Nat
    <3>1. (lines[i] = "header") \in BOOLEAN /\ FALSE \in BOOLEAN /\ i \in Nat
      OBVIOUS
    <3>2. x[FALSE] \in SUBSET Nat /\ x[columns] \in SUBSET Nat /\ x[lines[i] = "header"] \in SUBSET Nat
      BY <3>1, Zenon DEF RowSets
    <3>3. QED
      BY <3>1, <3>2 DEF RowsFrom
  <2>2. QED
    BY <2>1 DEF RowSets
<1>3. ParseProjects(lines) = scan[1][FALSE]
  BY Zenon DEF ParseProjects
<1>4. \A i \in 1..n : NextRow(lines, i) \in 1..(n + 1) /\ NextRow(lines, i) > i
  BY RowsFollow
<1>5. ASSUME NEW g, NEW i \in 1..n, NEW columns \in BOOLEAN
      PROVE  Body(g, i, columns) = RowsFrom(lines, i, g[NextRow(lines, i)], columns)
  <2>1. i # Len(lines) + 1
    OBVIOUS
  <2>2. CASE lines[i] = "text"
    BY <2>1, <2>2 DEF RowsFrom, NextRow, HeadsTable, ColumnsAfterText
  <2>3. CASE lines[i] # "text" /\ Heads(i)
    BY <2>1, <2>3 DEF RowsFrom, NextRow, HeadsTable
  <2>4. CASE lines[i] # "text" /\ ~Heads(i)
    BY <2>1, <2>4 DEF RowsFrom, NextRow, HeadsTable
  <2>5. QED
    BY <2>2, <2>3, <2>4
<1>b. \A g, columns : Body(g, n + 1, columns) = {}
  OBVIOUS
<1> HIDE DEF n, V, none, Body, scan
<1>6. /\ step \in [(1..n) \X V -> V] /\ \A i \in 1..n, x \in V : step[<<i, x>>] = Row(i, x)
  BY <1>2
<1> HIDE DEF step, Row
<1>7. nxt \in [1..n -> 1..(n + 1)] /\ \A i \in 1..n : nxt[i] = NextRow(lines, i) /\ nxt[i] > i
  BY <1>4
<1> HIDE DEF nxt
<1>8. PICK f \in [1..(n + 1) -> V] : Chains(f, n, none, nxt, step)
  BY <1>1, <1>6, <1>7, ChainExists
<1>9. f[n + 1] = none /\ \A i \in 1..n : f[i] = Row(i, f[NextRow(lines, i)]) /\ f[NextRow(lines, i)] \in V
  <2>1. \A i \in 1..n : f[nxt[i]] \in V
    BY <1>7
  <2>2. QED
    BY <1>6, <1>7, <1>8, <2>1 DEF Chains
<1>10. f = [i \in 1..(Len(lines) + 1) |-> [columns \in BOOLEAN |-> Body(f, i, columns)]]
  <2>1. \A i \in 1..(n + 1) : i = n + 1 \/ i \in 1..n
    BY <1>1
  <2>2. f[n + 1] = [columns \in BOOLEAN |-> Body(f, n + 1, columns)]
    BY <1>9, <1>b DEF none
  <2>3. ASSUME NEW i \in 1..n PROVE f[i] = [columns \in BOOLEAN |-> Body(f, i, columns)]
    <3>1. \A columns \in BOOLEAN : Body(f, i, columns) = RowsFrom(lines, i, f[NextRow(lines, i)], columns)
      BY <1>5
    <3>2. f[i] = Row(i, f[NextRow(lines, i)])
      BY <1>9
    <3>3. QED
      BY <3>1, <3>2 DEF Row
  <2>4. f = [i \in 1..(n + 1) |-> f[i]]
    OBVIOUS
  <2>5. QED
    BY <2>1, <2>2, <2>3, <2>4 DEF n
<1>11. scan = [i \in 1..(Len(lines) + 1) |-> [columns \in BOOLEAN |-> Body(scan, i, columns)]]
  BY <1>10, Zenon DEF scan
<1>12. ASSUME NEW i \in 1..(n + 1) PROVE scan[i] = [columns \in BOOLEAN |-> Body(scan, i, columns)]
  BY <1>11 DEF n
<1>13. /\ \A columns \in BOOLEAN : scan[n + 1][columns] = {}
       /\ \A i \in 1..n : scan[i] = Row(i, scan[NextRow(lines, i)])
       /\ \A i \in 1..n, columns \in BOOLEAN :
             scan[i][columns] = RowsFrom(lines, i, scan[NextRow(lines, i)], columns)
  <2>1. n + 1 \in 1..(n + 1) /\ \A i \in 1..n : i \in 1..(n + 1)
    BY <1>1
  <2>2. \A columns \in BOOLEAN : scan[n + 1][columns] = {}
    <3>1. scan[n + 1] = [columns \in BOOLEAN |-> Body(scan, n + 1, columns)]
      BY <1>12, <2>1
    <3>2. \A columns \in BOOLEAN : Body(scan, n + 1, columns) = {}
      BY <1>b
    <3>3. QED
      BY <3>1, <3>2
  <2>3. ASSUME NEW i \in 1..n PROVE scan[i] = Row(i, scan[NextRow(lines, i)])
    <3>1. \A columns \in BOOLEAN :
             Body(scan, i, columns) = RowsFrom(lines, i, scan[NextRow(lines, i)], columns)
      BY <1>5
    <3>2. scan[i] = [columns \in BOOLEAN |-> Body(scan, i, columns)]
      BY <1>12, <2>1
    <3>3. QED
      BY <3>1, <3>2 DEF Row
  <2>4. QED
    BY <2>2, <2>3 DEF Row
<1>14. \A i \in 1..(n + 1) : scan[i] \in V
  <2> DEFINE T == {i \in 1..(n + 1) : scan[i] \in V}
  <2>1. n + 1 \in T
    <3>1. n + 1 \in 1..(n + 1)
      BY <1>1
    <3>2. scan[n + 1] = [columns \in BOOLEAN |-> Body(scan, n + 1, columns)]
      BY <1>12, <3>1
    <3>3. \A columns \in BOOLEAN : Body(scan, n + 1, columns) = {}
      BY <1>b
    <3>4. scan[n + 1] = none
      BY <3>2, <3>3 DEF none
    <3>5. QED
      BY <1>1, <3>1, <3>4
  <2>2. ASSUME NEW i \in 1..n, nxt[i] \in T PROVE i \in T
    <3>1. nxt[i] = NextRow(lines, i) /\ i \in 1..(n + 1)
      BY <1>1, <1>7
    <3>2. scan[NextRow(lines, i)] \in V
      BY <2>2, <3>1
    <3>3. Row(i, scan[NextRow(lines, i)]) \in V
      BY <1>2, <3>2 DEF Row
    <3>4. QED
      BY <1>13, <3>1, <3>3
  <2> HIDE DEF T
  <2>3. \A i \in 1..(n + 1) : i \in T
    BY <1>1, <1>7, <2>1, <2>2, ChainInduction
  <2>4. QED
    BY <2>3 DEF T
<1>15. scan \in [1..(n + 1) -> V]
  <2>1. DOMAIN scan = 1..(n + 1) /\ scan = [i \in DOMAIN scan |-> scan[i]]
    BY <1>11 DEF n
  <2>2. QED
    BY <1>14, <2>1
<1>16. Scans(scan, lines)
  BY <1>3, <1>13, <1>15 DEF Scans, n, V
<1>17. QED
  BY <1>16

\* The row at p belongs to the table with the required columns that the row h heads.
Under(lines, h, p) ==
    /\ HeadsTable(lines, h) /\ lines[h] = "header"
    /\ \A k \in h..p : lines[k] # "text"
    /\ \A k \in (h + 1)..p : ~HeadsTable(lines, k)

\* From i to p one table goes on.
GoesOn(lines, i, p) == \A k \in i..p : lines[k] # "text" /\ ~HeadsTable(lines, k)

\* The projects from line i on, with columns known or not at line i.
ProjectsFrom(lines, i, columns) ==
    {p \in i..Len(lines) :
        /\ lines[p] = "project" /\ ~HeadsTable(lines, p)
        /\ \/ \E h \in i..(p - 1) : Under(lines, h, p)
           \/ columns /\ GoesOn(lines, i, p)}

\* The rows from one line on are the projects from that line on.
LEMMA RowsAreProjects ==
    ASSUME NEW lines \in Seq(ProjectLines), NEW i \in 1..Len(lines), NEW columns \in BOOLEAN,
           \A h \in 1..Len(lines) : HeadsTable(lines, h) => lines[h] # "tableDivider",
           NEW x, \A c \in BOOLEAN : x[c] = ProjectsFrom(lines, NextRow(lines, i), c)
    PROVE  RowsFrom(lines, i, x, columns) = ProjectsFrom(lines, i, columns)
<1> DEFINE n == Len(lines)
<1>1. n \in Nat /\ i \in 1..n
  OBVIOUS
<1> HIDE DEF n
<1>n. n = Len(lines)
  BY DEF n
<1>s. \A p \in i..n : p = i \/ p \in (i + 1)..n
  BY <1>1
<1>t. ASSUME NEW p \in (i + 1)..n
      PROVE  /\ i \in i..(p - 1) /\ i \in i..p
             /\ \A h \in i..(p - 1) : h = i \/ h \in (i + 1)..(p - 1)
             /\ \A k \in i..p : k = i \/ k \in (i + 1)..p
  BY <1>1
<1>2. CASE lines[i] = "text"
  <2>1. NextRow(lines, i) = i + 1 /\ ~HeadsTable(lines, i)
    BY <1>2 DEF NextRow, HeadsTable
  <2>2. RowsFrom(lines, i, x, columns) = ProjectsFrom(lines, i + 1, FALSE)
    BY <1>2, <2>1 DEF RowsFrom
  <2>3. ASSUME NEW p \in (i + 1)..n
        PROVE  /\ (\E h \in i..(p - 1) : Under(lines, h, p)) <=> \E h \in (i + 1)..(p - 1) : Under(lines, h, p)
               /\ ~GoesOn(lines, i, p)
    <3>1. ~Under(lines, i, p)
      BY <2>1 DEF Under
    <3>2. ~GoesOn(lines, i, p)
      BY <1>2, <1>t DEF GoesOn
    <3>3. \A h \in (i + 1)..(p - 1) : h \in i..(p - 1)
      BY <1>1
    <3>4. QED
      BY <1>t, <3>1, <3>2, <3>3
  <2>4. lines[i] # "project" /\ \A p \in (i + 1)..n : p \in i..n
    BY <1>1, <1>2
  <2>5. ProjectsFrom(lines, i + 1, FALSE) = ProjectsFrom(lines, i, columns)
    BY <1>s, <1>n, <2>3, <2>4 DEF ProjectsFrom
  <2>6. QED
    BY <2>2, <2>5
<1>3. CASE HeadsTable(lines, i)
  <2>1. NextRow(lines, i) = i + 2 /\ lines[i] # "text" /\ lines[i + 1] = "tableDivider" /\ i + 1 \in 1..n
    BY <1>1, <1>3, <1>n DEF NextRow, HeadsTable
  <2>2. ~HeadsTable(lines, i + 1) /\ lines[i + 1] # "text" /\ lines[i + 1] # "project"
    BY <1>n, <2>1
  <2>3. RowsFrom(lines, i, x, columns) = ProjectsFrom(lines, i + 2, lines[i] = "header")
    BY <1>3, <2>1 DEF RowsFrom
  <2>4. ASSUME NEW p \in (i + 2)..n
        PROVE  /\ (\E h \in i..(p - 1) : Under(lines, h, p))
                      <=> \/ \E h \in (i + 2)..(p - 1) : Under(lines, h, p)
                          \/ lines[i] = "header" /\ GoesOn(lines, i + 2, p)
               /\ ~GoesOn(lines, i, p)
    <3>1. /\ \A h \in i..(p - 1) : h = i \/ h = i + 1 \/ h \in (i + 2)..(p - 1)
          /\ \A h \in (i + 2)..(p - 1) : h \in i..(p - 1)
          /\ i \in i..(p - 1)
      BY <1>1
    <3>2. ~Under(lines, i + 1, p)
      BY <2>2 DEF Under
    <3>3. /\ \A k \in i..p : k = i \/ k = i + 1 \/ k \in (i + 2)..p
          /\ \A k \in (i + 1)..p : k = i + 1 \/ k \in (i + 2)..p
          /\ \A k \in (i + 2)..p : k \in (i + 1)..p /\ k \in i..p
      BY <1>1
    <3>4. Under(lines, i, p) <=> lines[i] = "header" /\ GoesOn(lines, i + 2, p)
      <4>1. ASSUME Under(lines, i, p) PROVE lines[i] = "header" /\ GoesOn(lines, i + 2, p)
        BY <3>3, <4>1 DEF Under, GoesOn
      <4>2. ASSUME lines[i] = "header", GoesOn(lines, i + 2, p) PROVE Under(lines, i, p)
        BY <1>3, <2>1, <2>2, <3>3, <4>2 DEF Under, GoesOn
      <4>3. QED
        BY <4>1, <4>2
    <3>5. ~GoesOn(lines, i, p)
      <4>1. i \in i..p
        BY <1>1
      <4>2. QED
        BY <1>3, <4>1 DEF GoesOn
    <3>6. QED
      BY <3>1, <3>2, <3>4, <3>5
  <2>5. /\ \A p \in i..n : p = i \/ p = i + 1 \/ p \in (i + 2)..n
        /\ \A p \in (i + 2)..n : p \in i..n
    BY <1>1
  <2>6. ASSUME NEW p PROVE p \in ProjectsFrom(lines, i, columns) <=> p \in ProjectsFrom(lines, i + 2, lines[i] = "header")
    BY <1>3, <1>n, <2>2, <2>4, <2>5 DEF ProjectsFrom
  <2>7. QED
    BY <2>3, <2>6
<1>4. CASE lines[i] # "text" /\ ~HeadsTable(lines, i)
  <2>1. NextRow(lines, i) = i + 1
    BY <1>4 DEF NextRow
  <2>2. RowsFrom(lines, i, x, columns) =
          (IF columns /\ lines[i] = "project" THEN {i} ELSE {}) \cup ProjectsFrom(lines, i + 1, columns)
    BY <1>4, <2>1 DEF RowsFrom
  <2>3. ASSUME NEW p \in (i + 1)..n
        PROVE  /\ (\E h \in i..(p - 1) : Under(lines, h, p)) <=> \E h \in (i + 1)..(p - 1) : Under(lines, h, p)
               /\ GoesOn(lines, i, p) <=> GoesOn(lines, i + 1, p)
    <3>1. ~Under(lines, i, p)
      BY <1>4 DEF Under
    <3>2. /\ \A h \in (i + 1)..(p - 1) : h \in i..(p - 1)
          /\ \A k \in (i + 1)..p : k \in i..p
      BY <1>1
    <3>3. GoesOn(lines, i, p) <=> GoesOn(lines, i + 1, p)
      BY <1>4, <1>t, <3>2 DEF GoesOn
    <3>4. QED
      BY <1>t, <3>1, <3>2, <3>3
  <2>4. i..(i - 1) = {} /\ GoesOn(lines, i, i) /\ i \in i..n /\ \A p \in (i + 1)..n : p \in i..n
    <3>1. i..i = {i} /\ i..(i - 1) = {} /\ i \in i..n /\ \A p \in (i + 1)..n : p \in i..n
      BY <1>1
    <3>2. QED
      BY <1>4, <3>1 DEF GoesOn
  <2>5. ASSUME NEW p PROVE p \in ProjectsFrom(lines, i, columns)
                              <=> (p = i /\ columns /\ lines[i] = "project") \/ p \in ProjectsFrom(lines, i + 1, columns)
    <3>1. i \in ProjectsFrom(lines, i, columns) <=> columns /\ lines[i] = "project"
      BY <1>4, <1>n, <2>4 DEF ProjectsFrom
    <3>2. i \notin ProjectsFrom(lines, i + 1, columns)
      BY <1>1 DEF ProjectsFrom
    <3>3. ASSUME p # i PROVE p \in ProjectsFrom(lines, i, columns) <=> p \in ProjectsFrom(lines, i + 1, columns)
      BY <1>n, <1>s, <2>3, <2>4, <3>3 DEF ProjectsFrom
    <3>4. QED
      BY <3>1, <3>2, <3>3
  <2>6. QED
    BY <2>2, <2>5
<1>5. QED
  BY <1>2, <1>3, <1>4

\* parseProjects: for every answer, exactly the rows whose own table has the required
\* columns are listed.
THEOREM RowsAlwaysHaveColumns ==
    ASSUME NEW lines \in Seq(ProjectLines)
    PROVE  RowsHaveColumns(lines)
<1> DEFINE n == Len(lines)
           Heads(h) == h < Len(lines) /\ lines[h] # "text" /\ lines[h + 1] = "tableDivider"
           Listed(i) == /\ lines[i] = "project" /\ ~Heads(i)
                        /\ \E h \in 1..(i - 1) :
                              /\ Heads(h) /\ lines[h] = "header"
                              /\ \A k \in h..i : lines[k] # "text"
                              /\ \A k \in (h + 1)..i : ~Heads(k)
<1>1. n \in Nat /\ DOMAIN lines = 1..n
  OBVIOUS
<1>2. RowsHaveColumns(lines) <=>
        ((\A i \in DOMAIN lines : Heads(i) => lines[i] # "tableDivider")
            => ParseProjects(lines) = {i \in DOMAIN lines : Listed(i)})
  BY Zenon DEF RowsHaveColumns
<1>3. {i \in DOMAIN lines : Listed(i)} = ProjectsFrom(lines, 1, FALSE)
  BY <1>1 DEF ProjectsFrom, Under, HeadsTable
<1>4. \A h : Heads(h) <=> HeadsTable(lines, h)
  BY DEF HeadsTable
<1> HIDE DEF n, Heads, Listed
<1>5. SUFFICES ASSUME \A h \in 1..n : HeadsTable(lines, h) => lines[h] # "tableDivider"
               PROVE  ParseProjects(lines) = ProjectsFrom(lines, 1, FALSE)
  BY <1>1, <1>2, <1>3, <1>4
<1>6. PICK scan : Scans(scan, lines)
  BY ScanExists
<1> DEFINE Right(i) == \A c \in BOOLEAN : scan[i][c] = ProjectsFrom(lines, i, c)
           T == {i \in 1..(n + 1) : Right(i)}
           nxt == [i \in 1..n |-> NextRow(lines, i)]
<1>7. nxt \in [1..n -> 1..(n + 1)] /\ \A i \in 1..n : nxt[i] = NextRow(lines, i) /\ nxt[i] > i
  BY RowsFollow DEF n
<1>8. n + 1 \in T
  <2>1. ASSUME NEW c \in BOOLEAN PROVE scan[n + 1][c] = ProjectsFrom(lines, n + 1, c)
    <3>1. (n + 1)..n = {}
      BY <1>1
    <3>2. ProjectsFrom(lines, n + 1, c) = {}
      BY <3>1 DEF ProjectsFrom, n
    <3>3. QED
      BY <1>6, <3>2 DEF Scans, n
  <2>2. Right(n + 1) /\ n + 1 \in 1..(n + 1)
    BY <1>1, <2>1
  <2> HIDE DEF Right
  <2>3. QED
    BY <2>2
<1>9. ASSUME NEW i \in 1..n, nxt[i] \in T PROVE i \in T
  <2>1. PICK x : x = scan[NextRow(lines, i)]
    OBVIOUS
  <2>2. \A c \in BOOLEAN : x[c] = ProjectsFrom(lines, NextRow(lines, i), c)
    BY <1>7, <1>9, <2>1
  <2>3. ASSUME NEW c \in BOOLEAN PROVE scan[i][c] = ProjectsFrom(lines, i, c)
    <3>1. scan[i][c] = RowsFrom(lines, i, x, c)
      BY <1>6, <2>1 DEF Scans, n
    <3>2. RowsFrom(lines, i, x, c) = ProjectsFrom(lines, i, c)
      BY <1>5, <2>2, RowsAreProjects DEF n
    <3>3. QED
      BY <3>1, <3>2
  <2>4. Right(i) /\ i \in 1..(n + 1)
    BY <1>1, <2>3
  <2> HIDE DEF Right
  <2>5. QED
    BY <2>4
<1> HIDE DEF T, nxt
<1>10. \A i \in 1..(n + 1) : i \in T
  BY <1>1, <1>7, <1>8, <1>9, ChainInduction
<1>11. Right(1)
  <2>1. 1 \in 1..(n + 1)
    BY <1>1
  <2>2. QED
    BY <1>10, <2>1 DEF T
<1>12. scan[1][FALSE] = ProjectsFrom(lines, 1, FALSE)
  BY <1>11
<1>13. QED
  BY <1>6, <1>12 DEF Scans

-----------------------------------------------------------------------------
(* sort *)

\* What InsertAt of the library returns.
LEMMA InsertAtElements ==
    ASSUME NEW A, NEW r \in Seq(A), NEW e \in A, NEW p \in 1..(Len(r) + 1)
    PROVE  /\ InsertAt(r, p, e) \in Seq(A) /\ Len(InsertAt(r, p, e)) = Len(r) + 1
           /\ \A i \in 1..(Len(r) + 1) :
                 InsertAt(r, p, e)[i] = IF i < p THEN r[i] ELSE IF i = p THEN e ELSE r[i - 1]
<1> DEFINE n == Len(r)
           front == SubSeq(r, 1, p - 1)
           middle == <<e>>
           back == SubSeq(r, p, n)
           left == front \o middle
<1>1. n \in Nat /\ p \in 1..(n + 1) /\ \A i \in 1..n : r[i] \in A
  OBVIOUS
<1> HIDE DEF n
<1>2. /\ front \in Seq(A) /\ Len(front) = p - 1 /\ \A i \in 1..(p - 1) : front[i] = r[i]
  <2>1. 1 \in Int /\ p - 1 \in Int /\ \A i \in 1..(p - 1) : r[i] \in A
    BY <1>1
  <2>2. /\ front \in Seq(A) /\ Len(front) = IF 1 <= p - 1 THEN (p - 1) - 1 + 1 ELSE 0
        /\ \A i \in 1..((p - 1) - 1 + 1) : front[i] = r[1 + i - 1]
    BY <2>1, SubSeqProperties
  <2>3. (p - 1) - 1 + 1 = p - 1 /\ \A i \in 1..(p - 1) : 1 + i - 1 = i
    BY <1>1
  <2> HIDE DEF front
  <2>4. QED
    BY <1>1, <2>2, <2>3
<1>3. middle \in Seq(A) /\ Len(middle) = 1 /\ middle[1] = e
  OBVIOUS
<1>4. /\ back \in Seq(A) /\ Len(back) = (n - p) + 1 /\ \A i \in 1..((n - p) + 1) : back[i] = r[p + i - 1]
  <2>1. p \in Int /\ n \in Int /\ \A i \in p..n : r[i] \in A
    BY <1>1
  <2>2. /\ back \in Seq(A) /\ Len(back) = IF p <= n THEN n - p + 1 ELSE 0
        /\ \A i \in 1..(n - p + 1) : back[i] = r[p + i - 1]
    BY <2>1, SubSeqProperties
  <2> HIDE DEF back
  <2>3. QED
    BY <1>1, <2>2
<1> HIDE DEF front, middle, back
<1>5. /\ left \in Seq(A) /\ Len(left) = p
      /\ \A i \in 1..p : left[i] = IF i < p THEN r[i] ELSE e
  <2>1. /\ left \in Seq(A) /\ Len(left) = Len(front) + Len(middle)
        /\ \A i \in 1..(Len(front) + Len(middle)) :
              left[i] = IF i <= Len(front) THEN front[i] ELSE middle[i - Len(front)]
    BY <1>2, <1>3, ConcatProperties
  <2> HIDE DEF left
  <2>2. Len(left) = p /\ \A i \in 1..p : left[i] = IF i <= p - 1 THEN front[i] ELSE middle[i - (p - 1)]
    BY <1>1, <1>2, <1>3, <2>1
  <2>3. ASSUME NEW i \in 1..p PROVE left[i] = IF i < p THEN r[i] ELSE e
    <3>1. CASE i < p
      BY <1>1, <1>2, <2>2, <3>1
    <3>2. CASE ~(i < p)
      <4>1. i - (p - 1) = 1 /\ ~(i <= p - 1)
        BY <1>1, <3>2
      <4>2. QED
        BY <1>3, <2>2, <3>2, <4>1
    <3>3. QED
      BY <3>1, <3>2
  <2>4. QED
    BY <2>1, <2>2, <2>3
<1> HIDE DEF left
<1>6. /\ left \o back \in Seq(A) /\ Len(left \o back) = Len(left) + Len(back)
      /\ \A i \in 1..(Len(left) + Len(back)) :
            (left \o back)[i] = IF i <= Len(left) THEN left[i] ELSE back[i - Len(left)]
  BY <1>4, <1>5, ConcatProperties
<1>7. InsertAt(r, p, e) = left \o back
  BY DEF InsertAt, left, front, middle, back, n
<1>8. PICK t : t = InsertAt(r, p, e) /\ t = left \o back
  BY <1>7
<1>9. t \in Seq(A) /\ Len(t) = n + 1 /\ \A i \in 1..(n + 1) : t[i] = IF i <= p THEN left[i] ELSE back[i - p]
  BY <1>1, <1>4, <1>5, <1>6, <1>8
<1>10. ASSUME NEW i \in 1..(n + 1) PROVE t[i] = IF i < p THEN r[i] ELSE IF i = p THEN e ELSE r[i - 1]
  <2>1. CASE i <= p
    BY <1>1, <1>5, <1>9, <2>1
  <2>2. CASE ~(i <= p)
    <3>1. i - p \in 1..((n - p) + 1) /\ p + (i - p) - 1 = i - 1 /\ ~(i < p) /\ i # p
      BY <1>1, <2>2
    <3>2. QED
      BY <1>4, <1>9, <2>2, <3>1
  <2>3. QED
    BY <2>1, <2>2
<1>11. QED
  BY <1>8, <1>9, <1>10 DEF n

\* r has the elements of s at the positions P, each once.
Draws(at, r, s, P) ==
    /\ at \in [1..Len(r) -> P]
    /\ \A i \in 1..Len(r) : r[i] = s[at[i]]
    /\ \A i, j \in 1..Len(r) : at[i] = at[j] => i = j
    /\ \A m \in P : \E i \in 1..Len(r) : at[i] = m

\* An element is in both lists equally often.
LEMMA DrawnCount ==
    ASSUME NEW A, NEW B, NEW r \in Seq(A), NEW s \in Seq(B), NEW P \in SUBSET (1..Len(s)), NEW at,
           Draws(at, r, s, P), NEW a
    PROVE  Count(r, a) = Cardinality({m \in P : s[m] = a})
<1> DEFINE I == {i \in 1..Len(r) : r[i] = a}
           M == {m \in P : s[m] = a}
           f == [i \in I |-> at[i]]
<1>1. /\ at \in [1..Len(r) -> P] /\ \A i \in 1..Len(r) : r[i] = s[at[i]]
      /\ \A i, j \in 1..Len(r) : at[i] = at[j] => i = j
      /\ \A m \in P : \E i \in 1..Len(r) : at[i] = m
  BY DEF Draws
<1>2. f \in [I -> M]
  BY <1>1
<1>3. f \in Injection(I, M)
  BY <1>1, <1>2 DEF Injection, IsInjective
<1>4. f \in Surjection(I, M)
  <2>1. ASSUME NEW m \in M PROVE \E i \in I : f[i] = m
    <3>1. PICK i \in 1..Len(r) : at[i] = m
      BY <1>1
    <3>2. i \in I
      BY <1>1, <3>1
    <3>3. f[i] = m
      BY <3>1, <3>2
    <3>4. QED
      BY <3>2, <3>3
  <2>2. QED
    BY <1>2, <2>1 DEF Surjection
<1>5. ExistsBijection(I, M)
  BY <1>3, <1>4 DEF ExistsBijection, Bijection
<1>6. IsFiniteSet(I)
  <2>1. Len(r) \in Nat /\ IsFiniteSet(1..Len(r))
    BY FS_Interval
  <2>2. I \in SUBSET (1..Len(r))
    OBVIOUS
  <2>3. QED
    BY <2>1, <2>2, FS_Subset
<1> HIDE DEF I, M
<1>7. Cardinality(M) = Cardinality(I)
  BY <1>5, <1>6, FS_Bijection
<1>8. Count(r, a) = Cardinality(I)
  <2>1. DOMAIN r = 1..Len(r)
    OBVIOUS
  <2>2. QED
    BY <2>1 DEF Count, I
<1>9. QED
  BY <1>7, <1>8 DEF M

\* An interval from 1 to n has n members.
LEMMA IntervalSize ==
    ASSUME NEW n \in Nat
    PROVE  IsFiniteSet(1..n) /\ Cardinality(1..n) = n
<1>1. IsFiniteSet(1..n) /\ Cardinality(1..n) = IF 1 > n THEN 0 ELSE n - 1 + 1
  BY FS_Interval
<1>2. QED
  BY <1>1

\* A list that draws all positions is as long as the other one.
LEMMA DrawnLength ==
    ASSUME NEW A, NEW B, NEW r \in Seq(A), NEW s \in Seq(B), NEW P \in SUBSET (1..Len(s)), NEW at,
           Draws(at, r, s, P)
    PROVE  Len(r) <= Len(s) /\ (Len(r) = Len(s) <=> P = 1..Len(s))
<1>1. at \in Injection(1..Len(r), P) /\ at \in Surjection(1..Len(r), P)
  BY DEF Draws, Injection, IsInjective, Surjection
<1>2. ExistsBijection(1..Len(r), P)
  BY <1>1 DEF ExistsBijection, Bijection
<1>3. /\ Len(r) \in Nat /\ Len(s) \in Nat /\ IsFiniteSet(1..Len(r)) /\ IsFiniteSet(1..Len(s))
      /\ Cardinality(1..Len(r)) = Len(r) /\ Cardinality(1..Len(s)) = Len(s)
  <2>1. Len(r) \in Nat /\ Len(s) \in Nat
    OBVIOUS
  <2>2. QED
    BY <2>1, IntervalSize
<1>4. Cardinality(P) = Len(r)
  BY <1>2, <1>3, FS_Bijection
<1>5. Cardinality(P) <= Len(s) /\ (Cardinality(P) = Len(s) => P = 1..Len(s))
  BY <1>3, FS_Subset
<1>7. P = 1..Len(s) => Cardinality(P) = Len(s)
  BY <1>3
<1>6. QED
  BY <1>3, <1>4, <1>5, <1>7

\* filter draws the positions it keeps.
LEMMA KeptDraws ==
    ASSUME NEW A, NEW s \in Seq(A), NEW S
    PROVE  Kept(s, S) \in Seq(A) /\ \E at : Draws(at, Kept(s, S), s, {m \in 1..Len(s) : s[m] \in S})
<1>1. PICK r : r = Kept(s, S) /\ r \in Seq(A)
  BY KeptPicks
<1>2. PICK at : Picks(at, r, s, Len(s), S)
  BY <1>1, KeptPicks
<1>3. /\ at \in [1..Len(r) -> 1..Len(s)] /\ Len(r) \in Nat
      /\ \A i \in 1..Len(r) : r[i] = s[at[i]] /\ s[at[i]] \in S
      /\ \A i, j \in 1..Len(r) : i < j => at[i] < at[j]
      /\ \A m \in 1..Len(s) : s[m] \in S => \E i \in 1..Len(r) : at[i] = m
  BY <1>1, <1>2 DEF Picks
<1>4. ASSUME NEW i \in 1..Len(r), NEW j \in 1..Len(r), at[i] = at[j] PROVE i = j
  <2>1. at[i] \in Int /\ at[j] \in Int /\ ~(at[i] < at[j]) /\ ~(at[j] < at[i])
    BY <1>3, <1>4
  <2>2. ~(i < j) /\ ~(j < i)
    BY <1>3, <2>1
  <2>3. QED
    BY <1>3, <2>2
<1>5. Draws(at, r, s, {m \in 1..Len(s) : s[m] \in S})
  BY <1>3, <1>4 DEF Draws
<1>6. QED
  BY <1>1, <1>5

\* What precedes what is a strict weak order of A.
IsOrder(Before, A) ==
    /\ \A x, y \in A : <<x, y>> \in Before => <<y, x>> \notin Before
    /\ \A x, y, z \in A : <<x, y>> \in Before => <<x, z>> \in Before \/ <<z, y>> \in Before

InOrderOf(r, Before) == \A i, j \in 1..Len(r) : i < j => <<r[j], r[i]>> \notin Before

\* Those that e does not precede are the first ones.
LEMMA PlaceOf ==
    ASSUME NEW A, NEW Before, IsOrder(Before, A), NEW r \in Seq(A), InOrderOf(r, Before), NEW e \in A
    PROVE  \E m \in 0..Len(r) : {i \in DOMAIN r : <<e, r[i]>> \notin Before} = 1..m
<1> DEFINE n == Len(r)
           M == {i \in DOMAIN r : <<e, r[i]>> \notin Before}
<1>1. n \in Nat /\ DOMAIN r = 1..n /\ M \in SUBSET (1..n) /\ \A i \in 1..n : r[i] \in A
  OBVIOUS
<1>2. ASSUME NEW i \in M, NEW j \in 1..n, j < i PROVE j \in M
  <2>1. <<r[i], r[j]>> \notin Before /\ <<e, r[i]>> \notin Before
    BY <1>1, <1>2 DEF InOrderOf
  <2>2. r[i] \in A /\ r[j] \in A
    BY <1>1
  <2>3. <<e, r[j]>> \notin Before
    BY <2>1, <2>2 DEF IsOrder
  <2>4. QED
    BY <1>1, <2>3
<1> HIDE DEF M, n
<1>3. CASE M = {}
  <2>1. 0 \in 0..n /\ M = 1..0
    BY <1>1, <1>3
  <2>2. QED
    BY <2>1 DEF M, n
<1>4. CASE M # {}
  <2>1. PICK m \in M : \A k \in M : k <= m
    BY <1>1, <1>4, GreatestNumber
  <2>2. m \in 1..n
    BY <1>1
  <2>3. \A k \in 1..m : k = m \/ (k \in 1..n /\ k < m)
    BY <1>1, <2>2
  <2>4. \A k \in 1..m : k \in M
    BY <1>2, <2>3
  <2>5. \A k \in M : k \in 1..m
    BY <1>1, <2>1, <2>2
  <2>a. M = 1..m
    BY <2>4, <2>5
  <2>6. M = 1..m /\ m \in 0..n
    BY <1>1, <2>2, <2>a
  <2>7. QED
    BY <2>6 DEF M, n
<1>5. QED
  BY <1>3, <1>4

\* One more element goes between those it does not precede and those it does.
IsInserted(next, r, e, m) ==
    /\ Len(next) = Len(r) + 1
    /\ \A i \in 1..(Len(r) + 1) :
          next[i] = IF i < m + 1 THEN r[i] ELSE IF i = m + 1 THEN e ELSE r[i - 1]

\* Where an element is inserted.
LEMMA InsertElements ==
    ASSUME NEW A, NEW Before, IsOrder(Before, A), NEW r \in Seq(A), InOrderOf(r, Before), NEW e \in A
    PROVE  /\ Insert(r, e, Before) \in Seq(A)
           /\ \E m \in 0..Len(r) : /\ IsInserted(Insert(r, e, Before), r, e, m)
                                   /\ \A i \in 1..Len(r) : <<e, r[i]>> \notin Before <=> i <= m
<1>1. PICK m \in 0..Len(r) : {i \in DOMAIN r : <<e, r[i]>> \notin Before} = 1..m
  BY PlaceOf
<1>2. m \in Nat /\ Cardinality(1..m) = m
  <2>1. m \in Nat
    OBVIOUS
  <2>2. Cardinality(1..m) = IF 1 > m THEN 0 ELSE m - 1 + 1
    BY <2>1, FS_Interval
  <2>3. QED
    BY <2>1, <2>2
<1>3. Insert(r, e, Before) = InsertAt(r, 1 + m, e)
  BY <1>1, <1>2 DEF Insert
<1>4. PICK p : p = 1 + m /\ p \in 1..(Len(r) + 1) /\ p = m + 1
  OBVIOUS
<1>5. PICK next : next = InsertAt(r, p, e)
  OBVIOUS
<1>6. /\ next \in Seq(A) /\ Len(next) = Len(r) + 1
      /\ \A i \in 1..(Len(r) + 1) : next[i] = IF i < p THEN r[i] ELSE IF i = p THEN e ELSE r[i - 1]
  <2>1. /\ InsertAt(r, p, e) \in Seq(A) /\ Len(InsertAt(r, p, e)) = Len(r) + 1
        /\ \A i \in 1..(Len(r) + 1) :
              InsertAt(r, p, e)[i] = IF i < p THEN r[i] ELSE IF i = p THEN e ELSE r[i - 1]
    BY <1>4, InsertAtElements
  <2>2. QED
    BY <1>5, <2>1
<1>7. IsInserted(next, r, e, m)
  BY <1>4, <1>6 DEF IsInserted
<1>8. \A i \in 1..Len(r) : <<e, r[i]>> \notin Before <=> i <= m
  <2>1. DOMAIN r = 1..Len(r) /\ \A i \in 1..Len(r) : i \in 1..m <=> i <= m
    OBVIOUS
  <2>2. QED
    BY <1>1, <2>1
<1>9. QED
  BY <1>3, <1>4, <1>5, <1>6, <1>7, <1>8

\* A list in order stays in order.
LEMMA InsertKeepsOrder ==
    ASSUME NEW A, NEW Before, IsOrder(Before, A), NEW r \in Seq(A), InOrderOf(r, Before), NEW e \in A,
           NEW m \in 0..Len(r), NEW next, IsInserted(next, r, e, m),
           \A i \in 1..Len(r) : <<e, r[i]>> \notin Before <=> i <= m
    PROVE  InOrderOf(next, Before)
<1>1. PICK n \in Nat : n = Len(r)
  OBVIOUS
<1>2. /\ Len(next) = n + 1 /\ m \in 0..n
      /\ \A i \in 1..(n + 1) : next[i] = IF i < m + 1 THEN r[i] ELSE IF i = m + 1 THEN e ELSE r[i - 1]
      /\ \A i, j \in 1..n : i < j => <<r[j], r[i]>> \notin Before
      /\ \A i \in 1..n : r[i] \in A /\ (<<e, r[i]>> \notin Before <=> i <= m)
  BY <1>1 DEF IsInserted, InOrderOf
<1>3. ASSUME NEW i \in 1..(n + 1), NEW j \in 1..(n + 1), i < j PROVE <<next[j], next[i]>> \notin Before
  <2>1. CASE j < m + 1
    BY <1>1, <1>2, <1>3, <2>1
  <2>2. CASE j = m + 1
    <3>1. i < m + 1 /\ i \in 1..n /\ i <= m /\ ~(j < m + 1)
      BY <1>1, <1>2, <1>3, <2>2
    <3>2. next[i] = r[i] /\ next[j] = e
      BY <1>2, <2>2, <3>1
    <3>3. QED
      BY <1>2, <3>1, <3>2
  <2>3. CASE j > m + 1
    <3>1. next[j] = r[j - 1] /\ j - 1 \in 1..n
      BY <1>1, <1>2, <2>3
    <3>2. CASE i < m + 1
      <4>1. next[i] = r[i] /\ i \in 1..n /\ i < j - 1
        BY <1>1, <1>2, <2>3, <3>2
      <4>2. QED
        BY <1>2, <3>1, <4>1
    <3>3. CASE i = m + 1
      <4>1. next[i] = e /\ ~(j - 1 <= m)
        BY <1>1, <1>2, <2>3, <3>3
      <4>2. <<e, r[j - 1]>> \in Before /\ r[j - 1] \in A
        BY <1>2, <3>1, <4>1
      <4>3. QED
        BY <3>1, <4>1, <4>2 DEF IsOrder
    <3>4. CASE i > m + 1
      <4>1. next[i] = r[i - 1] /\ i - 1 \in 1..n /\ i - 1 < j - 1
        BY <1>1, <1>2, <1>3, <2>3, <3>4
      <4>2. QED
        BY <1>2, <3>1, <4>1
    <3>5. QED
      BY <1>1, <1>2, <3>2, <3>3, <3>4
  <2>4. QED
    BY <1>1, <1>2, <2>1, <2>2, <2>3
<1>4. QED
  BY <1>2, <1>3 DEF InOrderOf

\* One element more is drawn.
LEMMA InsertDraws ==
    ASSUME NEW A, NEW s \in Seq(A), NEW k \in 1..Len(s), NEW r \in Seq(A), NEW at,
           Draws(at, r, s, 1..(k - 1)), NEW m \in 0..Len(r), NEW next, IsInserted(next, r, s[k], m)
    PROVE  \E to : Draws(to, next, s, 1..k)
<1>1. PICK n \in Nat : n = Len(r)
  OBVIOUS
<1> DEFINE to == [i \in 1..(n + 1) |-> IF i < m + 1 THEN at[i] ELSE IF i = m + 1 THEN k ELSE at[i - 1]]
<1>2. /\ Len(next) = n + 1 /\ m \in 0..n /\ k \in Nat
      /\ \A i \in 1..(n + 1) : next[i] = IF i < m + 1 THEN r[i] ELSE IF i = m + 1 THEN s[k] ELSE r[i - 1]
      /\ at \in [1..n -> 1..(k - 1)] /\ \A i \in 1..n : r[i] = s[at[i]]
      /\ \A i, j \in 1..n : at[i] = at[j] => i = j
      /\ \A p \in 1..(k - 1) : \E i \in 1..n : at[i] = p
  <2>1. m \in 0..n /\ k \in Nat
    BY <1>1
  <2>2. /\ Len(next) = n + 1
        /\ \A i \in 1..(n + 1) : next[i] = IF i < m + 1 THEN r[i] ELSE IF i = m + 1 THEN s[k] ELSE r[i - 1]
    BY <1>1 DEF IsInserted
  <2>3. /\ at \in [1..n -> 1..(k - 1)] /\ \A i \in 1..n : r[i] = s[at[i]]
        /\ \A i, j \in 1..n : at[i] = at[j] => i = j
        /\ \A p \in 1..(k - 1) : \E i \in 1..n : at[i] = p
    BY <1>1 DEF Draws
  <2>4. QED
    BY <2>1, <2>2, <2>3
<1>a. \A i \in 1..n : at[i] \in 1..(k - 1) /\ at[i] # k /\ at[i] \in 1..k
  BY <1>2
<1>3. \A i \in 1..(n + 1) : to[i] = IF i < m + 1 THEN at[i] ELSE IF i = m + 1 THEN k ELSE at[i - 1]
  OBVIOUS
<1>4. \A i \in 1..(n + 1) : /\ i < m + 1 => i \in 1..n
                            /\ ~(i < m + 1) /\ i # m + 1 => i - 1 \in 1..n /\ i > m + 1
  BY <1>1, <1>2
<1>5. to \in [1..(n + 1) -> 1..k]
  <2>1. k \in 1..k
    BY <1>2
  <2>2. QED
    BY <1>a, <1>4, <2>1
<1> HIDE DEF to
<1>f. ASSUME NEW i \in 1..(n + 1), i < m + 1 PROVE i \in 1..n /\ to[i] = at[i] /\ next[i] = r[i]
  BY <1>2, <1>3, <1>4, <1>f
<1>g. ASSUME NEW i \in 1..(n + 1), i = m + 1 PROVE to[i] = k /\ next[i] = s[k]
  <2>1. ~(i < m + 1)
    BY <1>2, <1>g
  <2>2. QED
    BY <1>2, <1>3, <1>g, <2>1
<1>h. ASSUME NEW i \in 1..(n + 1), i > m + 1 PROVE i - 1 \in 1..n /\ to[i] = at[i - 1] /\ next[i] = r[i - 1]
  <2>1. ~(i < m + 1) /\ i # m + 1
    BY <1>2, <1>h
  <2>2. QED
    BY <1>2, <1>3, <1>4, <2>1
<1>i. \A i \in 1..(n + 1) : i < m + 1 \/ i = m + 1 \/ i > m + 1
  BY <1>2
<1>j. \A i, j \in 1..n : at[i] = at[j] => i = j
  BY <1>2
<1>6. ASSUME NEW i \in 1..(n + 1) PROVE next[i] = s[to[i]]
  <2>1. CASE i < m + 1
    BY <1>2, <1>f, <2>1
  <2>2. CASE i = m + 1
    BY <1>g, <2>2
  <2>3. CASE i > m + 1
    <3>1. i - 1 \in 1..n /\ to[i] = at[i - 1] /\ next[i] = r[i - 1]
      BY <1>h, <2>3
    <3>2. r[i - 1] = s[at[i - 1]]
      BY <1>2, <3>1
    <3>3. QED
      BY <3>1, <3>2
  <2>4. QED
    BY <1>i, <2>1, <2>2, <2>3
<1>7. ASSUME NEW i \in 1..(n + 1), NEW j \in 1..(n + 1), to[i] = to[j] PROVE i = j
  <2>1. CASE i < m + 1
    <3>1. to[i] = at[i] /\ i \in 1..n
      BY <1>f, <2>1
    <3>2. CASE j < m + 1
      <4>1. to[j] = at[j] /\ j \in 1..n
        BY <1>f, <3>2
      <4>2. QED
        BY <1>7, <1>j, <3>1, <4>1
    <3>3. CASE j = m + 1
      <4>1. to[j] = k /\ at[i] # k
        BY <1>a, <1>g, <3>1, <3>3
      <4>2. QED
        BY <1>7, <3>1, <4>1
    <3>4. CASE j > m + 1
      <4>1. to[j] = at[j - 1] /\ j - 1 \in 1..n
        BY <1>h, <3>4
      <4>2. i = j - 1
        BY <1>7, <1>j, <3>1, <4>1
      <4>3. QED
        BY <1>2, <2>1, <3>4, <4>2
    <3>5. QED
      BY <1>i, <3>2, <3>3, <3>4
  <2>2. CASE i = m + 1
    <3>1. to[i] = k
      BY <1>g, <2>2
    <3>2. CASE j < m + 1
      <4>1. to[j] = at[j] /\ at[j] # k
        BY <1>a, <1>f, <3>2
      <4>2. QED
        BY <1>7, <3>1, <4>1
    <3>3. CASE j = m + 1
      BY <2>2, <3>3
    <3>4. CASE j > m + 1
      <4>1. to[j] = at[j - 1] /\ at[j - 1] # k
        BY <1>a, <1>h, <3>4
      <4>2. QED
        BY <1>7, <3>1, <4>1
    <3>5. QED
      BY <1>i, <3>2, <3>3, <3>4
  <2>3. CASE i > m + 1
    <3>1. to[i] = at[i - 1] /\ i - 1 \in 1..n
      BY <1>h, <2>3
    <3>2. CASE j < m + 1
      <4>1. to[j] = at[j] /\ j \in 1..n
        BY <1>f, <3>2
      <4>2. i - 1 = j
        BY <1>7, <1>j, <3>1, <4>1
      <4>3. QED
        BY <1>2, <2>3, <3>2, <4>2
    <3>3. CASE j = m + 1
      <4>1. to[j] = k /\ at[i - 1] # k
        BY <1>a, <1>g, <3>1, <3>3
      <4>2. QED
        BY <1>7, <3>1, <4>1
    <3>4. CASE j > m + 1
      <4>1. to[j] = at[j - 1] /\ j - 1 \in 1..n
        BY <1>h, <3>4
      <4>2. i - 1 = j - 1
        BY <1>7, <1>j, <3>1, <4>1
      <4>3. QED
        BY <4>2
    <3>5. QED
      BY <1>i, <3>2, <3>3, <3>4
  <2>4. QED
    BY <1>i, <2>1, <2>2, <2>3
<1>8. ASSUME NEW p \in 1..k PROVE \E i \in 1..(n + 1) : to[i] = p
  <2>1. CASE p = k
    <3>1. m + 1 \in 1..(n + 1)
      BY <1>2
    <3>2. to[m + 1] = k
      BY <1>g, <3>1
    <3>3. QED
      BY <2>1, <3>1, <3>2
  <2>2. CASE p # k
    <3>1. p \in 1..(k - 1)
      BY <1>2, <2>2
    <3>2. PICK i \in 1..n : at[i] = p
      BY <1>2, <3>1
    <3>3. CASE i < m + 1
      <4>1. i \in 1..(n + 1)
        BY <1>2
      <4>2. to[i] = p
        BY <1>f, <3>2, <3>3, <4>1
      <4>3. QED
        BY <4>1, <4>2
    <3>4. CASE ~(i < m + 1)
      <4>1. i + 1 \in 1..(n + 1) /\ i + 1 > m + 1 /\ (i + 1) - 1 = i
        BY <1>2, <3>4
      <4>2. to[i + 1] = p
        BY <1>h, <3>2, <4>1
      <4>3. QED
        BY <4>1, <4>2
    <3>5. QED
      BY <3>3, <3>4
  <2>3. QED
    BY <2>1, <2>2
<1>9. Draws(to, next, s, 1..k)
  BY <1>2, <1>5, <1>6, <1>7, <1>8 DEF Draws
<1>10. QED
  BY <1>9

\* What the sort has made of the first elements.
ArrangedSeqs(A, Before) == {r \in Seq(A) : InOrderOf(r, Before)}

\* sort as insertion of element after element: results[k] are the first k.
Sorts(results, A, Before, s) ==
    /\ results \in [0..Len(s) -> ArrangedSeqs(A, Before)]
    /\ results[0] = <<>> /\ results[Len(s)] = Sorted(s, Before)
    /\ \A k \in 1..Len(s) : results[k] = Insert(results[k - 1], s[k], Before)

\* sort, element by element.
LEMMA SortSteps ==
    ASSUME NEW A, NEW Before, IsOrder(Before, A), NEW s \in Seq(A)
    PROVE  \E results : Sorts(results, A, Before, s)
<1> DEFINE n == Len(s)
           States == ArrangedSeqs(A, Before)
           Put(x, e) == Insert(x, e, Before)
           it == CHOOSE g : g = [P \in SUBSET (DOMAIN s) |->
                                    IF P = {} THEN <<>> ELSE Put(g[P \ {Max(P)}], s[Max(P)])]
           step == [q \in States \X (1..n) |-> Put(q[1], s[q[2]])]
<1>1. n \in Nat /\ DOMAIN s = 1..n /\ \A k \in 1..n : s[k] \in A
  OBVIOUS
<1>2. Sorted(s, Before) = it[DOMAIN s]
  BY Zenon DEF Sorted, FoldLeft, MapThenFoldSet
<1>3. \A x \in States, k \in 1..n : Put(x, s[k]) \in States
  <2>1. ASSUME NEW x \in ArrangedSeqs(A, Before), NEW k \in 1..n PROVE Insert(x, s[k], Before) \in ArrangedSeqs(A, Before)
    <3>1. s[k] \in A /\ x \in Seq(A) /\ InOrderOf(x, Before)
      BY <1>1 DEF ArrangedSeqs
    <3>2. PICK next : next = Insert(x, s[k], Before) /\ next \in Seq(A)
      BY <3>1, InsertElements
    <3>3. PICK m \in 0..Len(x) : /\ IsInserted(next, x, s[k], m)
                                 /\ \A i \in 1..Len(x) : <<s[k], x[i]>> \notin Before <=> i <= m
      BY <3>1, <3>2, InsertElements
    <3>4. InOrderOf(next, Before)
      BY <3>1, <3>3, InsertKeepsOrder
    <3>5. QED
      BY <3>2, <3>4 DEF ArrangedSeqs
  <2>2. QED
    BY <2>1
<1>4. <<>> \in States
  BY DEF ArrangedSeqs, InOrderOf
<1> HIDE DEF n, States, Put, it
<1>5. /\ step \in [States \X (1..n) -> States]
      /\ \A x \in States, k \in 1..n : step[<<x, k>>] = Put(x, s[k])
  BY <1>3
<1> HIDE DEF step
<1>6. PICK g \in [SUBSET (1..n) -> States] : IsFold(g, n, <<>>, step)
  BY <1>1, <1>4, <1>5, FoldExists
<1>7. \A P \in SUBSET (1..n) : P # {} => Max(P) \in 1..n /\ g[P \ {Max(P)}] \in States
  BY <1>1, MaxOfPositions
<1>8. g = [P \in SUBSET (DOMAIN s) |-> IF P = {} THEN <<>> ELSE Put(g[P \ {Max(P)}], s[Max(P)])]
  BY <1>1, <1>5, <1>6, <1>7 DEF IsFold
<1>9. it = [P \in SUBSET (DOMAIN s) |-> IF P = {} THEN <<>> ELSE Put(it[P \ {Max(P)}], s[Max(P)])]
  BY <1>8, Zenon DEF it
<1>10. Folds(it, n, States, <<>>, step)
  <2>1. it[{}] = <<>>
    BY <1>9
  <2>2. \A P \in SUBSET (1..n) : P # {} => it[P] = Put(it[P \ {Max(P)}], s[Max(P)])
    BY <1>1, <1>9
  <2>3. QED
    BY <1>5, <1>7, <2>1, <2>2 DEF Folds
<1>11. PICK results \in [0..n -> States] : Follow(results, n, <<>>, step, it[1..n])
  BY <1>1, <1>4, <1>5, <1>10, FoldRuns
<1>12. ASSUME NEW k \in 1..n PROVE results[k] = Put(results[k - 1], s[k])
  <2>1. results[k - 1] \in States
    BY <1>1
  <2>2. QED
    BY <1>5, <1>11, <2>1 DEF Follow
<1>13. results[0] = <<>> /\ results[n] = Sorted(s, Before)
  BY <1>1, <1>2, <1>11 DEF Follow
<1>14. Sorts(results, A, Before, s)
  BY <1>12, <1>13 DEF n, Put, States, Sorts
<1>15. QED
  BY <1>14

\* sort returns all elements, each as often as before, in order.
LEMMA SortedIsSorted ==
    ASSUME NEW A, NEW Before, IsOrder(Before, A), NEW s \in Seq(A)
    PROVE  /\ Sorted(s, Before) \in Seq(A) /\ InOrderOf(Sorted(s, Before), Before)
           /\ \E at : Draws(at, Sorted(s, Before), s, 1..Len(s))
<1>p. PICK results : Sorts(results, A, Before, s)
  BY SortSteps
<1>1. /\ results \in [0..Len(s) -> ArrangedSeqs(A, Before)]
      /\ results[0] = <<>> /\ results[Len(s)] = Sorted(s, Before)
      /\ \A k \in 1..Len(s) : results[k] = Insert(results[k - 1], s[k], Before)
  BY <1>p DEF Sorts
<1>2. Len(s) \in Nat /\ \A k \in 0..Len(s) : results[k] \in Seq(A) /\ InOrderOf(results[k], Before)
  BY <1>1 DEF ArrangedSeqs
<1> DEFINE Has(k) == \E at : Draws(at, results[k], s, 1..k)
           T == {k \in Nat : Has(k)}
<1>3. 0 \in T
  <2>1. results[0] = <<>> /\ Len(<<>>) = 0 /\ 1..0 = {}
    BY <1>1
  <2>2. Draws([i \in 1..0 |-> 1], results[0], s, 1..0)
    BY <2>1 DEF Draws
  <2>3. Has(0)
    BY <2>2
  <2> HIDE DEF Has
  <2>4. QED
    BY <2>3
<1>4. ASSUME NEW k \in 0..(Len(s) - 1), k \in T PROVE k + 1 \in T
  <2>1. PICK n \in 1..Len(s) : n = k + 1 /\ n - 1 = k /\ k \in 0..Len(s) /\ n \in Nat
    BY <1>2
  <2>2. PICK r : r = results[k] /\ r \in Seq(A) /\ InOrderOf(r, Before) /\ s[n] \in A
    BY <1>2, <2>1
  <2>3. PICK at : Draws(at, r, s, 1..(n - 1))
    BY <1>4, <2>1, <2>2
  <2>e. PICK e \in A : e = s[n]
    BY <2>2
  <2>4. PICK next : next = Insert(r, e, Before) /\ next = results[n]
    BY <1>1, <2>1, <2>2, <2>e
  <2>5. PICK m \in 0..Len(r) : IsInserted(next, r, s[n], m)
    <3>1. \E m \in 0..Len(r) : /\ IsInserted(Insert(r, e, Before), r, e, m)
                               /\ \A i \in 1..Len(r) : <<e, r[i]>> \notin Before <=> i <= m
      BY <2>2, InsertElements
    <3>2. QED
      BY <2>e, <2>4, <3>1
  <2>6. \E to : Draws(to, next, s, 1..n)
    BY <2>2, <2>3, <2>5, InsertDraws
  <2>7. Has(n)
    BY <2>4, <2>6
  <2> HIDE DEF Has
  <2>8. QED
    BY <2>1, <2>7
<1> HIDE DEF T
<1>5. \A k \in 0..Len(s) : k \in T
  BY <1>2, <1>3, <1>4, InductionUpTo
<1>6. Len(s) \in 0..Len(s)
  BY <1>2
<1>7. Has(Len(s))
  BY <1>5, <1>6 DEF T
<1>8. QED
  BY <1>1, <1>2, <1>6, <1>7

\* The elements of a sequence are among its own elements.
LEMMA OwnElements ==
    ASSUME NEW A, NEW s \in Seq(A)
    PROVE  /\ s \in Seq(ToSet(s)) /\ ToSet(s) \in SUBSET A
           /\ \A e : e \in ToSet(s) <=> \E i \in 1..Len(s) : s[i] = e
<1>1. DOMAIN s = 1..Len(s) /\ Len(s) \in Nat /\ \A i \in 1..Len(s) : s[i] \in A
  OBVIOUS
<1>2. \A e : e \in ToSet(s) <=> \E i \in 1..Len(s) : s[i] = e
  BY <1>1 DEF ToSet
<1>3. s \in [1..Len(s) -> ToSet(s)]
  <2>1. s = [i \in 1..Len(s) |-> s[i]]
    OBVIOUS
  <2>2. QED
    BY <1>2, <2>1
<1>4. s \in Seq(ToSet(s))
  BY <1>1, <1>3, SeqDef
<1>5. QED
  BY <1>1, <1>2, <1>4

-----------------------------------------------------------------------------
(* The list of active alerts *)

\* All strings.  No prover knows that a literal is one, so those of the inputs are listed.
Strings == STRING \cup {"", "a", "b", "s", "t", "protocol", "tool", "projectid", "agent",
                       "central", "region", "other", "critical", "warning", "firing",
                       "inactive", "pending"}

RuleAlert == [server : Strings, severity : Strings, state : Strings, since : Int]

Rule == [server : Strings, severity : Strings, state : Strings, alerts : Seq(RuleAlert)]

\* The order of the alerts is one, so that sort may be used with it.
LEMMA AlertOrderIsOrder ==
    ASSUME NEW S \in SUBSET RuleAlert
    PROVE  /\ IsOrder(AlertOrder(S), S)
           /\ \A x, y \in S : <<x, y>> \in AlertOrder(S) <=> AlertBefore(x, y)
<1>1. \A severity : Rank(severity) \in Nat
  BY DEF Rank
<1>2. \A x \in S : x.since \in Int
  BY DEF RuleAlert
<1>3. \A x, y \in S : <<x, y>> \in AlertOrder(S) <=> AlertBefore(x, y)
  BY DEF AlertOrder
<1>4. ASSUME NEW x \in S, NEW y \in S, AlertBefore(x, y) PROVE ~AlertBefore(y, x)
  <2>1. PICK a \in Nat, b \in Nat, c \in Int, d \in Int :
          a = Rank(x.severity) /\ b = Rank(y.severity) /\ c = x.since /\ d = y.since
    BY <1>1, <1>2
  <2>2. QED
    BY <1>4, <2>1 DEF AlertBefore
<1>5. ASSUME NEW x \in S, NEW y \in S, NEW z \in S, AlertBefore(x, y)
      PROVE  AlertBefore(x, z) \/ AlertBefore(z, y)
  <2>1. PICK a \in Nat, b \in Nat, e \in Nat :
          a = Rank(x.severity) /\ b = Rank(y.severity) /\ e = Rank(z.severity)
    BY <1>1
  <2>2. PICK c \in Int, d \in Int, f \in Int : c = x.since /\ d = y.since /\ f = z.since
    BY <1>2
  <2>3. a < b \/ (a = b /\ c < d)
    BY <1>5, <2>1, <2>2 DEF AlertBefore
  <2>4. a < e \/ (a = e /\ c < f) \/ e < b \/ (e = b /\ f < d)
    BY <2>3
  <2>5. QED
    BY <2>1, <2>2, <2>4 DEF AlertBefore
<1>6. QED
  BY <1>3, <1>4, <1>5 DEF IsOrder

\* Every alert of every rule is looked at.
LEMMA AlertsOfRules ==
    ASSUME NEW rules \in Seq(Rule)
    PROVE  /\ AlertsOf(rules) \in Seq(RuleAlert)
           /\ \A r \in 1..Len(rules) : \A k \in 1..Len(rules[r].alerts) :
                 \E i \in 1..Len(AlertsOf(rules)) :
                    AlertsOf(rules)[i] = Alert(rules[r], rules[r].alerts[k])
<1> DEFINE Of(r) == [k \in DOMAIN rules[r].alerts |-> Alert(rules[r], rules[r].alerts[k])]
           seqs == [r \in DOMAIN rules |-> Of(r)]
<1>1. DOMAIN rules = 1..Len(rules) /\ Len(rules) \in Nat /\ \A r \in 1..Len(rules) : rules[r] \in Rule
  OBVIOUS
<1>2. ASSUME NEW r \in 1..Len(rules)
      PROVE  /\ rules[r].alerts \in Seq(RuleAlert) /\ DOMAIN rules[r].alerts = 1..Len(rules[r].alerts)
             /\ Of(r) \in Seq(RuleAlert)
  <2>1. PICK rule \in Rule : rule = rules[r]
    BY <1>1
  <2>2. PICK alerts \in Seq(RuleAlert) : alerts = rule.alerts
    BY DEF Rule
  <2>3. DOMAIN alerts = 1..Len(alerts) /\ Len(alerts) \in Nat /\ \A k \in 1..Len(alerts) : alerts[k] \in RuleAlert
    OBVIOUS
  <2>4. ASSUME NEW k \in 1..Len(alerts) PROVE Alert(rule, alerts[k]) \in RuleAlert
    <3>1. PICK alert \in RuleAlert : alert = alerts[k]
      BY <2>3
    <3>2. /\ alert.server \in Strings /\ alert.severity \in Strings /\ alert.state \in Strings /\ alert.since \in Int
          /\ rule.server \in Strings /\ rule.severity \in Strings /\ rule.state \in Strings
      BY DEF RuleAlert, Rule
    <3>3. Alert(rule, alert) \in RuleAlert
      <4>1. \A own, general : Over(own, general) \in {own, general}
        BY DEF Over
      <4>2. Alert(rule, alert) =
              [server |-> Over(alert.server, rule.server), severity |-> Over(alert.severity, rule.severity),
               state |-> Over(alert.state, rule.state), since |-> alert.since]
        BY DEF Alert
      <4>3. /\ Over(alert.server, rule.server) \in Strings /\ Over(alert.severity, rule.severity) \in Strings
            /\ Over(alert.state, rule.state) \in Strings
        BY <3>2, <4>1
      <4>4. QED
        BY <3>2, <4>2, <4>3 DEF RuleAlert
    <3>4. QED
      BY <3>1, <3>3
  <2>5. [k \in 1..Len(alerts) |-> Alert(rule, alerts[k])] \in Seq(RuleAlert)
    BY <2>3, <2>4, SeqDef
  <2>6. Of(r) = [k \in 1..Len(alerts) |-> Alert(rule, alerts[k])]
    BY <2>1, <2>2, <2>3
  <2>7. QED
    BY <2>1, <2>2, <2>3, <2>5, <2>6
<1>3. seqs \in Seq(Seq(RuleAlert))
  <2>1. seqs \in [1..Len(rules) -> Seq(RuleAlert)]
    BY <1>1, <1>2
  <2> HIDE DEF seqs
  <2>2. QED
    BY <1>1, <2>1, SeqDef
<1>4. AlertsOf(rules) = FlattenSeq(seqs)
  BY DEF AlertsOf
<1>5. DOMAIN seqs = 1..Len(rules) /\ \A r \in 1..Len(rules) : seqs[r] = Of(r)
  BY <1>1
<1> HIDE DEF seqs
<1>6. PICK all : all = FlattenSeq(seqs)
  OBVIOUS
<1>7. /\ all \in Seq(RuleAlert)
      /\ \A a : (\E k \in DOMAIN all : all[k] = a) <=> \E i \in DOMAIN seqs : \E k \in DOMAIN seqs[i] : seqs[i][k] = a
  <2>1. /\ FlattenSeq(seqs) \in Seq(RuleAlert)
        /\ \A a : (\E k \in DOMAIN FlattenSeq(seqs) : FlattenSeq(seqs)[k] = a)
                    <=> \E i \in DOMAIN seqs : \E k \in DOMAIN seqs[i] : seqs[i][k] = a
    BY <1>3, FlattenSeqElements
  <2>2. QED
    BY <1>6, <2>1
<1>8. ASSUME NEW r \in 1..Len(rules), NEW k \in 1..Len(rules[r].alerts)
      PROVE  \E i \in 1..Len(all) : all[i] = Alert(rules[r], rules[r].alerts[k])
  <2>1. r \in DOMAIN seqs /\ k \in DOMAIN seqs[r] /\ seqs[r][k] = Alert(rules[r], rules[r].alerts[k])
    BY <1>2, <1>5
  <2>2. PICK i \in DOMAIN all : all[i] = Alert(rules[r], rules[r].alerts[k])
    BY <1>7, <2>1
  <2>3. QED
    BY <1>7, <2>2
<1>9. AlertsOf(rules) = all
  BY <1>4, <1>6
<1>10. QED
  BY <1>7, <1>8, <1>9

\* activeAlertsFromRules: for all rules, the list has each active alert of the server
\* once, in the order of severity and age; the labels of an alert count.
THEOREM AlertsAreAlwaysOfServer ==
    ASSUME NEW rules \in Seq(Rule), NEW server, IsNamed(server)
    PROVE  AlertsAreOfServer(rules, server)
<1>1. PICK all \in Seq(RuleAlert) :
        /\ all = AlertsOf(rules)
        /\ \A r \in 1..Len(rules) : \A k \in 1..Len(rules[r].alerts) :
              \E i \in 1..Len(all) : all[i] = Alert(rules[r], rules[r].alerts[k])
  BY AlertsOfRules
<1>2. PICK S : S = ToSet(all) /\ S \in SUBSET RuleAlert /\ all \in Seq(S) /\ \A i \in 1..Len(all) : all[i] \in S
  BY OwnElements
<1> DEFINE active == {a \in S : a.server = server /\ a.state \in Shown}
           positions == {m \in 1..Len(all) : all[m] \in active}
<1>3. PICK kept : kept = Kept(all, active) /\ kept \in Seq(S) /\ \E at : Draws(at, kept, all, positions)
  BY <1>2, KeptDraws
<1>4. IsOrder(AlertOrder(S), S) /\ \A x, y \in S : <<x, y>> \in AlertOrder(S) <=> AlertBefore(x, y)
  BY <1>2, AlertOrderIsOrder
<1>5. PICK alerts : /\ alerts = Sorted(kept, AlertOrder(S)) /\ alerts \in Seq(S)
                    /\ InOrderOf(alerts, AlertOrder(S)) /\ \E at : Draws(at, alerts, kept, 1..Len(kept))
  BY <1>3, <1>4, SortedIsSorted
<1>6. alerts = ActiveAlertsFromRules(rules, server)
  BY <1>1, <1>2, <1>3, <1>5 DEF ActiveAlertsFromRules
<1>7. InOrder(alerts, AlertBefore)
  <2>1. ASSUME NEW i \in 1..Len(alerts), NEW j \in 1..Len(alerts), i < j
        PROVE  ~AlertBefore(alerts[j], alerts[i])
    <3>1. alerts[i] \in S /\ alerts[j] \in S /\ <<alerts[j], alerts[i]>> \notin AlertOrder(S)
      BY <1>5, <2>1 DEF InOrderOf
    <3>2. QED
      BY <1>4, <3>1
  <2>2. QED
    BY <2>1 DEF InOrder, IsSorted
<1>8. \A m \in 1..Len(all) : m \in positions <=> all[m].server = server /\ all[m].state \in Shown
  BY <1>2
<1>9. ASSUME NEW i \in 1..Len(all)
      PROVE  Count(alerts, all[i]) =
                IF all[i].server = server /\ all[i].state \in Shown THEN Count(all, all[i]) ELSE 0
  <2>1. PICK at : Draws(at, alerts, kept, 1..Len(kept))
    BY <1>5
  <2>2. PICK to : Draws(to, kept, all, positions)
    BY <1>3
  <2>3. Count(alerts, all[i]) = Cardinality({m \in 1..Len(kept) : kept[m] = all[i]})
    <3>1. PICK P \in SUBSET (1..Len(kept)) : P = 1..Len(kept)
      OBVIOUS
    <3>2. Draws(at, alerts, kept, P) /\ alerts \in Seq(S) /\ kept \in Seq(S)
      BY <1>3, <1>5, <2>1, <3>1
    <3>3. Count(alerts, all[i]) = Cardinality({m \in P : kept[m] = all[i]})
      BY <3>2, DrawnCount
    <3>4. QED
      BY <3>1, <3>3
  <2>4. Count(kept, all[i]) = Cardinality({m \in positions : all[m] = all[i]})
    <3>1. PICK P \in SUBSET (1..Len(all)) : P = positions
      OBVIOUS
    <3>2. Draws(to, kept, all, P) /\ kept \in Seq(S) /\ all \in Seq(S)
      BY <1>2, <1>3, <2>2, <3>1
    <3>3. Count(kept, all[i]) = Cardinality({m \in P : all[m] = all[i]})
      BY <3>2, DrawnCount
    <3>4. QED
      BY <3>1, <3>3
  <2>5. DOMAIN kept = 1..Len(kept) /\ DOMAIN all = 1..Len(all)
    BY <1>3
  <2>6. Count(kept, all[i]) = Cardinality({m \in 1..Len(kept) : kept[m] = all[i]})
    BY <2>5 DEF Count
  <2>7. CASE all[i].server = server /\ all[i].state \in Shown
    <3>1. {m \in positions : all[m] = all[i]} = {m \in DOMAIN all : all[m] = all[i]}
      BY <1>8, <2>5, <2>7
    <3>2. QED
      BY <2>3, <2>4, <2>6, <2>7, <3>1 DEF Count
  <2>8. CASE ~(all[i].server = server /\ all[i].state \in Shown)
    <3>1. {m \in positions : all[m] = all[i]} = {}
      BY <1>8, <2>8
    <3>2. Cardinality({}) = 0
      BY FS_EmptySet
    <3>3. QED
      BY <2>3, <2>4, <2>6, <2>8, <3>1, <3>2
  <2>9. QED
    BY <2>7, <2>8
<1>10. ASSUME NEW r \in 1..Len(rules), NEW k \in 1..Len(rules[r].alerts),
              NEW alert, alert = rules[r].alerts[k]
       PROVE  /\ IsNamed(alert.server) /\ alert.server # server => Len(alerts) < Len(all)
              /\ alert.state = "firing" /\ alert.server = server =>
                    \E i \in 1..Len(alerts) : alerts[i].since = alert.since
  <2>1. PICK i \in 1..Len(all) : all[i] = Alert(rules[r], alert)
    BY <1>1, <1>10
  <2>2. ASSUME IsNamed(alert.server), alert.server # server PROVE Len(alerts) < Len(all)
    <3>1. all[i].server = alert.server
      BY <2>1, <2>2 DEF Alert, Over
    <3>2. i \notin positions /\ positions # 1..Len(all)
      BY <1>8, <2>2, <3>1
    <3>3. Len(kept) < Len(all)
      <4>1. PICK to : Draws(to, kept, all, positions)
        BY <1>3
      <4>a. positions \in SUBSET (1..Len(all)) /\ positions # 1..Len(all)
        BY <3>2
      <4> HIDE DEF positions
      <4>2. PICK P \in SUBSET (1..Len(all)) : P = positions /\ P # 1..Len(all)
        BY <4>a
      <4>3. kept \in Seq(S) /\ all \in Seq(S) /\ Draws(to, kept, all, P)
        BY <1>2, <1>3, <4>1, <4>2
      <4>4. Len(kept) <= Len(all) /\ Len(kept) # Len(all) /\ Len(kept) \in Nat /\ Len(all) \in Nat
        BY <4>2, <4>3, DrawnLength
      <4>5. QED
        BY <4>4
    <3>4. Len(alerts) = Len(kept)
      <4>1. PICK at : Draws(at, alerts, kept, 1..Len(kept))
        BY <1>5
      <4>2. PICK P \in SUBSET (1..Len(kept)) : P = 1..Len(kept)
        OBVIOUS
      <4>3. alerts \in Seq(S) /\ kept \in Seq(S) /\ Draws(at, alerts, kept, P)
        BY <1>3, <1>5, <4>1, <4>2
      <4>4. QED
        BY <4>2, <4>3, DrawnLength
    <3>5. QED
      BY <3>3, <3>4
  <2>3. ASSUME alert.state = "firing", alert.server = server
        PROVE  \E j \in 1..Len(alerts) : alerts[j].since = alert.since
    <3>1. all[i].server = server /\ all[i].state = "firing" /\ all[i].since = alert.since
      <4>1. IsNamed("firing")
        BY Zenon DEF IsNamed, NoLabel
      <4>2. QED
        BY <2>1, <2>3, <4>1 DEF Alert, Over
    <3>2. i \in positions
      BY <1>8, <3>1 DEF Shown
    <3>3. PICK to : Draws(to, kept, all, positions)
      BY <1>3
    <3>a. /\ \A m \in positions : \E p \in 1..Len(kept) : to[p] = m
          /\ \A p \in 1..Len(kept) : kept[p] = all[to[p]]
      BY <3>3 DEF Draws
    <3>4. PICK m \in 1..Len(kept) : to[m] = i /\ kept[m] = all[i]
      BY <3>2, <3>a
    <3>5. PICK at : Draws(at, alerts, kept, 1..Len(kept))
      BY <1>5
    <3>b. /\ \A p \in 1..Len(kept) : \E j \in 1..Len(alerts) : at[j] = p
          /\ \A j \in 1..Len(alerts) : alerts[j] = kept[at[j]]
      BY <3>5 DEF Draws
    <3>6. PICK j \in 1..Len(alerts) : at[j] = m /\ alerts[j] = kept[m]
      BY <3>4, <3>b
    <3>7. QED
      BY <3>1, <3>4, <3>6
  <2>4. QED
    BY <2>2, <2>3
<1>11. \A r \in 1..Len(rules) : rules[r].alerts \in Seq(RuleAlert) /\ DOMAIN rules[r].alerts = 1..Len(rules[r].alerts)
  <2>1. SUFFICES ASSUME NEW r \in 1..Len(rules)
                 PROVE  rules[r].alerts \in Seq(RuleAlert) /\ DOMAIN rules[r].alerts = 1..Len(rules[r].alerts)
    OBVIOUS
  <2>2. rules[r] \in Rule
    OBVIOUS
  <2>3. rules[r].alerts \in Seq(RuleAlert)
    BY <2>2 DEF Rule
  <2>4. QED
    BY <2>3
<1>12. DOMAIN rules = 1..Len(rules) /\ DOMAIN all = 1..Len(all) /\ DOMAIN alerts = 1..Len(alerts)
  BY <1>5
<1>13. \A i \in DOMAIN all :
          Count(alerts, all[i]) =
             IF all[i].server = server /\ all[i].state \in Shown THEN Count(all, all[i]) ELSE 0
  BY <1>9, <1>12
<1>14. ASSUME NEW r \in DOMAIN rules, NEW k \in DOMAIN rules[r].alerts
       PROVE  /\ IsNamed(rules[r].alerts[k].server) /\ rules[r].alerts[k].server # server
                    => Len(alerts) < Len(all)
              /\ rules[r].alerts[k].state = "firing" /\ rules[r].alerts[k].server = server
                    => \E i \in DOMAIN alerts : alerts[i].since = rules[r].alerts[k].since
  <2>1. r \in 1..Len(rules) /\ k \in 1..Len(rules[r].alerts)
    BY <1>11, <1>12
  <2>2. QED
    BY <1>10, <1>12, <2>1
<1>15. QED
  BY <1>1, <1>6, <1>7, <1>13, <1>14, Zenon DEF AlertsAreOfServer

-----------------------------------------------------------------------------
(* The rows of the nodes *)

Queries == {"up", "online"}

Result == [node : Strings, query : Queries, value : Int]

Connection == [node : Strings, type : Strings, id : Int]

Row == [up : Int, online : Int, connections : Seq(Connection)]

Rows == Objects(Strings, Row)

\* A row without samples.
LEMMA NewRowIsRow == NewRow \in Row /\ NewRow.connections = <<>> /\ \A q \in Queries : NewRow[q] = Null
  BY DEF NewRow, Row, Queries, Null

SetSample(row, e) == [row EXCEPT ![e.query] = e.value]

\* A sample changes the value of its query only.
LEMMA SetSampleSets ==
    ASSUME NEW row \in Row, NEW e \in Result
    PROVE  /\ SetSample(row, e) \in Row /\ SetSample(row, e).connections = row.connections
           /\ \A q \in Queries : SetSample(row, e)[q] = IF q = e.query THEN e.value ELSE row[q]
<1>1. e.query \in {"up", "online"} /\ e.value \in Int
  BY DEF Result, Queries
<1>2. QED
  BY <1>1 DEF SetSample, Row, Queries

AddConnection(row, c) == [row EXCEPT !.connections = Append(@, c)]

\* A connection changes no value.
LEMMA AddConnectionAdds ==
    ASSUME NEW row \in Row, NEW c \in Connection
    PROVE  /\ AddConnection(row, c) \in Row
           /\ AddConnection(row, c).connections = Append(row.connections, c)
           /\ \A q \in Queries : AddConnection(row, c)[q] = row[q]
<1>1. PICK s \in Seq(Connection) : s = row.connections /\ Append(s, c) \in Seq(Connection)
  BY DEF Row
<1>2. QED
  BY <1>1 DEF AddConnection, Row, Queries

\* The row of one node is replaced, the others stay.
IsReplaced(next, rows, node, row) ==
    /\ next \in Rows
    /\ \A n : n \in DOMAIN next <=> n \in DOMAIN rows \/ n = node
    /\ \A n : RowOf(next, n) = IF n = node THEN row ELSE RowOf(rows, n)

\* A row is replaced, the others stay.
LEMMA WithRow ==
    ASSUME NEW rows \in Rows, NEW node \in Strings, NEW row \in Row
    PROVE  IsReplaced(With(rows, node, row), rows, node, row)
<1>1. PICK next : next = With(rows, node, row)
  OBVIOUS
<1>2. next \in Rows
  BY <1>1, WithProperty DEF Rows
<1>3. HasProperty(next, rows, node, row)
  BY <1>1, WithProperty DEF Rows
<1>4. /\ DOMAIN next = DOMAIN rows \cup {node} /\ next[node] = row
      /\ \A n \in DOMAIN rows : n # node => next[n] = rows[n]
  BY <1>3 DEF HasProperty
<1>5. \A n : RowOf(next, n) = IF n = node THEN row ELSE RowOf(rows, n)
  BY <1>4 DEF RowOf
<1>6. QED
  BY <1>1, <1>2, <1>4, <1>5 DEF IsReplaced

\* A node that is unknown begins with an empty row.
LEMMA RowOfIsRow ==
    ASSUME NEW rows \in Rows, NEW n
    PROVE  RowOf(rows, n) \in Row
<1>1. \A k \in DOMAIN rows : rows[k] \in Row
  BY DEF Rows, Objects
<1>2. QED
  BY <1>1, NewRowIsRow DEF RowOf

\* What one sample changes.
IsMerged(next, rows, e) ==
    /\ next \in Rows
    /\ \A n : n \in DOMAIN next <=> n \in DOMAIN rows \/ (IsNamed(n) /\ n = e.node)
    /\ \A n : RowOf(next, n) =
                 IF IsNamed(n) /\ n = e.node THEN SetSample(RowOf(rows, n), e) ELSE RowOf(rows, n)

\* What merge does with one sample.
LEMMA MergeSampleMerges ==
    ASSUME NEW rows \in Rows, NEW e \in Result
    PROVE  IsMerged(MergeSample(rows, e), rows, e)
<1>1. PICK node \in Strings : node = e.node
  BY DEF Result
<1>2. PICK row \in Row : row = SetSample(RowOf(rows, node), e)
  BY RowOfIsRow, SetSampleSets
<1>3. CASE IsNamed(node)
  <2>1. PICK next : next = With(rows, node, row)
    OBVIOUS
  <2>2. MergeSample(rows, e) = next
    BY <1>1, <1>2, <1>3, <2>1 DEF MergeSample, SetSample
  <2>3. IsReplaced(next, rows, node, row)
    BY <2>1, WithRow
  <2>4. IsMerged(next, rows, e)
    BY <1>1, <1>2, <1>3, <2>3 DEF IsReplaced, IsMerged
  <2>5. QED
    BY <2>2, <2>4
<1>4. CASE ~IsNamed(node)
  <2>1. MergeSample(rows, e) = rows
    BY <1>1, <1>4 DEF MergeSample
  <2>2. IsMerged(rows, rows, e)
    BY <1>1, <1>4 DEF IsMerged
  <2>3. QED
    BY <2>1, <2>2
<1>5. QED
  BY <1>3, <1>4

\* What one connection changes.
IsConnected(next, rows, c) ==
    /\ next \in Rows
    /\ \A n : n \in DOMAIN next <=>
                 n \in DOMAIN rows \/ (IsNamed(n) /\ n = c.node /\ c.type \in ConnectionTypes)
    /\ \A n : RowOf(next, n) =
                 IF IsNamed(n) /\ n = c.node /\ c.type \in ConnectionTypes
                 THEN AddConnection(RowOf(rows, n), c) ELSE RowOf(rows, n)

\* What the loop does with one connection.
LEMMA MergeConnectionMerges ==
    ASSUME NEW rows \in Rows, NEW c \in Connection
    PROVE  IsConnected(MergeConnection(rows, c), rows, c)
<1>1. PICK node \in Strings : node = c.node
  BY DEF Connection
<1>2. PICK row \in Row : row = AddConnection(RowOf(rows, node), c)
  BY RowOfIsRow, AddConnectionAdds
<1>3. CASE IsNamed(node) /\ c.type \in ConnectionTypes
  <2>1. PICK next : next = With(rows, node, row)
    OBVIOUS
  <2>2. MergeConnection(rows, c) = next
    BY <1>1, <1>2, <1>3, <2>1 DEF MergeConnection, AddConnection
  <2>3. IsReplaced(next, rows, node, row)
    BY <2>1, WithRow
  <2>4. IsConnected(next, rows, c)
    BY <1>1, <1>2, <1>3, <2>3 DEF IsReplaced, IsConnected
  <2>5. QED
    BY <2>2, <2>4
<1>4. CASE ~(IsNamed(node) /\ c.type \in ConnectionTypes)
  <2>1. MergeConnection(rows, c) = rows
    BY <1>1, <1>4 DEF MergeConnection
  <2>2. IsConnected(rows, rows, c)
    BY <1>1, <1>4 DEF IsConnected
  <2>3. QED
    BY <2>1, <2>2
<1>5. QED
  BY <1>3, <1>4

\* The samples one after another: results[k] are the rows after k of them.
MergesSamples(results, s) ==
    /\ results \in [0..Len(s) -> Rows]
    /\ results[0] = <<>> /\ results[Len(s)] = SampleRows(s)
    /\ \A k \in 1..Len(s) : results[k] = MergeSample(results[k - 1], s[k])

\* The samples are merged one by one.
LEMMA SampleSteps ==
    ASSUME NEW s \in Seq(Result)
    PROVE  \E results : MergesSamples(results, s)
<1> DEFINE n == Len(s)
           States == Rows
           Merge(x, e) == MergeSample(x, e)
           it == CHOOSE g : g = [P \in SUBSET (DOMAIN s) |->
                                    IF P = {} THEN <<>> ELSE Merge(g[P \ {Max(P)}], s[Max(P)])]
           step == [q \in States \X (1..n) |-> Merge(q[1], s[q[2]])]
<1>1. n \in Nat /\ DOMAIN s = 1..n /\ \A k \in 1..n : s[k] \in Result
  OBVIOUS
<1>2. SampleRows(s) = it[DOMAIN s]
  BY Zenon DEF SampleRows, FoldLeft, MapThenFoldSet
<1>3. \A x \in States, k \in 1..n : Merge(x, s[k]) \in States
  <2>1. ASSUME NEW x \in Rows, NEW k \in 1..n PROVE MergeSample(x, s[k]) \in Rows
    <3>1. s[k] \in Result
      BY <1>1
    <3>2. IsMerged(MergeSample(x, s[k]), x, s[k])
      BY <3>1, MergeSampleMerges
    <3>3. QED
      BY <3>2 DEF IsMerged
  <2>2. QED
    BY <2>1
<1>4. <<>> \in States
  BY EmptyObject DEF Rows
<1> HIDE DEF n, States, Merge, it
<1>5. /\ step \in [States \X (1..n) -> States]
      /\ \A x \in States, k \in 1..n : step[<<x, k>>] = Merge(x, s[k])
  BY <1>3
<1> HIDE DEF step
<1>6. PICK g \in [SUBSET (1..n) -> States] : IsFold(g, n, <<>>, step)
  BY <1>1, <1>4, <1>5, FoldExists
<1>7. \A P \in SUBSET (1..n) : P # {} => Max(P) \in 1..n /\ g[P \ {Max(P)}] \in States
  BY <1>1, MaxOfPositions
<1>8. g = [P \in SUBSET (DOMAIN s) |-> IF P = {} THEN <<>> ELSE Merge(g[P \ {Max(P)}], s[Max(P)])]
  BY <1>1, <1>5, <1>6, <1>7 DEF IsFold
<1>9. it = [P \in SUBSET (DOMAIN s) |-> IF P = {} THEN <<>> ELSE Merge(it[P \ {Max(P)}], s[Max(P)])]
  BY <1>8, Zenon DEF it
<1>10. Folds(it, n, States, <<>>, step)
  <2>1. it[{}] = <<>>
    BY <1>9
  <2>2. \A P \in SUBSET (1..n) : P # {} => it[P] = Merge(it[P \ {Max(P)}], s[Max(P)])
    BY <1>1, <1>9
  <2>3. QED
    BY <1>5, <1>7, <2>1, <2>2 DEF Folds
<1>11. PICK results \in [0..n -> States] : Follow(results, n, <<>>, step, it[1..n])
  BY <1>1, <1>4, <1>5, <1>10, FoldRuns
<1>12. ASSUME NEW k \in 1..n PROVE results[k] = Merge(results[k - 1], s[k])
  <2>1. results[k - 1] \in States
    BY <1>1
  <2>2. QED
    BY <1>5, <1>11, <2>1 DEF Follow
<1>13. results[0] = <<>> /\ results[n] = SampleRows(s)
  BY <1>1, <1>2, <1>11 DEF Follow
<1>14. MergesSamples(results, s)
  BY <1>12, <1>13 DEF n, Merge, States, MergesSamples
<1>15. QED
  BY <1>14

\* The connections one after another: results[k] are the rows after k of them.
MergesConnections(results, rows, s) ==
    /\ results \in [0..Len(s) -> Rows]
    /\ results[0] = rows /\ results[Len(s)] = ConnectionRows(rows, s)
    /\ \A k \in 1..Len(s) : results[k] = MergeConnection(results[k - 1], s[k])

\* So are the connections.
LEMMA ConnectionSteps ==
    ASSUME NEW rows \in Rows, NEW s \in Seq(Connection)
    PROVE  \E results : MergesConnections(results, rows, s)
<1> DEFINE n == Len(s)
           States == Rows
           Merge(x, e) == MergeConnection(x, e)
           it == CHOOSE g : g = [P \in SUBSET (DOMAIN s) |->
                                    IF P = {} THEN rows ELSE Merge(g[P \ {Max(P)}], s[Max(P)])]
           step == [q \in States \X (1..n) |-> Merge(q[1], s[q[2]])]
<1>1. n \in Nat /\ DOMAIN s = 1..n /\ \A k \in 1..n : s[k] \in Connection
  OBVIOUS
<1>2. ConnectionRows(rows, s) = it[DOMAIN s]
  BY Zenon DEF ConnectionRows, FoldLeft, MapThenFoldSet
<1>3. \A x \in States, k \in 1..n : Merge(x, s[k]) \in States
  <2>1. ASSUME NEW x \in Rows, NEW k \in 1..n PROVE MergeConnection(x, s[k]) \in Rows
    <3>1. s[k] \in Connection
      BY <1>1
    <3>2. IsConnected(MergeConnection(x, s[k]), x, s[k])
      BY <3>1, MergeConnectionMerges
    <3>3. QED
      BY <3>2 DEF IsConnected
  <2>2. QED
    BY <2>1
<1>4. rows \in States
  OBVIOUS
<1> HIDE DEF n, States, Merge, it
<1>5. /\ step \in [States \X (1..n) -> States]
      /\ \A x \in States, k \in 1..n : step[<<x, k>>] = Merge(x, s[k])
  BY <1>3
<1> HIDE DEF step
<1>6. PICK g \in [SUBSET (1..n) -> States] : IsFold(g, n, rows, step)
  BY <1>1, <1>4, <1>5, FoldExists
<1>7. \A P \in SUBSET (1..n) : P # {} => Max(P) \in 1..n /\ g[P \ {Max(P)}] \in States
  BY <1>1, MaxOfPositions
<1>8. g = [P \in SUBSET (DOMAIN s) |-> IF P = {} THEN rows ELSE Merge(g[P \ {Max(P)}], s[Max(P)])]
  BY <1>1, <1>5, <1>6, <1>7 DEF IsFold
<1>9. it = [P \in SUBSET (DOMAIN s) |-> IF P = {} THEN rows ELSE Merge(it[P \ {Max(P)}], s[Max(P)])]
  BY <1>8, Zenon DEF it
<1>10. Folds(it, n, States, rows, step)
  <2>1. it[{}] = rows
    BY <1>9
  <2>2. \A P \in SUBSET (1..n) : P # {} => it[P] = Merge(it[P \ {Max(P)}], s[Max(P)])
    BY <1>1, <1>9
  <2>3. QED
    BY <1>5, <1>7, <2>1, <2>2 DEF Folds
<1>11. PICK results \in [0..n -> States] : Follow(results, n, rows, step, it[1..n])
  BY <1>1, <1>4, <1>5, <1>10, FoldRuns
<1>12. ASSUME NEW k \in 1..n PROVE results[k] = Merge(results[k - 1], s[k])
  <2>1. results[k - 1] \in States
    BY <1>1
  <2>2. QED
    BY <1>5, <1>11, <2>1 DEF Follow
<1>13. results[0] = rows /\ results[n] = ConnectionRows(rows, s)
  BY <1>1, <1>2, <1>11 DEF Follow
<1>14. MergesConnections(results, rows, s)
  BY <1>12, <1>13 DEF n, Merge, States, MergesConnections
<1>15. QED
  BY <1>14

\* Of the first k samples, v is the value of the latest one of the node for the query.
IsLastValue(v, s, k, n, q) ==
    \/ v = Null /\ \A i \in 1..k : ~(s[i].node = n /\ s[i].query = q)
    \/ \E i \in 1..k :
          /\ s[i].node = n /\ s[i].query = q /\ v = s[i].value
          /\ \A j \in 1..k : s[j].node = n /\ s[j].query = q => j <= i

\* A sample of another node or query changes nothing.
LEMMA LastValueStays ==
    ASSUME NEW v, NEW s, NEW k \in Nat, NEW n, NEW q, IsLastValue(v, s, k, n, q),
           ~(s[k + 1].node = n /\ s[k + 1].query = q)
    PROVE  IsLastValue(v, s, k + 1, n, q)
<1>1. /\ \A i \in 1..(k + 1) : i = k + 1 \/ i \in 1..k
      /\ \A i \in 1..k : i \in 1..(k + 1)
  OBVIOUS
<1>2. QED
  BY <1>1 DEF IsLastValue

\* A sample of the node and query is the latest one.
LEMMA LastValueIsNext ==
    ASSUME NEW s, NEW k \in Nat, NEW n, NEW q, s[k + 1].node = n, s[k + 1].query = q
    PROVE  IsLastValue(s[k + 1].value, s, k + 1, n, q)
<1>1. k + 1 \in 1..(k + 1) /\ \A j \in 1..(k + 1) : j <= k + 1
  OBVIOUS
<1>2. QED
  BY <1>1 DEF IsLastValue

\* The rows after k samples.
AreOfSamples(rows, s, k) ==
    /\ rows \in Rows
    /\ \A n : n \in DOMAIN rows <=> IsNamed(n) /\ \E i \in 1..k : s[i].node = n
    /\ \A n : RowOf(rows, n).connections = <<>>
    /\ \A n : IsNamed(n) => \A q \in Queries : IsLastValue(RowOf(rows, n)[q], s, k, n, q)

\* One sample more.
LEMMA NextSample ==
    ASSUME NEW s \in Seq(Result), NEW k \in Nat, k + 1 \in 1..Len(s),
           NEW rows, AreOfSamples(rows, s, k), NEW next, IsMerged(next, rows, s[k + 1])
    PROVE  AreOfSamples(next, s, k + 1)
<1>1. PICK e \in Result : e = s[k + 1]
  OBVIOUS
<1>2. /\ rows \in Rows /\ next \in Rows
      /\ \A n : n \in DOMAIN rows <=> IsNamed(n) /\ \E i \in 1..k : s[i].node = n
      /\ \A n : n \in DOMAIN next <=> n \in DOMAIN rows \/ (IsNamed(n) /\ n = e.node)
  BY <1>1 DEF AreOfSamples, IsMerged
<1>3. /\ \A i \in 1..(k + 1) : i = k + 1 \/ i \in 1..k
      /\ \A i \in 1..k : i \in 1..(k + 1)
      /\ k + 1 \in 1..(k + 1)
  OBVIOUS
<1>4. \A n : n \in DOMAIN next <=> IsNamed(n) /\ \E i \in 1..(k + 1) : s[i].node = n
  BY <1>1, <1>2, <1>3
<1>5. ASSUME NEW n
      PROVE  /\ RowOf(next, n).connections = <<>>
             /\ IsNamed(n) => \A q \in Queries : IsLastValue(RowOf(next, n)[q], s, k + 1, n, q)
  <2>1. PICK row \in Row : row = RowOf(rows, n)
    BY <1>2, RowOfIsRow
  <2>2. /\ row.connections = <<>>
        /\ IsNamed(n) => \A q \in Queries : IsLastValue(row[q], s, k, n, q)
    BY <2>1 DEF AreOfSamples
  <2>3. RowOf(next, n) = IF IsNamed(n) /\ n = e.node THEN SetSample(row, e) ELSE row
    BY <1>1, <2>1 DEF IsMerged
  <2>4. CASE IsNamed(n) /\ n = e.node
    <3>1. PICK row2 : row2 = SetSample(row, e) /\ row2 = RowOf(next, n)
      BY <2>3, <2>4
    <3>2. /\ row2.connections = row.connections
          /\ \A q \in Queries : row2[q] = IF q = e.query THEN e.value ELSE row[q]
      <4>1. /\ SetSample(row, e).connections = row.connections
            /\ \A q \in Queries : SetSample(row, e)[q] = IF q = e.query THEN e.value ELSE row[q]
        BY SetSampleSets
      <4>2. QED
        BY <3>1, <4>1
    <3>3. ASSUME NEW q \in Queries PROVE IsLastValue(row2[q], s, k + 1, n, q)
      <4>1. CASE q = e.query
        <5>1. s[k + 1].node = n /\ s[k + 1].query = q /\ row2[q] = s[k + 1].value
          BY <1>1, <2>4, <3>2, <4>1
        <5>2. IsLastValue(s[k + 1].value, s, k + 1, n, q)
          BY <5>1, LastValueIsNext
        <5>3. QED
          BY <5>1, <5>2
      <4>2. CASE q # e.query
        <5>1. row2[q] = row[q] /\ s[k + 1].query # q
          BY <1>1, <3>2, <4>2
        <5>2. IsLastValue(row[q], s, k, n, q)
          BY <2>2, <2>4
        <5>3. IsLastValue(row[q], s, k + 1, n, q)
          BY <5>1, <5>2, LastValueStays
        <5>4. QED
          BY <5>1, <5>3
      <4>3. QED
        BY <4>1, <4>2
    <3>4. QED
      BY <2>2, <3>1, <3>2, <3>3
  <2>5. CASE ~(IsNamed(n) /\ n = e.node)
    <3>1. RowOf(next, n) = row
      BY <2>3, <2>5
    <3>2. ASSUME IsNamed(n), NEW q \in Queries PROVE IsLastValue(row[q], s, k + 1, n, q)
      <4>1. IsLastValue(row[q], s, k, n, q) /\ s[k + 1].node # n
        BY <1>1, <2>2, <2>5, <3>2
      <4>2. QED
        BY <4>1, LastValueStays
    <3>3. QED
      BY <2>2, <3>1, <3>2
  <2>6. QED
    BY <2>4, <2>5
<1>6. QED
  BY <1>2, <1>4, <1>5 DEF AreOfSamples

\* The rows after all samples.
LEMMA SampleRowsAreOfSamples ==
    ASSUME NEW s \in Seq(Result)
    PROVE  AreOfSamples(SampleRows(s), s, Len(s))
<1>p. PICK results : MergesSamples(results, s)
  BY SampleSteps
<1>1. /\ results \in [0..Len(s) -> Rows]
      /\ results[0] = <<>> /\ results[Len(s)] = SampleRows(s)
      /\ \A k \in 1..Len(s) : results[k] = MergeSample(results[k - 1], s[k])
  BY <1>p DEF MergesSamples
<1> DEFINE T == {k \in Nat : AreOfSamples(results[k], s, k)}
<1>2. 0 \in T
  <2>1. PICK rows : rows = results[0] /\ rows = <<>>
    BY <1>1
  <2>2. rows \in Rows /\ DOMAIN rows = {}
    BY <2>1, EmptyObject DEF Rows
  <2>3. \A n : RowOf(rows, n) = NewRow
    BY <2>2 DEF RowOf
  <2>4. \A n : \A q \in Queries : IsLastValue(NewRow[q], s, 0, n, q)
    <3>1. 1..0 = {}
      OBVIOUS
    <3>2. QED
      BY <3>1, NewRowIsRow DEF IsLastValue
  <2>5. AreOfSamples(rows, s, 0)
    <3>1. 1..0 = {}
      OBVIOUS
    <3>2. QED
      BY <2>2, <2>3, <2>4, <3>1, NewRowIsRow DEF AreOfSamples
  <2>6. QED
    BY <2>1, <2>5
<1>3. ASSUME NEW k \in 0..(Len(s) - 1), k \in T PROVE k + 1 \in T
  <2>1. k \in Nat /\ k + 1 \in 1..Len(s) /\ (k + 1) - 1 = k /\ s[k + 1] \in Result
    OBVIOUS
  <2>2. PICK rows : rows = results[k] /\ AreOfSamples(rows, s, k)
    BY <1>3
  <2>3. PICK next : next = MergeSample(rows, s[k + 1]) /\ next = results[k + 1]
    BY <1>1, <2>1, <2>2
  <2>4. rows \in Rows
    BY <2>2 DEF AreOfSamples
  <2>5. IsMerged(next, rows, s[k + 1])
    BY <2>1, <2>3, <2>4, MergeSampleMerges
  <2>6. AreOfSamples(next, s, k + 1)
    BY <2>1, <2>2, <2>5, NextSample
  <2>7. QED
    BY <2>1, <2>3, <2>6
<1> HIDE DEF T
<1>4. Len(s) \in T
  <2>1. Len(s) \in Nat
    OBVIOUS
  <2>2. \A k \in 0..Len(s) : k \in T
    BY <1>2, <1>3, <2>1, InductionUpTo
  <2>3. QED
    BY <2>1, <2>2
<1>5. QED
  BY <1>1, <1>4 DEF T

\* The connections of a node that are shown.
ShownOf(s, n) == {c \in ToSet(s) : c.node = n /\ c.type \in ConnectionTypes}

\* The rows after k connections.
AreOfConnections(rows, base, s, k) ==
    /\ rows \in Rows
    /\ \A n : n \in DOMAIN rows <=>
                 n \in DOMAIN base \/ (IsNamed(n) /\ \E i \in 1..k : s[i] \in ShownOf(s, n))
    /\ \A n : \A q \in Queries : RowOf(rows, n)[q] = RowOf(base, n)[q]
    /\ \A n : IsNamed(n) => \E at : Picks(at, RowOf(rows, n).connections, s, k, ShownOf(s, n))

\* One connection more.
LEMMA NextConnection ==
    ASSUME NEW s \in Seq(Connection), NEW k \in Nat, k + 1 \in 1..Len(s), NEW base \in Rows,
           NEW rows, AreOfConnections(rows, base, s, k), NEW next, IsConnected(next, rows, s[k + 1])
    PROVE  AreOfConnections(next, base, s, k + 1)
<1>1. PICK c \in Connection : c = s[k + 1]
  OBVIOUS
<1>s. \A n : c \in ShownOf(s, n) <=> n = c.node /\ c.type \in ConnectionTypes
  <2>1. c \in ToSet(s)
    BY <1>1, OwnElements
  <2>2. QED
    BY <2>1 DEF ShownOf
<1>2. /\ rows \in Rows /\ next \in Rows
      /\ \A n : n \in DOMAIN rows <=>
                   n \in DOMAIN base \/ (IsNamed(n) /\ \E i \in 1..k : s[i] \in ShownOf(s, n))
      /\ \A n : n \in DOMAIN next <=> n \in DOMAIN rows \/ (IsNamed(n) /\ c \in ShownOf(s, n))
  BY <1>1, <1>s DEF AreOfConnections, IsConnected
<1>3. /\ \A i \in 1..(k + 1) : i = k + 1 \/ i \in 1..k
      /\ \A i \in 1..k : i \in 1..(k + 1)
      /\ k + 1 \in 1..(k + 1) /\ (k + 1) - 1 = k
  OBVIOUS
<1>4. \A n : n \in DOMAIN next <=>
                n \in DOMAIN base \/ (IsNamed(n) /\ \E i \in 1..(k + 1) : s[i] \in ShownOf(s, n))
  BY <1>1, <1>2, <1>3
<1>5. ASSUME NEW n
      PROVE  /\ \A q \in Queries : RowOf(next, n)[q] = RowOf(base, n)[q]
             /\ IsNamed(n) => \E at : Picks(at, RowOf(next, n).connections, s, k + 1, ShownOf(s, n))
  <2>1. PICK row \in Row : row = RowOf(rows, n)
    BY <1>2, RowOfIsRow
  <2>2. /\ \A q \in Queries : row[q] = RowOf(base, n)[q]
        /\ IsNamed(n) => \E at : Picks(at, row.connections, s, k, ShownOf(s, n))
    BY <2>1 DEF AreOfConnections
  <2>3. PICK row2 : row2 = RowOf(next, n)
    OBVIOUS
  <2>4. row2 = IF IsNamed(n) /\ c \in ShownOf(s, n) THEN AddConnection(row, c) ELSE row
    BY <1>1, <1>s, <2>1, <2>3 DEF IsConnected
  <2>5. /\ \A q \in Queries : row2[q] = row[q]
        /\ IsNamed(n) =>
              row2.connections = IF c \in ShownOf(s, n) THEN Append(row.connections, c) ELSE row.connections
    BY <2>4, AddConnectionAdds
  <2>6. ASSUME IsNamed(n) PROVE \E at : Picks(at, row2.connections, s, k + 1, ShownOf(s, n))
    <3>1. PICK kept \in Seq(Connection) : kept = row.connections
      BY DEF Row
    <3>2. PICK at : Picks(at, kept, s, (k + 1) - 1, ShownOf(s, n))
      BY <1>3, <2>2, <2>6, <3>1
    <3>3. \E to : Picks(to, IF s[k + 1] \in ShownOf(s, n) THEN Append(kept, s[k + 1]) ELSE kept,
                        s, k + 1, ShownOf(s, n))
      BY <3>2, PicksNext
    <3>4. row2.connections = IF s[k + 1] \in ShownOf(s, n) THEN Append(kept, s[k + 1]) ELSE kept
      BY <1>1, <2>5, <2>6, <3>1
    <3>5. QED
      BY <3>3, <3>4
  <2>7. QED
    BY <2>2, <2>3, <2>5, <2>6
<1>6. QED
  BY <1>2, <1>4, <1>5 DEF AreOfConnections

\* The rows after all connections.
LEMMA ConnectionRowsAreOfConnections ==
    ASSUME NEW s \in Seq(Connection), NEW base \in Rows, \A n : RowOf(base, n).connections = <<>>
    PROVE  AreOfConnections(ConnectionRows(base, s), base, s, Len(s))
<1>p. PICK results : MergesConnections(results, base, s)
  BY ConnectionSteps
<1>1. /\ results \in [0..Len(s) -> Rows]
      /\ results[0] = base /\ results[Len(s)] = ConnectionRows(base, s)
      /\ \A k \in 1..Len(s) : results[k] = MergeConnection(results[k - 1], s[k])
  BY <1>p DEF MergesConnections
<1> DEFINE T == {k \in Nat : AreOfConnections(results[k], base, s, k)}
<1>2. 0 \in T
  <2>1. 1..0 = {} /\ Len(<<>>) = 0
    OBVIOUS
  <2>2. \A n : Picks([i \in 1..0 |-> 1], <<>>, s, 0, ShownOf(s, n))
    BY <2>1 DEF Picks
  <2>3. \A n : \E at : Picks(at, RowOf(base, n).connections, s, 0, ShownOf(s, n))
    BY <2>2
  <2>4. AreOfConnections(base, base, s, 0)
    BY <2>1, <2>3 DEF AreOfConnections
  <2>5. QED
    BY <1>1, <2>4
<1>3. ASSUME NEW k \in 0..(Len(s) - 1), k \in T PROVE k + 1 \in T
  <2>1. k \in Nat /\ k + 1 \in 1..Len(s) /\ (k + 1) - 1 = k /\ s[k + 1] \in Connection
    OBVIOUS
  <2>2. PICK rows : rows = results[k] /\ AreOfConnections(rows, base, s, k)
    BY <1>3
  <2>3. PICK next : next = MergeConnection(rows, s[k + 1]) /\ next = results[k + 1]
    BY <1>1, <2>1, <2>2
  <2>4. rows \in Rows
    BY <2>2 DEF AreOfConnections
  <2>5. IsConnected(next, rows, s[k + 1])
    BY <2>1, <2>3, <2>4, MergeConnectionMerges
  <2>6. AreOfConnections(next, base, s, k + 1)
    BY <2>1, <2>2, <2>5, NextConnection
  <2>7. QED
    BY <2>1, <2>3, <2>6
<1> HIDE DEF T
<1>4. Len(s) \in T
  <2>1. Len(s) \in Nat
    OBVIOUS
  <2>2. \A k \in 0..Len(s) : k \in T
    BY <1>2, <1>3, <2>1, InductionUpTo
  <2>3. QED
    BY <2>1, <2>2
<1>5. QED
  BY <1>1, <1>4 DEF T

\* The order of the connections is one, so that sort may be used with it.
LEMMA ConnectionOrderIsOrder ==
    ASSUME NEW S \in SUBSET Connection, \A c \in S : c.type \in ConnectionTypes
    PROVE  /\ IsOrder(ConnectionOrder(S), S)
           /\ \A x, y \in S : <<x, y>> \in ConnectionOrder(S) <=> ConnectionBefore(x, y)
<1>1. \A x \in S : x.id \in Int /\ x.type \in {"central", "region"}
  BY DEF Connection, ConnectionTypes
<1>2. \A x, y \in S : <<x, y>> \in ConnectionOrder(S) <=> ConnectionBefore(x, y)
  BY DEF ConnectionOrder
<1>3. ASSUME NEW x \in S, NEW y \in S, ConnectionBefore(x, y) PROVE ~ConnectionBefore(y, x)
  BY <1>1, <1>3 DEF ConnectionBefore
<1>4. ASSUME NEW x \in S, NEW y \in S, NEW z \in S, ConnectionBefore(x, y)
      PROVE  ConnectionBefore(x, z) \/ ConnectionBefore(z, y)
  <2>1. PICK a \in Int, b \in Int, c \in Int : a = x.id /\ b = y.id /\ c = z.id
    BY <1>1
  <2>2. a < b => a < c \/ c < b
    OBVIOUS
  <2>3. CASE x.type = y.type
    BY <1>1, <1>4, <2>1, <2>2, <2>3 DEF ConnectionBefore
  <2>4. CASE x.type # y.type
    BY <1>1, <1>4, <2>1, <2>2, <2>4 DEF ConnectionBefore
  <2>5. QED
    BY <2>3, <2>4
<1>5. QED
  BY <1>2, <1>3, <1>4 DEF IsOrder

\* An element is in a list that is filtered and sorted as often as before, or never.
LEMMA SortedCount ==
    ASSUME NEW A, NEW s \in Seq(A), NEW S, NEW kept \in Seq(A), \E at : Picks(at, kept, s, Len(s), S),
           NEW B, NEW Before, IsOrder(Before, B), kept \in Seq(B), NEW e
    PROVE  Count(Sorted(kept, Before), e) = IF e \in S THEN Count(s, e) ELSE 0
<1>1. PICK P \in SUBSET (1..Len(s)) : P = {m \in 1..Len(s) : s[m] \in S}
  OBVIOUS
<1>2. PICK at : Picks(at, kept, s, Len(s), S)
  OBVIOUS
<1>3. Draws(at, kept, s, P)
  <2>1. /\ at \in [1..Len(kept) -> 1..Len(s)] /\ Len(kept) \in Nat
        /\ \A i \in 1..Len(kept) : kept[i] = s[at[i]] /\ s[at[i]] \in S
        /\ \A i, j \in 1..Len(kept) : i < j => at[i] < at[j]
        /\ \A m \in 1..Len(s) : s[m] \in S => \E i \in 1..Len(kept) : at[i] = m
    BY <1>2 DEF Picks
  <2>2. ASSUME NEW i \in 1..Len(kept), NEW j \in 1..Len(kept), at[i] = at[j] PROVE i = j
    <3>1. at[i] \in Int /\ at[j] \in Int /\ ~(at[i] < at[j]) /\ ~(at[j] < at[i])
      BY <2>1, <2>2
    <3>2. ~(i < j) /\ ~(j < i)
      BY <2>1, <3>1
    <3>3. QED
      BY <2>1, <3>2
  <2>3. QED
    BY <1>1, <2>1, <2>2 DEF Draws
<1>4. PICK sorted \in Seq(B) : sorted = Sorted(kept, Before) /\ \E to : Draws(to, sorted, kept, 1..Len(kept))
  BY SortedIsSorted
<1>a. PICK Q \in SUBSET (1..Len(kept)) : Q = 1..Len(kept)
  OBVIOUS
<1>b. PICK to : Draws(to, sorted, kept, 1..Len(kept))
  BY <1>4
<1>5. Draws(to, sorted, kept, Q)
  BY <1>a, <1>b
<1>6. Count(sorted, e) = Cardinality({m \in Q : kept[m] = e})
  BY <1>5, DrawnCount
<1>7. Count(kept, e) = Cardinality({m \in P : s[m] = e})
  BY <1>3, DrawnCount
<1>8. DOMAIN kept = 1..Len(kept) /\ DOMAIN s = 1..Len(s)
  OBVIOUS
<1>9. Count(sorted, e) = Count(kept, e)
  BY <1>a, <1>6, <1>8 DEF Count
<1>10. CASE e \in S
  <2>1. {m \in P : s[m] = e} = {m \in DOMAIN s : s[m] = e}
    BY <1>1, <1>8, <1>10
  <2>2. QED
    BY <1>4, <1>7, <1>9, <1>10, <2>1 DEF Count
<1>11. CASE e \notin S
  <2>1. {m \in P : s[m] = e} = {}
    BY <1>1, <1>11
  <2>2. Cardinality({}) = 0
    BY FS_EmptySet
  <2>3. QED
    BY <1>4, <1>7, <1>9, <1>11, <2>1, <2>2
<1>12. QED
  BY <1>10, <1>11

\* The answers with a value to a query about a node.
Answers(results, n, q) ==
    {i \in DOMAIN results : results[i].node = n /\ results[i].query = q /\ results[i].value # Null}

\* v is the value of the last one of them.
IsLastAnswer(v, results, n, q) ==
    IF Answers(results, n, q) = {}
    THEN v = Null
    ELSE \E i \in Answers(results, n, q) : (\A j \in Answers(results, n, q) : j <= i) /\ v = results[i].value

\* The samples with a finite value, and the latest of them.
AreFinite(samples, results) ==
    /\ samples \in Seq(Result)
    /\ \A n : (\E i \in 1..Len(samples) : samples[i].node = n)
                 <=> \E i \in 1..Len(results) : results[i].node = n /\ results[i].value # Null
    /\ \A v, n, q :
          IsLastValue(v, samples, Len(samples), n, q) => IsLastAnswer(v, results, n, q)

\* The latest sample is the last answer with a finite value.
LEMMA LastFiniteValue ==
    ASSUME NEW results \in Seq(Result), NEW samples, samples = PrometheusSamples(results)
    PROVE  AreFinite(samples, results)
<1> DEFINE finite == {r \in ToSet(results) : r.value # Null}
<1>1. samples = Kept(results, finite)
  BY DEF PrometheusSamples
<1>2. \A i \in 1..Len(results) : results[i] \in finite <=> results[i].value # Null
  <2>1. \A i \in 1..Len(results) : results[i] \in ToSet(results)
    BY OwnElements
  <2>2. QED
    BY <2>1
<1> HIDE DEF finite
<1>3. samples \in Seq(Result) /\ \E at : Picks(at, samples, results, Len(results), finite)
  BY <1>1, KeptPicks
<1>4. PICK at : Picks(at, samples, results, Len(results), finite)
  BY <1>3
<1>5. /\ at \in [1..Len(samples) -> 1..Len(results)] /\ Len(samples) \in Nat
      /\ \A i \in 1..Len(samples) : samples[i] = results[at[i]] /\ results[at[i]].value # Null
      /\ \A i, j \in 1..Len(samples) : i < j => at[i] < at[j]
      /\ \A m \in 1..Len(results) : results[m].value # Null => \E i \in 1..Len(samples) : at[i] = m
  <2>1. /\ at \in [1..Len(samples) -> 1..Len(results)] /\ Len(samples) \in Nat
        /\ \A i \in 1..Len(samples) : samples[i] = results[at[i]] /\ results[at[i]] \in finite
        /\ \A i, j \in 1..Len(samples) : i < j => at[i] < at[j]
        /\ \A m \in 1..Len(results) : results[m] \in finite => \E i \in 1..Len(samples) : at[i] = m
    BY <1>3, <1>4 DEF Picks
  <2>2. ASSUME NEW i \in 1..Len(samples)
        PROVE  samples[i] = results[at[i]] /\ results[at[i]].value # Null
    <3>1. at[i] \in 1..Len(results)
      BY <2>1
    <3>2. QED
      BY <1>2, <2>1, <3>1
  <2>3. \A m \in 1..Len(results) : results[m].value # Null => \E i \in 1..Len(samples) : at[i] = m
    BY <1>2, <2>1
  <2>4. QED
    BY <2>1, <2>2, <2>3
<1>6. ASSUME NEW n
      PROVE  (\E i \in 1..Len(samples) : samples[i].node = n)
                <=> \E i \in 1..Len(results) : results[i].node = n /\ results[i].value # Null
  <2>1. ASSUME NEW i \in 1..Len(samples), samples[i].node = n
        PROVE  \E m \in 1..Len(results) : results[m].node = n /\ results[m].value # Null
    <3>1. at[i] \in 1..Len(results) /\ results[at[i]].node = n /\ results[at[i]].value # Null
      BY <1>5, <2>1
    <3>2. QED
      BY <3>1
  <2>2. ASSUME NEW m \in 1..Len(results), results[m].node = n, results[m].value # Null
        PROVE  \E i \in 1..Len(samples) : samples[i].node = n
    <3>1. PICK i \in 1..Len(samples) : at[i] = m
      BY <1>5, <2>2
    <3>2. samples[i].node = n
      BY <1>5, <2>2, <3>1
    <3>3. QED
      BY <3>2
  <2>3. QED
    BY <2>1, <2>2
<1>7. ASSUME NEW v, NEW n, NEW q, IsLastValue(v, samples, Len(samples), n, q)
      PROVE  IsLastAnswer(v, results, n, q)
  <2>a. PICK Of : Of = Answers(results, n, q)
    OBVIOUS
  <2>b. Of = {i \in 1..Len(results) :
                 results[i].node = n /\ results[i].query = q /\ results[i].value # Null}
    <3>1. DOMAIN results = 1..Len(results)
      OBVIOUS
    <3>2. QED
      BY <2>a, <3>1 DEF Answers
  <2>1. ASSUME NEW m \in Of PROVE \E i \in 1..Len(samples) : at[i] = m /\ samples[i].node = n /\ samples[i].query = q
    <3>1. m \in 1..Len(results) /\ results[m].node = n /\ results[m].query = q /\ results[m].value # Null
      BY <2>b
    <3>2. PICK i \in 1..Len(samples) : at[i] = m
      BY <1>5, <3>1
    <3>3. QED
      BY <1>5, <3>1, <3>2
  <2>2. ASSUME \A i \in 1..Len(samples) : ~(samples[i].node = n /\ samples[i].query = q)
        PROVE  Of = {}
    BY <2>1, <2>2
  <2>3. ASSUME NEW i \in 1..Len(samples), samples[i].node = n, samples[i].query = q, v = samples[i].value,
               \A j \in 1..Len(samples) : samples[j].node = n /\ samples[j].query = q => j <= i
        PROVE  \E m \in Of : (\A j \in Of : j <= m) /\ v = results[m].value
    <3>1. at[i] \in 1..Len(results) /\ samples[i] = results[at[i]] /\ results[at[i]].value # Null
      BY <1>5
    <3>2. at[i] \in Of /\ v = results[at[i]].value
      BY <2>b, <2>3, <3>1
    <3>3. ASSUME NEW m \in Of PROVE m <= at[i]
      <4>1. PICK j \in 1..Len(samples) : at[j] = m /\ samples[j].node = n /\ samples[j].query = q
        BY <2>1
      <4>2. j <= i
        BY <2>3, <4>1
      <4>3. j = i \/ j < i
        BY <1>5, <4>2
      <4>4. at[j] = at[i] \/ at[j] < at[i]
        BY <1>5, <4>3
      <4>5. at[j] \in Int /\ at[i] \in Int
        BY <1>5
      <4>6. QED
        BY <4>1, <4>4, <4>5
    <3>4. QED
      BY <3>2, <3>3
  <2>4. IF Of = {} THEN v = Null ELSE \E i \in Of : (\A j \in Of : j <= i) /\ v = results[i].value
    <3>1. CASE v = Null /\ \A i \in 1..Len(samples) : ~(samples[i].node = n /\ samples[i].query = q)
      BY <2>2, <3>1
    <3>2. CASE \E i \in 1..Len(samples) :
                  /\ samples[i].node = n /\ samples[i].query = q /\ v = samples[i].value
                  /\ \A j \in 1..Len(samples) : samples[j].node = n /\ samples[j].query = q => j <= i
      <4>1. \E m \in Of : (\A j \in Of : j <= m) /\ v = results[m].value
        BY <2>3, <3>2
      <4>2. QED
        BY <4>1
    <3>3. QED
      BY <1>7, <3>1, <3>2 DEF IsLastValue
  <2>5. QED
    BY <2>a, <2>4 DEF IsLastAnswer
<1>8. QED
  BY <1>3, <1>6, <1>7 DEF AreFinite

\* The connections of one row: those that are kept for the node, in their order.
AreShown(shown, s, n) ==
    /\ InOrder(shown, ConnectionBefore)
    /\ \A i \in 1..Len(s) :
          Count(shown, s[i]) = IF s[i] \in ShownOf(s, n) THEN Count(s, s[i]) ELSE 0

\* The connections of a row after they were sorted.
LEMMA SortedAreShown ==
    ASSUME NEW s \in Seq(Connection), NEW n, NEW list \in Seq(Connection),
           \E at : Picks(at, list, s, Len(s), ShownOf(s, n))
    PROVE  AreShown(Sorted(list, ConnectionOrder(ToSet(list))), s, n)
<1>1. PICK S : S = ToSet(list) /\ S \in SUBSET Connection /\ list \in Seq(S) /\ \A i \in 1..Len(list) : list[i] \in S
  BY OwnElements
<1>2. \A c \in S : c.type \in ConnectionTypes
  <2>1. PICK at : Picks(at, list, s, Len(s), ShownOf(s, n))
    OBVIOUS
  <2>2. \A i \in 1..Len(list) : list[i] \in ShownOf(s, n)
    BY <2>1 DEF Picks
  <2>3. \A c \in S : \E i \in 1..Len(list) : list[i] = c
    BY <1>1 DEF ToSet
  <2>4. QED
    BY <2>2, <2>3 DEF ShownOf
<1>3. IsOrder(ConnectionOrder(S), S) /\ \A x, y \in S : <<x, y>> \in ConnectionOrder(S) <=> ConnectionBefore(x, y)
  BY <1>1, <1>2, ConnectionOrderIsOrder
<1>4. PICK shown : /\ shown = Sorted(list, ConnectionOrder(S)) /\ shown \in Seq(S)
                   /\ InOrderOf(shown, ConnectionOrder(S))
  BY <1>1, <1>3, SortedIsSorted
<1>5. InOrder(shown, ConnectionBefore)
  <2>1. ASSUME NEW i \in 1..Len(shown), NEW j \in 1..Len(shown), i < j
        PROVE  ~ConnectionBefore(shown[j], shown[i])
    <3>1. shown[i] \in S /\ shown[j] \in S /\ <<shown[j], shown[i]>> \notin ConnectionOrder(S)
      BY <1>4, <2>1 DEF InOrderOf
    <3>2. QED
      BY <1>3, <3>1
  <2>2. QED
    BY <2>1 DEF InOrder, IsSorted
<1>6. ASSUME NEW i \in 1..Len(s)
      PROVE  Count(shown, s[i]) = IF s[i] \in ShownOf(s, n) THEN Count(s, s[i]) ELSE 0
  <2>1. PICK Before : Before = ConnectionOrder(S) /\ IsOrder(Before, S)
    BY <1>3
  <2>2. Count(Sorted(list, Before), s[i]) = IF s[i] \in ShownOf(s, n) THEN Count(s, s[i]) ELSE 0
    BY <1>1, <2>1, SortedCount
  <2>3. QED
    BY <1>4, <2>1, <2>2
<1>7. AreShown(shown, s, n)
  BY <1>5, <1>6 DEF AreShown
<1>8. QED
  BY <1>1, <1>4, <1>7

\* What NodesAreMerged says of the rows.
AreMerged(rows, results, connections) ==
    /\ DOMAIN rows = {n \in {r.node : r \in ToSet(results) \cup ToSet(connections)} :
                         /\ IsNamed(n)
                         /\ \/ Answers(results, n, "up") \cup Answers(results, n, "online") # {}
                            \/ ShownOf(connections, n) # {}}
    /\ \A n \in DOMAIN rows :
          /\ \A q \in {"up", "online"} :
                IF Answers(results, n, q) = {}
                THEN rows[n][q] = Null
                ELSE \E i \in Answers(results, n, q) :
                        (\A j \in Answers(results, n, q) : j <= i) /\ rows[n][q] = results[i].value
          /\ InOrder(rows[n].connections, ConnectionBefore)
          /\ \A i \in DOMAIN connections :
                Count(rows[n].connections, connections[i]) =
                   IF connections[i] \in ShownOf(connections, n) THEN Count(connections, connections[i]) ELSE 0

\* mergeNodeSamples: for all answers and connections, each node has one row, with the
\* last finite value of each query and its connections, sorted.
THEOREM NodesAreAlwaysMerged ==
    ASSUME NEW results \in Seq(Result), NEW connections \in Seq(Connection)
    PROVE  NodesAreMerged(results, connections)
<1>1. PICK samples : samples = PrometheusSamples(results)
  OBVIOUS
<1>2. /\ samples \in Seq(Result)
      /\ \A n : (\E i \in 1..Len(samples) : samples[i].node = n)
                   <=> \E i \in 1..Len(results) : results[i].node = n /\ results[i].value # Null
      /\ \A v, n, q : IsLastValue(v, samples, Len(samples), n, q) => IsLastAnswer(v, results, n, q)
  <2>1. AreFinite(samples, results)
    BY <1>1, LastFiniteValue
  <2>2. QED
    BY <2>1 DEF AreFinite
<1>3. PICK base : base = SampleRows(samples) /\ AreOfSamples(base, samples, Len(samples))
  BY <1>2, SampleRowsAreOfSamples
<1>4. /\ base \in Rows
      /\ \A n : n \in DOMAIN base <=> IsNamed(n) /\ \E i \in 1..Len(samples) : samples[i].node = n
      /\ \A n : RowOf(base, n).connections = <<>>
      /\ \A n : IsNamed(n) => \A q \in Queries : IsLastValue(RowOf(base, n)[q], samples, Len(samples), n, q)
  BY <1>3 DEF AreOfSamples
<1>5. PICK rows : rows = ConnectionRows(base, connections)
                  /\ AreOfConnections(rows, base, connections, Len(connections))
  BY <1>4, ConnectionRowsAreOfConnections
<1>6. /\ rows \in Rows
      /\ \A n : n \in DOMAIN rows <=>
                   \/ n \in DOMAIN base
                   \/ IsNamed(n) /\ \E i \in 1..Len(connections) : connections[i] \in ShownOf(connections, n)
      /\ \A n : \A q \in Queries : RowOf(rows, n)[q] = RowOf(base, n)[q]
      /\ \A n : IsNamed(n) => \E at : Picks(at, RowOf(rows, n).connections, connections, Len(connections),
                                            ShownOf(connections, n))
  BY <1>5 DEF AreOfConnections
<1> DEFINE Final(n) == [rows[n] EXCEPT !.connections = Sorted(@, ConnectionOrder(ToSet(@)))]
<1>7. PICK final : final = [n \in DOMAIN rows |-> Final(n)]
  OBVIOUS
<1>8. final = MergeNodeSamples(results, connections)
  BY <1>1, <1>3, <1>5, <1>7 DEF MergeNodeSamples
<1>9. DOMAIN final = DOMAIN rows
  BY <1>7
<1>10. ASSUME NEW n \in DOMAIN final
       PROVE  /\ \A q \in Queries : IsLastAnswer(final[n][q], results, n, q)
              /\ AreShown(final[n].connections, connections, n)
  <2>1. IsNamed(n)
    BY <1>4, <1>6, <1>9
  <2>2. PICK row \in Row : row = rows[n] /\ row = RowOf(rows, n)
    BY <1>6, <1>9, RowOfIsRow DEF RowOf
  <2>3. PICK list \in Seq(Connection) : list = row.connections
    BY DEF Row
  <2>4. PICK shown : shown = Sorted(list, ConnectionOrder(ToSet(list)))
    OBVIOUS
  <2>5. final[n] = [row EXCEPT !.connections = shown]
    BY <1>7, <1>9, <2>2, <2>3, <2>4
  <2>6. final[n].connections = shown /\ \A q \in Queries : final[n][q] = row[q]
    BY <2>5 DEF Row, Queries
  <2>7. AreShown(shown, connections, n)
    <3>1. \E at : Picks(at, list, connections, Len(connections), ShownOf(connections, n))
      BY <1>6, <2>1, <2>2, <2>3
    <3>2. AreShown(Sorted(list, ConnectionOrder(ToSet(list))), connections, n)
      BY <3>1, SortedAreShown
    <3>3. QED
      BY <2>4, <3>2
  <2>8. ASSUME NEW q \in Queries PROVE IsLastAnswer(final[n][q], results, n, q)
    <3>1. final[n][q] = RowOf(base, n)[q]
      BY <1>6, <2>2, <2>6
    <3>2. IsLastValue(RowOf(base, n)[q], samples, Len(samples), n, q)
      BY <1>4, <2>1
    <3>3. QED
      BY <1>2, <3>1, <3>2
  <2>9. QED
    BY <2>6, <2>7, <2>8
<1> HIDE DEF Final
<1>11. /\ DOMAIN results = 1..Len(results) /\ \A i \in 1..Len(results) : results[i] \in Result
       /\ DOMAIN connections = 1..Len(connections)
  OBVIOUS
<1>12. ASSUME NEW n
       PROVE  (\E i \in 1..Len(results) : results[i].node = n /\ results[i].value # Null)
                 <=> Answers(results, n, "up") \cup Answers(results, n, "online") # {}
  <2>1. \A i \in 1..Len(results) : results[i].query \in {"up", "online"}
    BY <1>11 DEF Result, Queries
  <2>2. QED
    BY <1>11, <2>1 DEF Answers
<1>13. ASSUME NEW n
       PROVE  (\E i \in 1..Len(connections) : connections[i] \in ShownOf(connections, n))
                 <=> ShownOf(connections, n) # {}
  <2>1. \A c \in ShownOf(connections, n) : \E i \in 1..Len(connections) : connections[i] = c
    BY <1>11 DEF ShownOf, ToSet
  <2>2. QED
    BY <2>1
<1>14. \A n : n \in DOMAIN final <=>
                 /\ IsNamed(n)
                 /\ \/ Answers(results, n, "up") \cup Answers(results, n, "online") # {}
                    \/ ShownOf(connections, n) # {}
  <2>1. \A n : n \in DOMAIN base <=>
                  IsNamed(n) /\ Answers(results, n, "up") \cup Answers(results, n, "online") # {}
    BY <1>2, <1>4, <1>12
  <2>2. QED
    BY <1>6, <1>9, <1>13, <2>1
<1> DEFINE names == {r.node : r \in ToSet(results) \cup ToSet(connections)}
<1>15. ASSUME NEW n, n \in DOMAIN final PROVE n \in names
  <2>1. CASE Answers(results, n, "up") \cup Answers(results, n, "online") # {}
    <3>1. PICK i \in 1..Len(results) : results[i].node = n
      BY <1>11, <2>1 DEF Answers
    <3>2. results[i] \in ToSet(results)
      BY OwnElements
    <3>3. QED
      BY <3>1, <3>2
  <2>2. CASE ShownOf(connections, n) # {}
    <3>1. PICK c \in ToSet(connections) : c.node = n
      BY <2>2 DEF ShownOf
    <3>2. QED
      BY <3>1
  <2>3. QED
    BY <1>14, <1>15, <2>1, <2>2
<1>16. DOMAIN final = {n \in names : /\ IsNamed(n)
                                     /\ \/ Answers(results, n, "up") \cup Answers(results, n, "online") # {}
                                        \/ ShownOf(connections, n) # {}}
  <2> HIDE DEF names
  <2>1. QED
    BY <1>14, <1>15
<1>17. ASSUME NEW n \in DOMAIN final
       PROVE  /\ \A q \in {"up", "online"} :
                    IF Answers(results, n, q) = {}
                    THEN final[n][q] = Null
                    ELSE \E i \in Answers(results, n, q) :
                            (\A j \in Answers(results, n, q) : j <= i) /\ final[n][q] = results[i].value
              /\ InOrder(final[n].connections, ConnectionBefore)
              /\ \A i \in DOMAIN connections :
                    Count(final[n].connections, connections[i]) =
                       IF connections[i] \in ShownOf(connections, n) THEN Count(connections, connections[i]) ELSE 0
  <2>1. \A q \in Queries : IsLastAnswer(final[n][q], results, n, q)
    BY <1>10
  <2>2. AreShown(final[n].connections, connections, n)
    BY <1>10
  <2>3. QED
    BY <1>11, <2>1, <2>2 DEF AreShown, IsLastAnswer, Queries
<1>18. AreMerged(final, results, connections)
  BY <1>16, <1>17, Zenon DEF AreMerged, names
<1>19. AreMerged(MergeNodeSamples(results, connections), results, connections)
  BY <1>8, <1>18
<1>20. QED
  BY <1>19, Zenon DEF NodesAreMerged, AreMerged, Answers, ShownOf

-----------------------------------------------------------------------------
(* The properties of the runs *)

Trace == [type : Strings, detail : Strings]

\* The arguments of each function.
InputOK ==
    /\ subject = "markdown" => input \in Seq(Lines)
    /\ subject = "projects" => input \in Seq(ProjectLines)
    /\ subject = "question" => input[1] \in Seq(Turn) /\ input[2] \in QuestionLengths
    /\ subject = "traces" => input \in Seq(Trace)
    /\ subject = "envelope" => input \in Seq(Seq(Messages))
    /\ subject = "inspection" => input \in Seq(Line(Strings, Int))
    /\ subject = "samples" => input[1] \in Seq(Result) /\ input[2] \in Seq(Connection)
    /\ subject = "rules" => input \in Seq(Rule)
    /\ subject = "levels" =>
          /\ \A i \in {1, 2, 3, 5} : input[i] \in Nat \cup {Null}
          /\ input[4] \in 0..100 \cup {Null}

\* The literals of the inputs are strings.
LEMMA LiteralsAreStrings ==
    /\ {"a", "b", "s", "t", "protocol", "tool", "projectid", "agent", "central", "region", "other",
        "critical", "warning", "firing", "inactive", "pending"} \subseteq Strings
    /\ NoLabel \in Strings
    /\ \E none \in Strings : none = ""
<1>1. "" \in Strings
  BY Zenon DEF Strings
<1>2. ASSUME NEW x \in {"a", "b", "s", "t", "protocol", "tool", "projectid", "agent", "central", "region",
                        "other", "critical", "warning", "firing", "inactive", "pending"}
      PROVE  x \in Strings
  BY Zenon DEF Strings
<1>3. NoLabel \in Strings
  BY <1>1, Zenon DEF NoLabel
<1>4. QED
  BY <1>1, <1>2, <1>3, Zenon

\* Those that are not empty.
LEMMA NamesAreStrings ==
    {"a", "b", "s", "t", "protocol", "tool", "projectid", "agent", "central", "region", "other",
     "critical", "warning", "firing", "inactive", "pending"} \cup {NoLabel} \subseteq Strings
<1>1. NoLabel \in Strings
  BY LiteralsAreStrings, Zenon
<1>2. {"a", "b", "s", "t", "protocol", "tool", "projectid", "agent", "central", "region", "other",
       "critical", "warning", "firing", "inactive", "pending"} \subseteq Strings
  BY LiteralsAreStrings, Zenon
<1>3. QED
  BY <1>1, <1>2

\* A bounded list is a list.
LEMMA BoundedSeqs ==
    ASSUME NEW S, NEW A, S \subseteq A, NEW n \in Nat
    PROVE  BoundedSeq(S, n) \subseteq Seq(A)
<1>1. ASSUME NEW s \in BoundedSeq(S, n) PROVE s \in Seq(A)
  <2>1. PICK m \in 0..n : s \in [1..m -> S]
    BY DEF BoundedSeq, SeqOf
  <2>2. m \in Nat /\ s \in [1..m -> A]
    BY <2>1
  <2>3. QED
    BY <2>2, SeqDef
<1>2. QED
  BY <1>1

\* The arguments of buildConversationQuestion.
LEMMA QuestionsAreTyped ==
    ASSUME NEW q \in Questions
    PROVE  q[1] \in Seq(Turn) /\ q[2] \in QuestionLengths
<1>1. PICK turns \in BoundedSeq(Turns, MaxItems) \cup {LongHistory}, current \in {1, 4000} : q = <<turns, current>>
  BY DEF Questions
<1>2. turns \in Seq(Turn)
  <2>1. CASE turns \in BoundedSeq(Turns, MaxItems)
    <3>1. Turns \subseteq Turn
      BY DEF Turns, Turn
    <3>2. QED
      BY <2>1, <3>1, BoundsAssumption, BoundedSeqs
  <2>2. CASE turns = LongHistory
    <3>1. \A k \in 1..7 : [role |-> IF k % 2 = 1 THEN "user" ELSE "assistant", length |-> 6001] \in Turn
      BY DEF Turn
    <3>2. LongHistory \in [1..7 -> Turn]
      BY <3>1 DEF LongHistory
    <3>3. QED
      <4>1. PICK n \in Nat : n = 7
        OBVIOUS
      <4>2. LongHistory \in [1..n -> Turn]
        BY <3>2, <4>1
      <4>3. QED
        BY <2>2, <4>2, SeqDef
  <2>3. QED
    BY <1>1, <2>1, <2>2
<1>3. current \in QuestionLengths
  BY DEF QuestionLengths
<1>4. QED
  BY <1>1, <1>2, <1>3

\* The arguments of restoreConversation.
LEMMA TracesAreTyped == Traces \subseteq Seq(Trace)
<1>1. [type : {"protocol", "tool"}, detail : {"a", "b"}] \subseteq Trace
  <2>1. {"protocol", "tool"} \subseteq Strings /\ {"a", "b"} \subseteq Strings
    BY NamesAreStrings
  <2>2. QED
    BY <2>1 DEF Trace
<1>2. MaxItems + 1 \in Nat
  BY BoundsAssumption
<1>3. QED
  BY <1>1, <1>2, BoundedSeqs DEF Traces

\* The arguments of parseMCPEnvelope.
LEMMA EnvelopesAreTyped == Envelopes \subseteq Seq(Seq(Messages))
<1>1. BoundedSeq(Messages, 2) \subseteq Seq(Messages)
  BY BoundedSeqs
<1>2. QED
  BY <1>1, BoundedSeqs DEF Envelopes

\* The arguments of parseRepositoryInspection.
LEMMA InspectionsAreTyped == BoundedSeq(InspectionLines, MaxItems) \subseteq Seq(Line(Strings, Int))
<1>1. PICK none \in Strings : none = ""
  BY LiteralsAreStrings, Zenon
<1>2. InspectionLines = [key : {"projectid", "agent"}, value : 1..2] \cup {[key |-> none, value |-> 1]}
  BY <1>1, Zenon DEF InspectionLines
<1>3. InspectionLines \subseteq Line(Strings, Int)
  <2>1. /\ [key : {"projectid", "agent"}, value : 1..2] \subseteq Line(Strings, Int)
        /\ [key |-> none, value |-> 1] \in Line(Strings, Int)
    BY NamesAreStrings DEF Line
  <2>2. QED
    BY <1>2, <2>1
<1>4. QED
  BY <1>3, BoundsAssumption, BoundedSeqs

\* The arguments of mergeNodeSamples.
LEMMA SamplesAreTyped ==
    ASSUME NEW s \in Samples
    PROVE  s[1] \in Seq(Result) /\ s[2] \in Seq(Connection)
<1>4. Results \subseteq Result
  BY NamesAreStrings DEF Results, Result, Queries, Null
<1>5. Connections \subseteq Connection
  BY NamesAreStrings DEF Connections, Connection
<1>6. \A n \in Nat : BoundedSeq(Results, n) \subseteq Seq(Result)
  BY <1>4, BoundedSeqs
<1>7. \A n \in Nat : BoundedSeq(Connections, n) \subseteq Seq(Connection)
  BY <1>5, BoundedSeqs
<1>8. PICK n \in Nat, m \in Nat : s \in BoundedSeq(Results, n) \X BoundedSeq(Connections, m)
  BY BoundsAssumption DEF Samples
<1>9. QED
  BY <1>6, <1>7, <1>8

\* The arguments of activeAlertsFromRules.
LEMMA RulesAreTyped == Rules \subseteq Seq(Rule)
<1>1. Alerts \subseteq RuleAlert
  BY NamesAreStrings DEF Alerts, RuleAlert
<1>2. BoundedSeq(Alerts, 2) \subseteq Seq(RuleAlert)
  BY <1>1, BoundedSeqs
<1> DEFINE First(s, v, t, alerts) == [server |-> s, severity |-> v, state |-> t, alerts |-> alerts]
           Second == [server |-> "t", severity |-> "critical", state |-> "firing",
                      alerts |-> <<[server |-> "s", severity |-> NoLabel, state |-> "pending", since |-> 2]>>]
<1>3. ASSUME NEW rules \in Rules
      PROVE  \E s \in {"s", "t"}, v \in {NoLabel, "warning"}, t \in {"firing", "inactive"},
                alerts \in BoundedSeq(Alerts, 2) : rules = <<First(s, v, t, alerts), Second>>
  BY DEF Rules
<1>4. ASSUME NEW s \in {"s", "t"}, NEW v \in {NoLabel, "warning"}, NEW t \in {"firing", "inactive"},
             NEW alerts \in BoundedSeq(Alerts, 2)
      PROVE  First(s, v, t, alerts) \in Rule
  <2>1. s \in Strings /\ v \in Strings /\ t \in Strings
    BY NamesAreStrings
  <2>2. alerts \in Seq(RuleAlert)
    BY <1>2
  <2>3. QED
    BY <2>1, <2>2 DEF Rule
<1>5. Second \in Rule
  <2>1. [server |-> "s", severity |-> NoLabel, state |-> "pending", since |-> 2] \in RuleAlert
    BY NamesAreStrings DEF RuleAlert
  <2>2. <<[server |-> "s", severity |-> NoLabel, state |-> "pending", since |-> 2]>> \in Seq(RuleAlert)
    BY <2>1
  <2>3. QED
    BY <2>2, NamesAreStrings DEF Rule
<1> HIDE DEF First, Second
<1>6. ASSUME NEW rules \in Rules PROVE rules \in Seq(Rule)
  <2>1. PICK first \in Rule, second \in Rule : rules = <<first, second>>
    BY <1>3, <1>4, <1>5
  <2>2. QED
    BY <2>1
<1>7. QED
  BY <1>6

\* The arguments of the levels.
LEMMA LevelsAreTyped ==
    ASSUME NEW l \in Scalars \X Scalars \X Scalars \X Scalars \X Scalars
    PROVE  /\ \A i \in {1, 2, 3, 5} : l[i] \in Nat \cup {Null}
           /\ l[4] \in 0..100 \cup {Null}
<1>1. Scalars \subseteq Nat \cup {Null} /\ Scalars \subseteq 0..100 \cup {Null}
  BY DEF Scalars
<1>2. l[1] \in Scalars /\ l[2] \in Scalars /\ l[3] \in Scalars /\ l[4] \in Scalars /\ l[5] \in Scalars
  OBVIOUS
<1>3. QED
  BY <1>1, <1>2

\* InputOK is inductive.
LEMMA InputStep == InputOK /\ [Next]_vars => InputOK'
<1> SUFFICES ASSUME InputOK, [Next]_vars PROVE InputOK'
  OBVIOUS
<1>1. CASE Choose("markdown", BoundedSeq(Lines, MaxLines))
  <2>1. input' \in Seq(Lines)
    BY <1>1, BoundsAssumption, BoundedSeqs DEF Choose
  <2>2. QED
    BY <1>1, <2>1 DEF Choose, InputOK
<1>2. CASE Choose("projects", BoundedSeq(ProjectLines, MaxRows))
  <2>1. input' \in Seq(ProjectLines)
    BY <1>2, BoundsAssumption, BoundedSeqs DEF Choose
  <2>2. QED
    BY <1>2, <2>1 DEF Choose, InputOK
<1>3. CASE Choose("question", Questions)
  BY <1>3, QuestionsAreTyped DEF Choose, InputOK
<1>4. CASE Choose("traces", Traces)
  BY <1>4, TracesAreTyped DEF Choose, InputOK
<1>5. CASE Choose("envelope", Envelopes)
  BY <1>5, EnvelopesAreTyped DEF Choose, InputOK
<1>6. CASE Choose("inspection", BoundedSeq(InspectionLines, MaxItems))
  BY <1>6, InspectionsAreTyped DEF Choose, InputOK
<1>7. CASE Choose("samples", Samples)
  BY <1>7, SamplesAreTyped DEF Choose, InputOK
<1>8. CASE Choose("rules", Rules)
  BY <1>8, RulesAreTyped DEF Choose, InputOK
<1>9. CASE Choose("levels", Scalars \X Scalars \X Scalars \X Scalars \X Scalars)
  BY <1>9, LevelsAreTyped DEF Choose, InputOK
<1>10. CASE UNCHANGED vars
  BY <1>10 DEF vars, InputOK
<1>11. QED
  BY <1>1, <1>2, <1>3, <1>4, <1>5, <1>6, <1>7, <1>8, <1>9, <1>10 DEF Next

\* A function is called with its arguments: lists of lines, turns, traces, answers or rules
\* of any length.
THEOREM InputsAreTyped == Spec => []InputOK
<1>1. Init => InputOK
  BY DEF Init, InputOK
<1>2. QED
  BY <1>1, InputStep, PTL DEF Spec

\* parseSafeMarkdown and unwrapMarkdownDocumentFence: a line of a report that is not blank is
\* shown in exactly one block, with lines of its own kind, no block is broken in two, and a
\* fence goes only if it wraps all of the document.
THEOREM ReportIsAlwaysShownOnce == Spec => []ReportIsShownOnce
<1>1. InputOK => ReportIsShownOnce
  BY BlocksAlwaysCover, UnwrapIsAlwaysFinal DEF InputOK, ReportIsShownOnce
<1>2. QED
  BY <1>1, InputsAreTyped, PTL

\* parseProjects: the columns of a table are never used for the rows of another one.
THEOREM ProjectsAlwaysHaveColumns == Spec => []ProjectsHaveColumns
<1>1. InputOK => ProjectsHaveColumns
  BY RowsAlwaysHaveColumns DEF InputOK, ProjectsHaveColumns
<1>2. QED
  BY <1>1, InputsAreTyped, PTL

\* buildConversationQuestion: the request stays within the limit of the server.
THEOREM QuestionsAlwaysFit == Spec => []QuestionFits
<1>1. ASSUME InputOK PROVE QuestionFits
  <2>1. ASSUME NEW turns \in Seq(Turn), NEW current \in QuestionLengths
        PROVE  QuestionWithinLimit(turns, current) /\ NewestTurnsAreSent(turns, current)
    BY QuestionAlwaysFits
  <2>2. QED
    BY <1>1, <2>1 DEF InputOK, QuestionFits
<1>2. QED
  BY <1>1, InputsAreTyped, PTL

\* appendTrace, restoreConversation, parseMCPEnvelope, toolText and parseRepositoryInspection:
\* records repeat nothing, and a tool call returns only its own answer.
THEOREM RecordsAreAlwaysOwn == Spec => []RecordsAreOwnAndLatest
<1>1. ASSUME InputOK PROVE RecordsAreOwnAndLatest
  <2>1. subject = "traces" => \A n \in 1..3 : TracesAreCompact(input, n)
    <3>1. ASSUME input \in Seq(Trace), NEW n \in 1..3
          PROVE  TracesAreCompact(input, n)
      <4>1. n \in Nat \ {0}
        OBVIOUS
      <4>2. QED
        BY <3>1, <4>1, TracesAreAlwaysCompact
    <3>2. QED
      BY <1>1, <3>1 DEF InputOK
  <2>2. subject = "envelope" => OwnAnswersOnly(input)
    BY <1>1, OnlyOwnAnswersAreUsed DEF InputOK
  <2>3. subject = "inspection" => InspectionIsKept(input)
    <3>1. ASSUME input \in Seq(Line(Strings, Int)) PROVE InspectionIsKept(input)
      BY <3>1, InspectionIsAlwaysKept
    <3>2. QED
      BY <1>1, <3>1 DEF InputOK
  <2>4. QED
    BY <2>1, <2>2, <2>3 DEF RecordsAreOwnAndLatest
<1>2. QED
  BY <1>1, InputsAreTyped, PTL

\* mergeNodeSamples, activeAlertsFromRules and the levels: the answers become one row for
\* each node, one line for each active alert of the server, and levels within their scale.
THEOREM SamplesAreAlwaysMerged == Spec => []SamplesAreMerged
<1>1. ASSUME InputOK PROVE SamplesAreMerged
  <2>1. subject = "samples" => NodesAreMerged(input[1], input[2])
    BY <1>1, NodesAreAlwaysMerged DEF InputOK
  <2>2. subject = "rules" => AlertsAreOfServer(input, "s")
    <3>1. IsNamed("s")
      BY Zenon DEF IsNamed, NoLabel
    <3>2. ASSUME input \in Seq(Rule) PROVE AlertsAreOfServer(input, "s")
      BY <3>1, <3>2, AlertsAreAlwaysOfServer
    <3>3. QED
      BY <1>1, <3>2 DEF InputOK
  <2>3. subject = "levels" => LevelsFitScale(input[1], input[2], input[3], input[4], input[5])
    <3>1. ASSUME subject = "levels"
          PROVE  /\ input[1] \in Nat \cup {Null} /\ input[2] \in Nat \cup {Null}
                 /\ input[3] \in Nat \cup {Null} /\ input[4] \in 0..100 \cup {Null}
                 /\ input[5] \in Nat \cup {Null}
      BY <1>1, <3>1 DEF InputOK
    <3>2. QED
      BY <3>1, LevelsAlwaysFitScale
  <2>4. QED
    BY <2>1, <2>2, <2>3 DEF SamplesAreMerged
<1>2. QED
  BY <1>1, InputsAreTyped, PTL
=============================================================================
