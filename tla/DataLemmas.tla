---------------------------- MODULE DataLemmas ----------------------------
(***************************************************************************)
(* What proofs of several components need to know of natural numbers, of   *)
(* sequences, of recursive functions and of sums over finite sets.         *)
(***************************************************************************)
EXTENDS Sequences, Integers, Functions, FiniteSetTheorems, SequenceTheorems, TLAPS

(* Every nonempty set of natural numbers has a least element. *)
LEMMA LeastNat ==
  ASSUME NEW S \in SUBSET Nat, S # {}
  PROVE  \E n \in S : \A k \in S : n <= k
<1> DEFINE Upto(n) == 0 .. n
           T       == {Upto(n) : n \in S}
<1>1. IsWellFoundedOn(StrictSubsetOrdering(Nat), FiniteSubsetsOf(Nat))
  BY FS_StrictSubsetOrderingWellFounded
<1>2. T \subseteq FiniteSubsetsOf(Nat)
  <2>1. \A n \in Nat : Upto(n) \in SUBSET Nat /\ IsFiniteSet(Upto(n))
    BY FS_Interval
  <2>2. QED
    BY <2>1 DEF FiniteSubsetsOf
<1>3. T # {}
  OBVIOUS
<1>4. PICK X \in T : \A Y \in T : <<Y, X>> \notin StrictSubsetOrdering(Nat)
  BY <1>1, <1>2, <1>3, WFMin
<1>5. PICK n \in S : X = Upto(n)
  BY <1>4
<1>6. ASSUME NEW k \in S, k < n
      PROVE  FALSE
  <2>1. <<Upto(k), Upto(n)>> \in (SUBSET Nat) \X (SUBSET Nat)
    OBVIOUS
  <2>2. Upto(k) \subseteq Upto(n) /\ n \in Upto(n) /\ n \notin Upto(k)
    BY <1>6
  <2>3. <<Upto(k), Upto(n)>> \in StrictSubsetOrdering(Nat)
    BY <2>1, <2>2 DEF StrictSubsetOrdering
  <2>4. QED
    BY <2>3, <1>4, <1>5
<1>7. QED
  BY <1>6
-----------------------------------------------------------------------------
(* What a step of the abstract queues is, for one of them: the queue before,  *)
(* without its first message if that leaves, and t joins it.                  *)
JoinedBy(q, t, leaves) == (IF leaves THEN Tail(q) ELSE q) \o t

(* A queue that t joins has the queue before as a prefix, and t behind it.   *)
LEMMA Concatenated ==
  ASSUME NEW S, NEW s \in Seq(S), NEW t \in Seq(S)
  PROVE  /\ Len(s) \in Nat /\ Len(s) <= Len(s \o t)
         /\ SubSeq(s, 1, Len(s)) = SubSeq(s \o t, 1, Len(s))
         /\ SubSeq(s \o t, Len(s) + 1, Len(s \o t)) = t
<1>1. /\ Len(s \o t) = Len(s) + Len(t) /\ Len(s) \in Nat /\ Len(t) \in Nat
  BY ConcatProperties
<1>2. SubSeq(s, 1, Len(s)) = SubSeq(s \o t, 1, Len(s))
  <2>1. CASE Len(s) = 0
    BY <2>1, SubSeqEmpty
  <2>2. CASE Len(s) # 0
    <3>1. 1 \in 1 .. Len(s) /\ Len(s) \in 1 .. Len(s)
      BY <1>1, <2>2
    <3>2. QED
      BY <3>1, SubSeqOfConcat1, SubSeqFull
  <2>3. QED
    BY <2>1, <2>2
<1>3. SubSeq(s \o t, Len(s) + 1, Len(s) + Len(t)) = t
  <2>1. CASE Len(t) = 0
    <3>1. t = <<>>
      BY <2>1, EmptySeq
    <3>2. Len(s) + Len(t) < Len(s) + 1 /\ Len(s) + Len(t) \in Int /\ Len(s) + 1 \in Int
      BY <1>1, <2>1
    <3>3. QED
      BY <3>1, <3>2, SubSeqEmpty
  <2>2. CASE Len(t) # 0
    <3> DEFINE a == Len(s) + 1
               b == Len(s) + Len(t)
    <3>1. a \in a .. b /\ b \in a .. b /\ a - Len(s) = 1 /\ b - Len(s) = Len(t)
      BY <1>1, <2>2
    <3> HIDE DEF b
    <3>2. SubSeq(s \o t, a, b) = SubSeq(t, a - Len(s), b - Len(s))
      BY <3>1, SubSeqOfConcat2 DEF b
    <3>3. QED
      BY <3>1, <3>2, SubSeqFull DEF b
  <2>3. QED
    BY <2>1, <2>2
<1>4. QED
  BY <1>1, <1>2, <1>3

(* What is left of a vector whose first h elements are dropped: an element    *)
(* appended to the vector is appended to it, and its tail is what is left     *)
(* without one more.                                                          *)
LEMMA AppendedBehind ==
  ASSUME NEW S, NEW s \in Seq(S), NEW h \in 0 .. Len(s), NEW m \in S
  PROVE  SubSeq(Append(s, m), h + 1, Len(s) + 1) = SubSeq(s, h + 1, Len(s)) \o <<m>>
<1>1. /\ Append(s, m) \in Seq(S) /\ Len(Append(s, m)) = Len(s) + 1 /\ Len(s) \in Nat
      /\ \A i \in 1 .. Len(s) : Append(s, m)[i] = s[i]
      /\ Append(s, m)[Len(s) + 1] = m
  BY AppendProperties
<1> DEFINE n == Len(s)
           l == SubSeq(s, h + 1, n)
           r == SubSeq(Append(s, m), h + 1, n + 1)
<1>2. h \in Nat /\ h + 1 \in Int /\ n + 1 \in Int /\ n \in Nat /\ h <= n
      /\ n - (h + 1) + 1 = n - h /\ n + 1 - (h + 1) + 1 = n - h + 1
  BY <1>1
<1>3. \A i \in h + 1 .. n : s[i] \in S
  BY <1>2, ElementOfSeq
<1>4. \A i \in h + 1 .. n + 1 : Append(s, m)[i] \in S
  BY <1>1, <1>2, ElementOfSeq
<1>5. /\ l \in Seq(S) /\ Len(l) = n - h
      /\ \A i \in 1 .. n - h : l[i] = s[h + i]
  <2>1. /\ l \in Seq(S) /\ Len(l) = IF h + 1 <= n THEN n - (h + 1) + 1 ELSE 0
        /\ \A i \in 1 .. n - (h + 1) + 1 : l[i] = s[h + 1 + i - 1]
    BY <1>2, <1>3, SubSeqProperties
  <2> HIDE DEF l, n
  <2>2. QED
    BY <1>2, <2>1
<1>6. /\ r \in Seq(S) /\ Len(r) = n - h + 1
      /\ \A i \in 1 .. n - h + 1 : r[i] = Append(s, m)[h + i]
  <2>1. /\ r \in Seq(S) /\ Len(r) = IF h + 1 <= n + 1 THEN n + 1 - (h + 1) + 1 ELSE 0
        /\ \A i \in 1 .. n + 1 - (h + 1) + 1 : r[i] = Append(s, m)[h + 1 + i - 1]
    BY <1>2, <1>4, SubSeqProperties
  <2> HIDE DEF r, n
  <2>2. (IF h + 1 <= n + 1 THEN n + 1 - (h + 1) + 1 ELSE 0) = n - h + 1
    BY <1>2
  <2>3. \A i \in 1 .. n - h + 1 : h + 1 + i - 1 = h + i
    BY <1>2
  <2>4. QED
    BY <1>2, <2>1, <2>2, <2>3
<1> HIDE DEF l, r
<1>7. Append(l, m) \in Seq(S) /\ Len(Append(l, m)) = n - h + 1
      /\ (\A i \in 1 .. n - h : Append(l, m)[i] = l[i]) /\ Append(l, m)[n - h + 1] = m
  BY <1>5, AppendProperties
<1>8. \A i \in 1 .. n - h + 1 : r[i] = Append(l, m)[i]
  <2> HIDE DEF n
  <2>1. ASSUME NEW i \in 1 .. n - h + 1
        PROVE  r[i] = Append(l, m)[i]
    <3>1. CASE i = n - h + 1
      <4>1. h + i = n + 1
        BY <1>2, <3>1
      <4>2. QED
        BY <1>1, <1>6, <1>7, <3>1, <4>1 DEF n
    <3>2. CASE i # n - h + 1
      <4>1. i \in 1 .. n - h /\ h + i \in 1 .. n
        BY <1>2, <3>2
      <4>2. Append(s, m)[h + i] = s[h + i]
        BY <1>1, <4>1 DEF n
      <4>3. QED
        BY <1>5, <1>6, <1>7, <4>1, <4>2
    <3>3. QED
      BY <3>1, <3>2
  <2>2. QED
    BY <2>1
<1>9. r = Append(l, m)
  BY <1>6, <1>7, <1>8, SeqEqual
<1>10. QED
  BY <1>5, <1>9, AppendIsConcat DEF l, r
-----------------------------------------------------------------------------
(* A property that passes from each number up to N to the next one holds of   *)
(* all of them; r is a recursive function, and S a type of its values.        *)
LEMMA StaysIn ==
  ASSUME NEW N \in Nat, NEW S, NEW r, r[0] \in S,
         \A k \in 1 .. N : r[k - 1] \in S => r[k] \in S
  PROVE  \A k \in 0 .. N : r[k] \in S
<1> DEFINE bad == {k \in 0 .. N : r[k] \notin S}
<1>1. CASE bad = {}
  BY <1>1
<1>2. ASSUME bad # {}
      PROVE  FALSE
  <2>1. bad \in SUBSET Nat
    OBVIOUS
  <2>2. PICK k \in bad : \A j \in bad : k <= j
    BY <1>2, <2>1, LeastNat
  <2>3. k \in 1 .. N /\ k - 1 \in 0 .. N /\ ~(k <= k - 1)
    BY <2>2
  <2>4. k - 1 \notin bad
    BY <2>2, <2>3
  <2>5. QED
    BY <2>2, <2>3, <2>4
<1>3. QED
  BY <1>1, <1>2

(* A recursive function that takes one step F[k] after the other exists.      *)
Steps(r, x, F, n) == r[0] = x /\ \A k \in 1 .. n : r[k] = F[k][r[k - 1]]

LEMMA RecursionExists ==
  ASSUME NEW N \in Nat, NEW S, NEW x \in S, NEW F \in [1 .. N -> [S -> S]]
  PROVE  \E r \in [0 .. N -> S] : Steps(r, x, F, N)
<1> DEFINE reached == {n \in 0 .. N : \E r \in [0 .. n -> S] : Steps(r, x, F, n)}
           missed  == {n \in 0 .. N : n \notin reached}
<1>1. 0 \in reached
  <2> DEFINE r == [k \in 0 .. 0 |-> x]
  <2>1. r \in [0 .. 0 -> S] /\ Steps(r, x, F, 0)
    BY DEF Steps
  <2>2. QED
    BY <2>1
<1>2. ASSUME missed # {}
      PROVE  FALSE
  <2>1. missed \in SUBSET Nat
    OBVIOUS
  <2>2. PICK n \in missed : \A j \in missed : n <= j
    BY <1>2, <2>1, LeastNat
  <2>3. n \in 1 .. N /\ n - 1 \in 0 .. N /\ ~(n <= n - 1)
    <3>1. n \in 0 .. N /\ n # 0
      BY <1>1, <2>2
    <3>2. QED
      BY <3>1
  <2>4. n - 1 \in reached
    <3> HIDE DEF reached
    <3>1. n - 1 \notin missed
      BY <2>2, <2>3
    <3>2. QED
      BY <2>3, <3>1
  <2>5. PICK r \in [0 .. n - 1 -> S] : Steps(r, x, F, n - 1)
    BY <2>4
  <2> DEFINE q == [k \in 0 .. n |-> IF k = n THEN F[n][r[n - 1]] ELSE r[k]]
  <2>6. r[n - 1] \in S /\ F[n] \in [S -> S]
    BY <2>3
  <2>7. q \in [0 .. n -> S]
    <3>1. \A k \in 0 .. n : k # n => k \in 0 .. n - 1
      BY <2>3
    <3>2. QED
      BY <2>5, <2>6, <3>1
  <2>8. q[0] = x
    BY <2>3, <2>5 DEF Steps
  <2>9. ASSUME NEW k \in 1 .. n
        PROVE  q[k] = F[k][q[k - 1]]
    <3>1. k - 1 \in 0 .. n /\ k - 1 # n /\ k \in 0 .. n
      BY <2>3
    <3>2. q[k - 1] = r[k - 1]
      BY <3>1
    <3>3. CASE k = n
      BY <3>1, <3>2, <3>3
    <3>4. CASE k # n
      <4>1. k \in 1 .. n - 1
        BY <2>3, <3>4
      <4>2. QED
        BY <2>5, <3>1, <3>2, <3>4, <4>1 DEF Steps
    <3>5. QED
      BY <3>3, <3>4
  <2>10. Steps(q, x, F, n)
    BY <2>8, <2>9 DEF Steps
  <2>11. n \in reached
    BY <2>2, <2>7, <2>10
  <2>12. QED
    BY <2>2, <2>11
<1>3. N \in reached
  BY <1>2
<1>4. QED
  BY <1>3
-----------------------------------------------------------------------------
-----------------------------------------------------------------------------
(* Sums over finite sets, which the community modules define by taking the    *)
(* elements in some order.                                                    *)
ElementOf(s) == CHOOSE x \in s : TRUE

SumSteps(r, f, U) ==
  r = [s \in SUBSET U |-> IF s = {} THEN 0 ELSE f[ElementOf(s)] + r[s \ {ElementOf(s)}]]

(* A property of the empty set that passes from the smaller subsets of a      *)
(* finite set to the next larger one holds of all of them; B is the set of    *)
(* those that have it.                                                        *)
LEMMA SubsetInduction ==
  ASSUME NEW U, IsFiniteSet(U), NEW B,
         \A s \in SUBSET U : (\A t \in SUBSET s : t # s => t \in B) => s \in B
  PROVE  \A s \in SUBSET U : s \in B
<1> DEFINE bad == {s \in SUBSET U : s \notin B}
           sizes == {Cardinality(s) : s \in bad}
<1>1. \A s \in SUBSET U : IsFiniteSet(s) /\ Cardinality(s) \in Nat
  BY FS_Subset, FS_CardinalityType
<1>2. ASSUME bad # {}
      PROVE  FALSE
  <2>1. sizes \in SUBSET Nat /\ sizes # {}
    BY <1>1, <1>2
  <2>2. PICK n \in sizes : \A k \in sizes : n <= k
    <3> HIDE DEF sizes
    <3>1. QED
      BY <2>1, LeastNat
  <2>3. PICK s \in bad : n = Cardinality(s)
    BY <2>2
  <2>4. ASSUME NEW t \in SUBSET s, t # s
        PROVE  t \in B
    <3>1. Cardinality(t) < n /\ t \in SUBSET U
      BY <1>1, <2>3, <2>4, FS_Subset, FS_CardinalityType
    <3>2. Cardinality(t) \in Nat /\ n \in Nat
      BY <1>1, <2>3, <3>1
    <3>3. t \notin bad
      BY <2>2, <3>1, <3>2
    <3>4. QED
      BY <3>1, <3>3
  <2>5. s \in B
    BY <2>3, <2>4
  <2>6. QED
    BY <2>3, <2>5
<1>3. QED
  BY <1>2

LEMMA SumIsSteps ==
  ASSUME NEW f, NEW U
  PROVE  SumFunctionOnSet(f, U) = (CHOOSE r : SumSteps(r, f, U))[U]
BY DEF SumFunctionOnSet, FoldFunctionOnSet, MapThenFoldSet, SumSteps, ElementOf

LEMMA ElementIn ==
  ASSUME NEW s, s # {}
  PROVE  ElementOf(s) \in s
BY DEF ElementOf

LEMMA SumStepsUnique ==
  ASSUME NEW U, IsFiniteSet(U), NEW f, NEW q, NEW r, SumSteps(q, f, U), SumSteps(r, f, U)
  PROVE  \A s \in SUBSET U : q[s] = r[s]
<1> DEFINE B == {s \in SUBSET U : q[s] = r[s]}
<1>1. ASSUME NEW s \in SUBSET U, \A t \in SUBSET s : t # s => t \in B
      PROVE  s \in B
  <2>1. CASE s = {}
    BY <2>1 DEF SumSteps
  <2>2. CASE s # {}
    <3> DEFINE t == s \ {ElementOf(s)}
    <3>1. t \in SUBSET s /\ t # s
      BY <2>2, ElementIn
    <3>2. q[t] = r[t]
      BY <1>1, <3>1
    <3>3. q[s] = f[ElementOf(s)] + q[t] /\ r[s] = f[ElementOf(s)] + r[t]
      BY <2>2 DEF SumSteps
    <3>4. QED
      BY <3>2, <3>3
  <2>3. QED
    BY <2>1, <2>2
<1> HIDE DEF B
<1>2. \A s \in SUBSET U : s \in B
  BY <1>1, SubsetInduction
<1>3. QED
  BY <1>2 DEF B

(* The sum of a nonempty set is its element's and that of the others.         *)
LEMMA SumUnfold ==
  ASSUME NEW U, IsFiniteSet(U), NEW f
  PROVE  \A s \in SUBSET U :
           SumFunctionOnSet(f, s) =
             IF s = {} THEN 0 ELSE f[ElementOf(s)] + SumFunctionOnSet(f, s \ {ElementOf(s)})
<1> DEFINE sum(s) == SumFunctionOnSet(f, s)
           B == {s \in SUBSET U : sum(s) = IF s = {} THEN 0 ELSE f[ElementOf(s)] + sum(s \ {ElementOf(s)})}
<1>1. ASSUME NEW s \in SUBSET U, \A t \in SUBSET s : t # s => t \in B
      PROVE  s \in B
  <2> DEFINE next == IF s = {} THEN 0 ELSE f[ElementOf(s)] + sum(s \ {ElementOf(s)})
             r == [t \in SUBSET s |-> IF t = s THEN next ELSE sum(t)]
             it == CHOOSE q : SumSteps(q, f, s)
  <2> HIDE DEF sum
  <2>1. ASSUME NEW t \in SUBSET s
        PROVE  r[t] = IF t = {} THEN 0 ELSE f[ElementOf(t)] + r[t \ {ElementOf(t)}]
    <3>1. t # {} => /\ t \ {ElementOf(t)} \in SUBSET s
                    /\ t \ {ElementOf(t)} # s
      BY ElementIn
    <3>2. CASE t = s
      BY <3>1, <3>2
    <3>3. CASE t # s
      <4>1. t \in B
        BY <1>1, <3>3
      <4>2. r[t] = IF t = {} THEN 0 ELSE f[ElementOf(t)] + sum(t \ {ElementOf(t)})
        BY <3>3, <4>1
      <4>3. t # {} => r[t \ {ElementOf(t)}] = sum(t \ {ElementOf(t)})
        BY <3>1
      <4>4. QED
        BY <4>2, <4>3
    <3>4. QED
      BY <3>2, <3>3
  <2>2. SumSteps(r, f, s)
    BY <2>1 DEF SumSteps
  <2>3. SumSteps(it, f, s)
    BY <2>2
  <2>4. IsFiniteSet(s)
    BY FS_Subset
  <2> HIDE DEF it
  <2>5. it[s] = r[s]
    <3> HIDE DEF r
    <3>1. QED
      BY <2>2, <2>3, <2>4, SumStepsUnique
  <2>6. sum(s) = it[s]
    BY SumIsSteps DEF sum, it
  <2>7. sum(s) = next
    BY <2>5, <2>6
  <2>8. QED
    BY <2>7
<1> HIDE DEF B
<1>2. \A s \in SUBSET U : s \in B
  BY <1>1, SubsetInduction
<1>3. QED
  BY <1>2 DEF B
LEMMA SumEmpty ==
  ASSUME NEW f
  PROVE  SumFunctionOnSet(f, {}) = 0
<1>1. IsFiniteSet({}) /\ {} \in SUBSET {}
  BY FS_EmptySet
<1>2. QED
  BY <1>1, SumUnfold

LEMMA SumNat ==
  ASSUME NEW U, IsFiniteSet(U), NEW f, \A x \in U : f[x] \in Nat
  PROVE  \A s \in SUBSET U : SumFunctionOnSet(f, s) \in Nat
<1> DEFINE B == {s \in SUBSET U : SumFunctionOnSet(f, s) \in Nat}
<1>1. ASSUME NEW s \in SUBSET U, \A t \in SUBSET s : t # s => t \in B
      PROVE  s \in B
  <2>1. CASE s = {}
    BY <2>1, SumEmpty
  <2>2. CASE s # {}
    <3> DEFINE t == s \ {ElementOf(s)}
    <3>1. ElementOf(s) \in s /\ t \in SUBSET s /\ t # s
      BY <2>2, ElementIn
    <3>2. SumFunctionOnSet(f, s) = f[ElementOf(s)] + SumFunctionOnSet(f, t)
      BY <2>2, SumUnfold
    <3>3. SumFunctionOnSet(f, t) \in Nat /\ f[ElementOf(s)] \in Nat
      BY <1>1, <3>1
    <3>4. QED
      BY <3>2, <3>3
  <2>3. QED
    BY <2>1, <2>2
<1> HIDE DEF B
<1>2. \A s \in SUBSET U : s \in B
  BY <1>1, SubsetInduction
<1>3. QED
  BY <1>2 DEF B

(* Any element may be taken out first. *)
LEMMA SumRemove ==
  ASSUME NEW U, IsFiniteSet(U), NEW f, \A x \in U : f[x] \in Nat
  PROVE  \A s \in SUBSET U : \A y \in s :
           SumFunctionOnSet(f, s) = f[y] + SumFunctionOnSet(f, s \ {y})
<1> DEFINE sum(s) == SumFunctionOnSet(f, s)
           B == {s \in SUBSET U : \A y \in s : sum(s) = f[y] + sum(s \ {y})}
<1> HIDE DEF sum
<1>1. ASSUME NEW s \in SUBSET U, \A t \in SUBSET s : t # s => t \in B
      PROVE  s \in B
  <2>1. ASSUME NEW y \in s
        PROVE  sum(s) = f[y] + sum(s \ {y})
    <3> DEFINE e == ElementOf(s)
               t == s \ {e}
               u == s \ {y}
    <3>1. e \in s
      BY ElementIn
    <3> HIDE DEF e
    <3>2. sum(s) = f[e] + sum(t)
      BY SumUnfold DEF e, sum
    <3>3. CASE y = e
      BY <3>2, <3>3
    <3>4. CASE y # e
      <4>1. y \in t /\ e \in u /\ t \in B /\ u \in B
        BY <1>1, <3>1, <3>4
      <4>2. sum(t) = f[y] + sum(t \ {y}) /\ sum(u) = f[e] + sum(u \ {e})
        BY <4>1
      <4>3. t \ {y} = u \ {e} /\ t \ {y} \in SUBSET U
        OBVIOUS
      <4>4. f[y] \in Nat /\ f[e] \in Nat /\ sum(t \ {y}) \in Nat
        BY <3>1, <4>3, SumNat DEF sum
      <4>5. \A a, b, c \in Nat : a + (b + c) = b + (a + c)
        OBVIOUS
      <4>6. sum(s) = f[e] + (f[y] + sum(t \ {y})) /\ sum(u) = f[e] + sum(t \ {y})
        BY <3>2, <4>2, <4>3
      <4>7. QED
        BY <4>4, <4>5, <4>6
    <3>5. QED
      BY <3>3, <3>4
  <2>2. QED
    BY <2>1
<1> HIDE DEF B
<1>2. \A s \in SUBSET U : s \in B
  BY <1>1, SubsetInduction
<1>3. QED
  BY <1>2 DEF B, sum

LEMMA SumAdd ==
  ASSUME NEW s, IsFiniteSet(s), NEW x, x \notin s, NEW f,
         f[x] \in Nat, \A y \in s : f[y] \in Nat
  PROVE  SumFunctionOnSet(f, s \cup {x}) = f[x] + SumFunctionOnSet(f, s)
<1> DEFINE U == s \cup {x}
<1>1. IsFiniteSet(U) /\ \A y \in U : f[y] \in Nat
  BY FS_AddElement
<1>2. U \in SUBSET U /\ x \in U /\ U \ {x} = s
  OBVIOUS
<1> HIDE DEF U
<1>3. SumFunctionOnSet(f, U) = f[x] + SumFunctionOnSet(f, U \ {x})
  BY <1>1, <1>2, SumRemove
<1>4. QED
  BY <1>2, <1>3 DEF U

(* Induction over a finite set, from one element to the next; B is a set of  *)
(* subsets.                                                                   *)
LEMMA SetInduction ==
  ASSUME NEW U, IsFiniteSet(U), NEW B, {} \in B,
         \A s \in SUBSET U : \A x \in U \ s : s \in B => s \cup {x} \in B
  PROVE  U \in B
<1>1. ASSUME NEW s \in SUBSET U, \A t \in SUBSET s : t # s => t \in B
      PROVE  s \in B
  <2>1. CASE s = {}
    BY <2>1
  <2>2. CASE s # {}
    <3>1. PICK x \in s : TRUE
      BY <2>2
    <3> DEFINE t == s \ {x}
    <3>2. t \in SUBSET s /\ t # s /\ t \in SUBSET U /\ x \in U \ t /\ t \cup {x} = s
      BY <3>1
    <3> HIDE DEF t
    <3>3. QED
      BY <1>1, <3>2
  <2>3. QED
    BY <2>1, <2>2
<1>2. \A s \in SUBSET U : s \in B
  BY <1>1, SubsetInduction
<1>3. QED
  BY <1>2

LEMMA SumSame ==
  ASSUME NEW U, IsFiniteSet(U), NEW f, NEW g, \A x \in U : f[x] \in Nat /\ g[x] = f[x]
  PROVE  SumFunctionOnSet(g, U) = SumFunctionOnSet(f, U)
<1> DEFINE B == {s \in SUBSET U : SumFunctionOnSet(g, s) = SumFunctionOnSet(f, s)}
<1>1. {} \in B
  BY SumEmpty
<1>2. ASSUME NEW s \in SUBSET U, NEW x \in U \ s, s \in B
      PROVE  s \cup {x} \in B
  <2>1. IsFiniteSet(s)
    BY FS_Subset
  <2>2. /\ SumFunctionOnSet(f, s \cup {x}) = f[x] + SumFunctionOnSet(f, s)
        /\ SumFunctionOnSet(g, s \cup {x}) = g[x] + SumFunctionOnSet(g, s)
    BY <2>1, SumAdd
  <2>3. QED
    BY <1>2, <2>2
<1>3. U \in B
  <2> HIDE DEF B
  <2>1. QED
    BY <1>1, <1>2, SetInduction
<1>4. QED
  BY <1>3

LEMMA SumPlus ==
  ASSUME NEW U, IsFiniteSet(U), NEW f, NEW g, NEW h,
         \A x \in U : f[x] \in Nat /\ g[x] \in Nat /\ h[x] = f[x] + g[x]
  PROVE  /\ SumFunctionOnSet(h, U) = SumFunctionOnSet(f, U) + SumFunctionOnSet(g, U)
         /\ SumFunctionOnSet(f, U) \in Nat /\ SumFunctionOnSet(g, U) \in Nat
<1> DEFINE sf(s) == SumFunctionOnSet(f, s)
           sg(s) == SumFunctionOnSet(g, s)
           sh(s) == SumFunctionOnSet(h, s)
           B == {s \in SUBSET U : sh(s) = sf(s) + sg(s)}
<1>1. sf({}) = 0 /\ sg({}) = 0 /\ sh({}) = 0
  BY SumEmpty
<1>2. \A s \in SUBSET U : sf(s) \in Nat /\ sg(s) \in Nat
  BY SumNat
<1>3. \A s \in SUBSET U : \A x \in U \ s : /\ sf(s \cup {x}) = f[x] + sf(s)
                                           /\ sg(s \cup {x}) = g[x] + sg(s)
                                           /\ sh(s \cup {x}) = h[x] + sh(s)
  <2>1. \A x \in U : h[x] \in Nat
    OBVIOUS
  <2>2. QED
    BY <2>1, FS_Subset, SumAdd
<1> HIDE DEF sf, sg, sh
<1>4. {} \in B
  BY <1>1
<1>5. ASSUME NEW s \in SUBSET U, NEW x \in U \ s, s \in B
      PROVE  s \cup {x} \in B
  <2>1. /\ sh(s) = sf(s) + sg(s) /\ h[x] = f[x] + g[x] /\ f[x] \in Nat /\ g[x] \in Nat
        /\ sf(s) \in Nat /\ sg(s) \in Nat
    BY <1>2, <1>5
  <2>2. sh(s \cup {x}) = sf(s \cup {x}) + sg(s \cup {x})
    BY <1>3, <2>1
  <2>3. QED
    BY <2>2
<1>6. U \in B
  <2> HIDE DEF B
  <2>1. QED
    BY <1>4, <1>5, SetInduction
<1>7. QED
  BY <1>2, <1>6 DEF sf, sg, sh

LEMMA SumTimes ==
  ASSUME NEW U, IsFiniteSet(U), NEW f, NEW g, NEW k \in Nat,
         \A x \in U : f[x] \in Nat /\ g[x] = f[x] * k
  PROVE  SumFunctionOnSet(g, U) = SumFunctionOnSet(f, U) * k
<1> DEFINE sf(s) == SumFunctionOnSet(f, s)
           sg(s) == SumFunctionOnSet(g, s)
           B == {s \in SUBSET U : sg(s) = sf(s) * k}
<1>1. sf({}) = 0 /\ sg({}) = 0
  BY SumEmpty
<1>2. \A s \in SUBSET U : sf(s) \in Nat
  BY SumNat
<1>3. \A s \in SUBSET U : \A x \in U \ s : /\ sf(s \cup {x}) = f[x] + sf(s)
                                           /\ sg(s \cup {x}) = g[x] + sg(s)
  <2>1. \A x \in U : g[x] \in Nat
    OBVIOUS
  <2>2. QED
    BY <2>1, FS_Subset, SumAdd
<1> HIDE DEF sf, sg
<1>4. {} \in B
  BY <1>1
<1>5. ASSUME NEW s \in SUBSET U, NEW x \in U \ s, s \in B
      PROVE  s \cup {x} \in B
  <2>1. sg(s) = sf(s) * k /\ g[x] = f[x] * k /\ f[x] \in Nat /\ sf(s) \in Nat
    BY <1>2, <1>5
  <2>2. \A a, b \in Nat : (a + b) * k = a * k + b * k
    OBVIOUS
  <2>3. sg(s \cup {x}) = sf(s \cup {x}) * k
    <3>1. sg(s \cup {x}) = f[x] * k + sf(s) * k
      BY <1>3, <2>1
    <3>2. (f[x] + sf(s)) * k = f[x] * k + sf(s) * k
      BY <2>1, <2>2
    <3>3. sf(s \cup {x}) = f[x] + sf(s)
      BY <1>3
    <3>4. QED
      BY <3>1, <3>2, <3>3
  <2>4. QED
    BY <2>3
<1>6. U \in B
  <2> HIDE DEF B
  <2>1. QED
    BY <1>4, <1>5, SetInduction
<1>7. QED
  BY <1>6 DEF sf, sg

LEMMA SumBelow ==
  ASSUME NEW U, IsFiniteSet(U), NEW f, NEW g,
         \A x \in U : f[x] \in Nat /\ g[x] \in Nat /\ f[x] <= g[x]
  PROVE  SumFunctionOnSet(f, U) <= SumFunctionOnSet(g, U)
<1> DEFINE d == [x \in U |-> g[x] - f[x]]
<1>1. \A x \in U : f[x] \in Nat /\ d[x] \in Nat /\ g[x] = f[x] + d[x]
  OBVIOUS
<1>2. SumFunctionOnSet(d, U) \in Nat
  <2> HIDE DEF d
  <2>1. QED
    BY <1>1, SumNat
<1> HIDE DEF d
<1>3. /\ SumFunctionOnSet(g, U) = SumFunctionOnSet(f, U) + SumFunctionOnSet(d, U)
      /\ SumFunctionOnSet(f, U) \in Nat
  BY <1>1, SumPlus
<1>4. QED
  BY <1>2, <1>3

LEMMA SumZero ==
  ASSUME NEW U, IsFiniteSet(U), NEW f, \A x \in U : f[x] = 0
  PROVE  SumFunctionOnSet(f, U) = 0
<1> DEFINE B == {s \in SUBSET U : SumFunctionOnSet(f, s) = 0}
<1>1. {} \in B
  BY SumEmpty
<1>2. ASSUME NEW s \in SUBSET U, NEW x \in U \ s, s \in B
      PROVE  s \cup {x} \in B
  <2>1. SumFunctionOnSet(f, s \cup {x}) = f[x] + SumFunctionOnSet(f, s)
    <3>1. IsFiniteSet(s) /\ f[x] \in Nat /\ \A y \in s : f[y] \in Nat
      BY FS_Subset
    <3>2. QED
      BY <3>1, SumAdd
  <2>2. QED
    BY <1>2, <2>1
<1>3. U \in B
  <2> HIDE DEF B
  <2>1. QED
    BY <1>1, <1>2, SetInduction
<1>4. QED
  BY <1>3

LEMMA SumSingle ==
  ASSUME NEW U, IsFiniteSet(U), NEW y \in U, NEW f, f[y] \in Nat,
         \A x \in U : x # y => f[x] = 0
  PROVE  SumFunctionOnSet(f, U) = f[y]
<1> DEFINE s == U \ {y}
<1>1. IsFiniteSet(s) /\ y \notin s /\ s \cup {y} = U /\ \A x \in s : f[x] = 0
  BY FS_Subset
<1> HIDE DEF s
<1>2. SumFunctionOnSet(f, s) = 0
  BY <1>1, SumZero
<1>3. \A x \in s : f[x] \in Nat
  BY <1>1
<1>4. SumFunctionOnSet(f, s \cup {y}) = f[y] + SumFunctionOnSet(f, s)
  BY <1>1, <1>3, SumAdd
<1>5. QED
  BY <1>1, <1>2, <1>4

(* Where the values of one element differ, the sums differ by as much.        *)
LEMMA SumUpdate ==
  ASSUME NEW U, IsFiniteSet(U), NEW y \in U, NEW f, NEW g,
         \A x \in U : f[x] \in Nat /\ g[x] \in Nat,
         \A x \in U : x # y => g[x] = f[x]
  PROVE  /\ SumFunctionOnSet(g, U) + f[y] = SumFunctionOnSet(f, U) + g[y]
         /\ SumFunctionOnSet(g, U) \in Nat /\ SumFunctionOnSet(f, U) \in Nat
<1> DEFINE s == U \ {y}
<1>1. IsFiniteSet(s) /\ s \in SUBSET U /\ U \in SUBSET U /\ \A x \in s : f[x] \in Nat /\ g[x] = f[x]
  BY FS_Subset
<1>2. /\ SumFunctionOnSet(f, U) = f[y] + SumFunctionOnSet(f, s)
      /\ SumFunctionOnSet(g, U) = g[y] + SumFunctionOnSet(g, s)
  BY <1>1, SumRemove
<1> HIDE DEF s
<1>3. SumFunctionOnSet(g, s) = SumFunctionOnSet(f, s) /\ SumFunctionOnSet(f, s) \in Nat
  BY <1>1, SumSame, SumNat
<1>4. f[y] \in Nat /\ g[y] \in Nat
  OBVIOUS
<1>5. QED
  BY <1>2, <1>3, <1>4

LEMMA SumIndicator ==
  ASSUME NEW U, IsFiniteSet(U), NEW A, NEW f,
         \A x \in U : f[x] = IF x \in A THEN 1 ELSE 0
  PROVE  SumFunctionOnSet(f, U) = Cardinality({x \in U : x \in A})
<1> DEFINE In(s) == {x \in s : x \in A}
           B == {s \in SUBSET U : SumFunctionOnSet(f, s) = Cardinality(In(s))}
<1>1. {} \in B
  <2>1. In({}) = {}
    OBVIOUS
  <2>2. QED
    BY <2>1, SumEmpty, FS_EmptySet
<1>2. ASSUME NEW s \in SUBSET U, NEW x \in U \ s, s \in B
      PROVE  s \cup {x} \in B
  <2>1. SumFunctionOnSet(f, s \cup {x}) = f[x] + SumFunctionOnSet(f, s)
    <3>1. IsFiniteSet(s) /\ f[x] \in Nat /\ \A y \in s : f[y] \in Nat
      BY FS_Subset
    <3>2. QED
      BY <3>1, SumAdd
  <2>2. IsFiniteSet(In(s)) /\ x \notin In(s) /\ Cardinality(In(s)) \in Nat
    BY FS_Subset, FS_CardinalityType
  <2>3. CASE x \in A
    <3>1. In(s \cup {x}) = In(s) \cup {x} /\ f[x] = 1
      BY <2>3
    <3> HIDE DEF In
    <3>2. Cardinality(In(s \cup {x})) = Cardinality(In(s)) + 1
      BY <2>2, <3>1, FS_AddElement
    <3>3. QED
      BY <1>2, <2>1, <2>2, <3>1, <3>2
  <2>4. CASE x \notin A
    <3>1. In(s \cup {x}) = In(s) /\ f[x] = 0
      BY <2>4
    <3> HIDE DEF In
    <3>2. QED
      BY <1>2, <2>1, <2>2, <3>1
  <2>5. QED
    BY <2>3, <2>4
<1>3. U \in B
  <2> HIDE DEF B
  <2>1. QED
    BY <1>1, <1>2, SetInduction
<1>4. QED
  BY <1>3

(* The order of two sums does not matter. *)
LEMMA SumExchange ==
  ASSUME NEW U, IsFiniteSet(U), NEW V, IsFiniteSet(V), NEW f,
         \A x \in U : \A y \in V : f[x][y] \in Nat
  PROVE  SumFunctionOnSet([x \in U |-> SumFunctionOnSet(f[x], V)], U)
           = SumFunctionOnSet([y \in V |-> SumFunctionOnSet([x \in U |-> f[x][y]], U)], V)
<1> DEFINE row == [x \in U |-> SumFunctionOnSet(f[x], V)]
           col(s) == [y \in V |-> SumFunctionOnSet([x \in U |-> f[x][y]], s)]
           B == {s \in SUBSET U : SumFunctionOnSet(row, s) = SumFunctionOnSet(col(s), V)}
<1>1. \A x \in U : row[x] = SumFunctionOnSet(f[x], V) /\ row[x] \in Nat
  BY SumNat
<1>2. \A s \in SUBSET U : \A y \in V : col(s)[y] \in Nat
  <2>1. ASSUME NEW s \in SUBSET U, NEW y \in V
        PROVE  SumFunctionOnSet([x \in U |-> f[x][y]], s) \in Nat
    <3> DEFINE c == [x \in U |-> f[x][y]]
    <3>1. \A x \in U : c[x] \in Nat
      OBVIOUS
    <3> HIDE DEF c
    <3>2. SumFunctionOnSet(c, s) \in Nat
      BY <3>1, SumNat
    <3>3. QED
      BY <3>2 DEF c
  <2>2. QED
    BY <2>1
<1>3. ASSUME NEW s \in SUBSET U, NEW x \in U \ s
      PROVE  \A y \in V : col(s \cup {x})[y] = f[x][y] + col(s)[y]
  <2>1. ASSUME NEW y \in V
        PROVE  SumFunctionOnSet([z \in U |-> f[z][y]], s \cup {x})
                 = f[x][y] + SumFunctionOnSet([z \in U |-> f[z][y]], s)
    <3> DEFINE c == [z \in U |-> f[z][y]]
    <3>1. (\A z \in U : c[z] \in Nat) /\ c[x] = f[x][y] /\ IsFiniteSet(s)
      BY FS_Subset
    <3> HIDE DEF c
    <3>2. SumFunctionOnSet(c, s \cup {x}) = c[x] + SumFunctionOnSet(c, s)
      BY <3>1, SumAdd
    <3>3. QED
      BY <3>1, <3>2 DEF c
  <2>2. QED
    BY <2>1
<1>4. {} \in B
  <2>1. \A y \in V : col({})[y] = 0
    BY SumEmpty
  <2> HIDE DEF col
  <2>2. SumFunctionOnSet(col({}), V) = 0
    BY <2>1, SumZero
  <2>3. QED
    BY <2>2, SumEmpty
<1> HIDE DEF row, col
<1>5. ASSUME NEW s \in SUBSET U, NEW x \in U \ s, s \in B
      PROVE  s \cup {x} \in B
  <2>1. SumFunctionOnSet(row, s \cup {x}) = row[x] + SumFunctionOnSet(row, s)
    BY <1>1, FS_Subset, SumAdd
  <2>2. SumFunctionOnSet(col(s \cup {x}), V)
          = SumFunctionOnSet(f[x], V) + SumFunctionOnSet(col(s), V)
    <3>1. \A y \in V : /\ f[x][y] \in Nat /\ col(s)[y] \in Nat
                       /\ col(s \cup {x})[y] = f[x][y] + col(s)[y]
      BY <1>2, <1>3
    <3>2. QED
      BY <3>1, SumPlus
  <2>3. QED
    BY <1>1, <1>5, <2>1, <2>2
<1>6. U \in B
  <2> HIDE DEF B
  <2>1. QED
    BY <1>4, <1>5, SetInduction
<1>7. SumFunctionOnSet(row, U) = SumFunctionOnSet(col(U), V)
  BY <1>6
<1>8. QED
  BY <1>7 DEF row, col

(* Induction over the numbers up to N; B is the set of those that have the   *)
(* property.                                                                  *)
LEMMA UpTo ==
  ASSUME NEW N \in Nat, NEW B, 0 \in B, \A k \in 1 .. N : k - 1 \in B => k \in B
  PROVE  \A k \in 0 .. N : k \in B
<1> DEFINE r == [k \in 0 .. N |-> k]
<1>1. r[0] \in B /\ \A k \in 1 .. N : r[k - 1] \in B => r[k] \in B
  <2>1. 0 \in 0 .. N /\ \A k \in 1 .. N : k \in 0 .. N /\ k - 1 \in 0 .. N
    OBVIOUS
  <2>2. QED
    BY <2>1
<1> HIDE DEF r
<1>2. \A k \in 0 .. N : r[k] \in B
  BY <1>1, StaysIn
<1>3. QED
  BY <1>2 DEF r

(* The sum over two disjoint sets. *)
LEMMA SumUnion ==
  ASSUME NEW A, NEW C, IsFiniteSet(A), IsFiniteSet(C), A \cap C = {}, NEW f,
         \A x \in A \cup C : f[x] \in Nat
  PROVE  SumFunctionOnSet(f, A \cup C) = SumFunctionOnSet(f, A) + SumFunctionOnSet(f, C)
<1> DEFINE B == {s \in SUBSET C : SumFunctionOnSet(f, A \cup s)
                                    = SumFunctionOnSet(f, A) + SumFunctionOnSet(f, s)}
<1>1. SumFunctionOnSet(f, A) \in Nat
  BY SumNat
<1>2. {} \in B
  <2>1. SumFunctionOnSet(f, {}) = 0 /\ A \cup {} = A
    BY SumEmpty
  <2>2. QED
    BY <1>1, <2>1
<1>3. ASSUME NEW s \in SUBSET C, NEW x \in C \ s, s \in B
      PROVE  s \cup {x} \in B
  <2>1. IsFiniteSet(s) /\ IsFiniteSet(A \cup s)
    BY FS_Subset, FS_Union
  <2>2. /\ x \notin s /\ x \notin A \cup s /\ f[x] \in Nat
        /\ \A y \in s : f[y] \in Nat
        /\ \A y \in A \cup s : f[y] \in Nat
    OBVIOUS
  <2>3. SumFunctionOnSet(f, s \cup {x}) = f[x] + SumFunctionOnSet(f, s)
    BY <2>1, <2>2, SumAdd
  <2>4. SumFunctionOnSet(f, (A \cup s) \cup {x}) = f[x] + SumFunctionOnSet(f, A \cup s)
    BY <2>1, <2>2, SumAdd
  <2>5. A \cup (s \cup {x}) = (A \cup s) \cup {x}
    OBVIOUS
  <2>6. SumFunctionOnSet(f, s) \in Nat
    BY <2>1, <2>2, SumNat
  <2>7. SumFunctionOnSet(f, A \cup s) = SumFunctionOnSet(f, A) + SumFunctionOnSet(f, s)
    BY <1>3
  <2>8. SumFunctionOnSet(f, A \cup (s \cup {x}))
          = SumFunctionOnSet(f, A) + SumFunctionOnSet(f, s \cup {x})
    <3> DEFINE a == SumFunctionOnSet(f, A)
               b == SumFunctionOnSet(f, s)
               z == f[x]
    <3>1. a \in Nat /\ b \in Nat /\ z \in Nat
      BY <1>1, <2>2, <2>6
    <3>2. /\ SumFunctionOnSet(f, A \cup (s \cup {x})) = z + (a + b)
          /\ SumFunctionOnSet(f, s \cup {x}) = z + b
      BY <2>3, <2>4, <2>5, <2>7
    <3> HIDE DEF a, b, z
    <3>3. z + (a + b) = a + (z + b)
      BY <3>1
    <3>4. QED
      BY <3>2, <3>3 DEF a
  <2>9. QED
    BY <2>8
<1>4. C \in B
  <2> HIDE DEF B
  <2>1. QED
    BY <1>2, <1>3, SetInduction
<1>5. QED
  BY <1>4

(* A part of the sum: all of it, if the rest is nothing. *)
LEMMA SumOfSubset ==
  ASSUME NEW U, IsFiniteSet(U), NEW A \in SUBSET U, NEW f, \A x \in U : f[x] \in Nat
  PROVE  /\ SumFunctionOnSet(f, A) <= SumFunctionOnSet(f, U)
         /\ (\A x \in U \ A : f[x] = 0) => SumFunctionOnSet(f, A) = SumFunctionOnSet(f, U)
         /\ SumFunctionOnSet(f, A) \in Nat /\ SumFunctionOnSet(f, U) \in Nat
<1> DEFINE C == U \ A
<1>1. IsFiniteSet(A) /\ IsFiniteSet(C) /\ A \cap C = {} /\ A \cup C = U
  BY FS_Subset
<1>2. \A x \in C : f[x] \in Nat
  OBVIOUS
<1> HIDE DEF C
<1>3. SumFunctionOnSet(f, A \cup C) = SumFunctionOnSet(f, A) + SumFunctionOnSet(f, C)
  BY <1>1, SumUnion
<1>4. SumFunctionOnSet(f, A) \in Nat /\ SumFunctionOnSet(f, C) \in Nat
  BY <1>1, <1>2, SumNat
<1>5. (\A x \in C : f[x] = 0) => SumFunctionOnSet(f, C) = 0
  BY <1>1, SumZero
<1>6. SumFunctionOnSet(f, U) \in Nat
  BY SumNat
<1> DEFINE a == SumFunctionOnSet(f, A)
           b == SumFunctionOnSet(f, C)
           u == SumFunctionOnSet(f, U)
<1>7. a \in Nat /\ b \in Nat /\ u \in Nat /\ u = a + b
  BY <1>1, <1>3, <1>4, <1>6
<1>8. (\A x \in U \ A : f[x] = 0) => b = 0
  BY <1>5 DEF C
<1> HIDE DEF a, b, u
<1>9. a <= u /\ (b = 0 => a = u)
  BY <1>7
<1>10. QED
  BY <1>7, <1>8, <1>9 DEF a, u

(* A recursive function whose value at d depends only on its values at lower  *)
(* ranks exists; X is the set of functions among which it is looked for.      *)
RankedStep(N, D, rank, X, F) ==
  /\ N \in Nat
  /\ rank \in [D -> 0 .. N]
  /\ X # {}
  /\ \A f \in X : f = [d \in D |-> f[d]]
  /\ F \in [X -> X]
  /\ \A f, g \in X : \A d \in D :
       (\A e \in D : rank[e] < rank[d] => f[e] = g[e]) => F[f][d] = F[g][d]

LEMMA RankedRecursion ==
  ASSUME NEW N, NEW D, NEW rank, NEW X, NEW F, RankedStep(N, D, rank, X, F)
  PROVE  \E f \in X : f = F[f]
<1> USE DEF RankedStep
<1>1. PICK x \in X : TRUE
  OBVIOUS
<1> DEFINE L == N + 2
           G == [k \in 1 .. L |-> F]
<1>2. L \in Nat /\ G \in [1 .. L -> [X -> X]]
  OBVIOUS
<1> HIDE DEF L, G
<1>3. PICK r \in [0 .. L -> X] : Steps(r, x, G, L)
  BY <1>2, RecursionExists
<1>4. \A k \in 1 .. L : r[k] = F[r[k - 1]]
  BY <1>3 DEF Steps, G
<1> DEFINE same(k) == \A d \in D : rank[d] < k => r[k][d] = r[k + 1][d]
           B == {k \in 0 .. N + 1 : same(k)}
<1>5. \A d \in D : rank[d] \in 0 .. N
  OBVIOUS
<1>6. 0 \in B
  BY <1>5
<1>7. ASSUME NEW k \in 1 .. N + 1, k - 1 \in B PROVE k \in B
  <2>1. /\ k \in 1 .. L /\ k + 1 \in 1 .. L /\ k \in 0 .. L /\ k - 1 \in 0 .. L
        /\ (k + 1) - 1 = k /\ (k - 1) + 1 = k
    BY DEF L
  <2>2. r[k] = F[r[k - 1]] /\ r[k + 1] = F[r[k]]
    <3>1. r[k + 1] = F[r[(k + 1) - 1]]
      BY <1>4, <2>1
    <3>2. QED
      BY <1>4, <2>1, <3>1
  <2>3. r[k - 1] \in X /\ r[k] \in X
    BY <2>1
  <2>4. ASSUME NEW d \in D, rank[d] < k PROVE r[k][d] = r[k + 1][d]
    <3>1. ASSUME NEW e \in D, rank[e] < rank[d] PROVE r[k - 1][e] = r[k][e]
      <4>1. rank[e] < k - 1
        BY <1>5, <2>4, <3>1
      <4>2. r[k - 1][e] = r[(k - 1) + 1][e]
        BY <1>7, <4>1
      <4>3. QED
        BY <2>1, <4>2
    <3>2. F[r[k - 1]][d] = F[r[k]][d]
      BY <2>3, <3>1
    <3>3. QED
      BY <2>2, <3>2
  <2>5. QED
    BY <2>4
<1> DEFINE M == N + 1
<1>8. N + 1 \in B
  <2>1. M \in Nat /\ 0 \in B /\ \A k \in 1 .. M : k - 1 \in B => k \in B
    BY <1>6, <1>7
  <2> HIDE DEF B, M
  <2>2. \A k \in 0 .. M : k \in B
    BY <2>1, UpTo
  <2>3. M \in 0 .. M
    BY <2>1
  <2>4. QED
    BY <2>2, <2>3 DEF M
<1>9. r[N + 1] \in X /\ r[N + 2] \in X /\ r[N + 2] = F[r[N + 1]]
  <2>1. N + 1 \in 0 .. L /\ N + 2 \in 0 .. L /\ N + 2 \in 1 .. L /\ (N + 2) - 1 = N + 1
    BY DEF L
  <2>2. r[N + 2] = F[r[(N + 2) - 1]]
    BY <1>4, <2>1
  <2>3. QED
    BY <2>1, <2>2
<1>10. \A d \in D : r[N + 1][d] = r[N + 2][d]
  <2>1. \A d \in D : rank[d] < N + 1
    BY <1>5
  <2>2. (N + 1) + 1 = N + 2
    OBVIOUS
  <2>3. same(N + 1)
    BY <1>8
  <2>4. QED
    BY <2>1, <2>2, <2>3
<1>11. r[N + 1] = r[N + 2]
  BY <1>9, <1>10
<1>12. QED
  BY <1>9, <1>11
=============================================================================
