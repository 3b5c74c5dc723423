---------------------------- MODULE ModelsProofs ----------------------------
(***************************************************************************)
(* Theorems about Models.                                                  *)
(***************************************************************************)
EXTENDS Models, DataLemmas

(* The times that can be scheduled, Infinity for never.                       *)
Times == 0 .. Infinity

Scheduled(x) == [time |-> x.time, state |-> x.state]

Ascending(q) == \A i, j \in 1 .. Len(q) : i < j => q[i].time < q[j].time

(* The buffers that there are.                                                *)
BufferOK(b) ==
  /\ b = [kind |-> b.kind, last |-> b.last, scheduled |-> b.scheduled]
  /\ b.kind \in {"transport", "hybrid", "inertial"}
  /\ b.kind = "transport" => /\ DOMAIN b.scheduled \subseteq Times
                             /\ b.scheduled = [t \in DOMAIN b.scheduled |-> b.scheduled[t]]
  /\ b.kind = "hybrid" => /\ b.scheduled \in Seq([time : Times, state : State])
                          /\ Ascending(b.scheduled)
  /\ b.kind = "inertial" => b.scheduled \in Times

(* What a buffer is to transmit, and when.                                    *)
Entries(b) ==
  IF b.kind = "transport" THEN {[time |-> t, state |-> b.scheduled[t]] : t \in DOMAIN b.scheduled}
  ELSE IF b.kind = "hybrid" THEN {b.scheduled[i] : i \in 1 .. Len(b.scheduled)}
  ELSE {[time |-> b.scheduled, state |-> b.last]}

ToCome(b) == {x \in Entries(b) : x.time # Infinity}

NextEntry(b) == [time |-> NextTimeout(b), state |-> NextState(b)]

LEMMA InfinityIs == Infinity \in Nat \ {0} /\ Limit \in Times
BY CellAssumption DEF Times

(* The least of a set of times is the one that Min chooses.                   *)
LEMMA MinIs ==
  ASSUME NEW S \in SUBSET Nat, S # {}
  PROVE  Min(S) \in S /\ \A t \in S : Min(S) <= t
<1>1. \E n \in S : \A k \in S : n <= k
  BY LeastNat
<1>2. QED
  BY <1>1 DEF Min

(* A sequence that is not empty, and what follows its first element.          *)
LEMMA TailIs ==
  ASSUME NEW E, NEW q \in Seq(E), q # <<>>
  PROVE  /\ Len(q) \in Nat \ {0} /\ \A i \in 1 .. Len(q) : q[i] \in E
         /\ Tail(q) \in Seq(E) /\ Len(Tail(q)) = Len(q) - 1
         /\ \A i \in 1 .. Len(q) - 1 : Tail(q)[i] = q[i + 1]
<1>1. Len(q) \in Nat /\ \A i \in 1 .. Len(q) : q[i] \in E
  BY ElementOfSeq, LenProperties
<1>2. Len(q) # 0
  BY EmptySeq
<1>3. Tail(q) \in Seq(E) /\ Len(Tail(q)) = Len(q) - 1
      /\ \A i \in 1 .. Len(q) - 1 : Tail(q)[i] = q[i + 1]
  BY HeadTailProperties
<1>4. QED
  BY <1>1, <1>2, <1>3

LEMMA TailAscends ==
  ASSUME NEW E, NEW q \in Seq(E), q # <<>>, Ascending(q), \A i \in 1 .. Len(q) : q[i].time \in Nat
  PROVE  /\ Ascending(Tail(q))
         /\ {Tail(q)[i] : i \in 1 .. Len(Tail(q))} = {q[i] : i \in 1 .. Len(q)} \ {q[1]}
<1> DEFINE n == Len(q)
           r == Tail(q)
<1>1. n \in Nat \ {0} /\ Len(r) = n - 1 /\ \A i \in 1 .. n - 1 : r[i] = q[i + 1]
  BY TailIs
<1>2. \A i, j \in 1 .. n : i < j => q[i].time < q[j].time
  BY DEF Ascending
<1> HIDE DEF n, r
<1>3. \A i, j \in 1 .. n - 1 : i < j => i + 1 \in 1 .. n /\ j + 1 \in 1 .. n /\ i + 1 < j + 1
  BY <1>1
<1>4. \A i, j \in 1 .. n - 1 : i < j => r[i].time < r[j].time
  BY <1>1, <1>2, <1>3
<1>5. \A i \in 2 .. n : q[i] # q[1]
  <2>1. SUFFICES ASSUME NEW i \in 2 .. n, q[i] = q[1]
                 PROVE  FALSE
    OBVIOUS
  <2>2. 1 \in 1 .. n /\ i \in 1 .. n /\ 1 < i
    BY <1>1, <2>1
  <2>3. q[1].time < q[i].time /\ q[1].time \in Nat
    BY <1>2, <2>2 DEF n
  <2>4. QED
    BY <2>1, <2>3
<1>6. \A i \in 1 .. n - 1 : i + 1 \in 2 .. n
  BY <1>1
<1>7. \A i \in 1 .. n : i # 1 => i - 1 \in 1 .. n - 1 /\ r[i - 1] = q[i]
  <2>1. SUFFICES ASSUME NEW i \in 1 .. n, i # 1
                 PROVE  i - 1 \in 1 .. n - 1 /\ r[i - 1] = q[i]
    OBVIOUS
  <2>2. i - 1 \in 1 .. n - 1 /\ (i - 1) + 1 = i
    BY <1>1, <2>1
  <2>3. QED
    BY <1>1, <2>2
<1>8. {r[i] : i \in 1 .. n - 1} = {q[i] : i \in 1 .. n} \ {q[1]}
  <2>1. \A i \in 1 .. n - 1 : r[i] \in {q[k] : k \in 1 .. n} /\ r[i] # q[1]
    <3>1. SUFFICES ASSUME NEW i \in 1 .. n - 1
                   PROVE  r[i] \in {q[k] : k \in 1 .. n} /\ r[i] # q[1]
      OBVIOUS
    <3>2. i + 1 \in 1 .. n /\ i + 1 \in 2 .. n
      BY <1>1
    <3>3. QED
      BY <1>1, <1>5, <3>2
  <2>2. \A i \in 1 .. n : q[i] # q[1] => q[i] \in {r[k] : k \in 1 .. n - 1}
    <3>1. SUFFICES ASSUME NEW i \in 1 .. n, q[i] # q[1]
                   PROVE  q[i] \in {r[k] : k \in 1 .. n - 1}
      OBVIOUS
    <3>2. i # 1
      BY <3>1
    <3>3. QED
      BY <1>7, <3>2
  <2>3. QED
    BY <2>1, <2>2
<1>9. QED
  BY <1>1, <1>4, <1>8 DEF Ascending, n, r

(* The next timeout is that of the earliest entry, and entries differ in time. *)
LEMMA TimeoutIs ==
  ASSUME NEW b, BufferOK(b)
  PROVE  /\ NextTimeout(b) \in Times
         /\ \A x \in ToCome(b) : NextTimeout(b) <= x.time
         /\ NextTimeout(b) # Infinity => NextEntry(b) \in ToCome(b)
         /\ \A x, y \in ToCome(b) : x.time = y.time => x = y
<1>1. CASE b.kind = "inertial"
  <2>1. NextTimeout(b) = b.scheduled /\ NextState(b) = b.last /\ b.scheduled \in Times
    BY <1>1 DEF NextTimeout, NextState, BufferOK, Idle
  <2>2. Entries(b) = {[time |-> b.scheduled, state |-> b.last]}
    BY <1>1 DEF Entries
  <2>3. QED
    BY <2>1, <2>2 DEF ToCome, NextEntry, Times
<1>2. CASE b.kind = "transport"
  <2> DEFINE f == b.scheduled
             D == DOMAIN f
  <2>1. D \subseteq Times /\ D \subseteq Nat /\ f = [t \in D |-> f[t]]
    BY <1>2, InfinityIs DEF BufferOK, Times
  <2>2. Entries(b) = {[time |-> t, state |-> f[t]] : t \in D}
    BY <1>2 DEF Entries
  <2>3. CASE f = <<>>
    <3>1. D = {}
      BY <2>3
    <3>2. NextTimeout(b) = Infinity
      BY <1>2, <2>3 DEF NextTimeout, Idle
    <3>3. ToCome(b) = {}
      BY <2>2, <3>1 DEF ToCome
    <3>4. QED
      BY <3>2, <3>3, InfinityIs DEF Times
  <2>4. CASE f # <<>>
    <3>1. D # {}
      <4>1. ASSUME D = {}
            PROVE  f = <<>>
        BY <2>1, <4>1
      <4>2. QED
        BY <2>4, <4>1
    <3>2. NextTimeout(b) = Min(D) /\ NextState(b) = f[Min(D)]
      BY <1>2, <2>4 DEF NextTimeout, NextState, Idle
    <3>3. Min(D) \in D /\ \A t \in D : Min(D) <= t
      BY <2>1, <3>1, MinIs
    <3>4. QED
      BY <2>1, <2>2, <3>2, <3>3 DEF ToCome, NextEntry
  <2>5. QED
    BY <2>3, <2>4
<1>3. CASE b.kind = "hybrid"
  <2> DEFINE q == b.scheduled
  <2>1. q \in Seq([time : Times, state : State]) /\ Ascending(q)
    BY <1>3 DEF BufferOK
  <2>2. Entries(b) = {q[i] : i \in 1 .. Len(q)}
    BY <1>3 DEF Entries
  <2>3. CASE q = <<>>
    <3>1. NextTimeout(b) = Infinity
      BY <1>3, <2>3 DEF NextTimeout, Idle
    <3>2. ToCome(b) = {}
      BY <2>2, <2>3 DEF ToCome
    <3>3. QED
      BY <3>1, <3>2, InfinityIs DEF Times
  <2>4. CASE q # <<>>
    <3>1. Len(q) \in Nat \ {0} /\ \A i \in 1 .. Len(q) : q[i] \in [time : Times, state : State]
      BY <2>1, <2>4, TailIs
    <3>2. NextTimeout(b) = q[1].time /\ NextState(b) = q[1].state
      BY <1>3, <2>4 DEF NextTimeout, NextState, Idle
    <3>3. q[1] = [time |-> q[1].time, state |-> q[1].state] /\ q[1].time \in Times
      BY <3>1
    <3>4. \A i \in 1 .. Len(q) : q[1].time <= q[i].time
      BY <2>1, <3>1 DEF Ascending, Times
    <3>5. \A i, j \in 1 .. Len(q) : q[i].time = q[j].time => i = j
      BY <2>1, <3>1 DEF Ascending, Times
    <3>6. QED
      BY <2>2, <3>1, <3>2, <3>3, <3>4, <3>5 DEF ToCome, NextEntry
  <2>5. QED
    BY <2>3, <2>4
<1>4. QED
  BY <1>1, <1>2, <1>3 DEF BufferOK

(* Popping a buffer removes its next entry.                                   *)
LEMMA PopBufferIs ==
  ASSUME NEW b, BufferOK(b), NextTimeout(b) # Infinity
  PROVE  /\ BufferOK(PopBuffer(b)) /\ PopBuffer(b).kind = b.kind
         /\ ToCome(PopBuffer(b)) = ToCome(b) \ {NextEntry(b)}
<1> DEFINE p == PopBuffer(b)
<1>0. b = [kind |-> b.kind, last |-> b.last, scheduled |-> b.scheduled]
  BY DEF BufferOK
<1>1. CASE b.kind = "inertial"
  <2>1. p = [kind |-> b.kind, last |-> b.last, scheduled |-> Infinity]
    BY <1>0, <1>1 DEF PopBuffer, NextState, Idle
  <2>2. NextEntry(b) = [time |-> b.scheduled, state |-> b.last]
    BY <1>1 DEF NextEntry, NextTimeout, NextState, Idle
  <2>3. Entries(b) = {NextEntry(b)} /\ Entries(p) = {[time |-> Infinity, state |-> b.last]}
    BY <1>1, <2>1, <2>2 DEF Entries
  <2>4. ToCome(b) \subseteq {NextEntry(b)} /\ ToCome(p) = {}
    BY <2>3 DEF ToCome
  <2>5. BufferOK(p) /\ p.kind = b.kind
    BY <1>1, <2>1, InfinityIs DEF BufferOK, Times
  <2>6. QED
    BY <2>4, <2>5
<1>2. CASE b.kind = "transport"
  <2> DEFINE f == b.scheduled
             D == DOMAIN f
             n == NextTimeout(b)
             g == [t \in D \ {n} |-> f[t]]
  <2>1. f # <<>>
    BY <1>2 DEF NextTimeout, Idle
  <2>2. p = [kind |-> b.kind, last |-> NextState(b), scheduled |-> g]
    BY <1>0, <1>2, <2>1 DEF PopBuffer, Idle
  <2>3. NextState(b) = f[n]
    BY <1>2, <2>1 DEF NextState, Idle
  <2>4. Entries(b) = {[time |-> t, state |-> f[t]] : t \in D}
    BY <1>2 DEF Entries
  <2>5. Entries(p) = {[time |-> t, state |-> g[t]] : t \in D \ {n}}
    BY <1>2, <2>2 DEF Entries
  <2>6. Entries(p) = Entries(b) \ {NextEntry(b)}
    BY <2>3, <2>4, <2>5 DEF NextEntry
  <2>7. BufferOK(p) /\ p.kind = b.kind
    BY <1>2, <2>2 DEF BufferOK
  <2>8. QED
    BY <2>6, <2>7 DEF ToCome
<1>3. CASE b.kind = "hybrid"
  <2> DEFINE q == b.scheduled
             r == Tail(q)
             E == [time : Times, state : State]
  <2>1. q # <<>>
    BY <1>3 DEF NextTimeout, Idle
  <2>2. p = [kind |-> b.kind, last |-> NextState(b), scheduled |-> r]
    BY <1>0, <1>3, <2>1 DEF PopBuffer, Idle
  <2>3. q \in Seq(E) /\ Ascending(q)
    BY <1>3 DEF BufferOK
  <2>4. NextEntry(b) = [time |-> q[1].time, state |-> q[1].state]
    BY <1>3, <2>1 DEF NextEntry, NextTimeout, NextState, Idle
  <2> HIDE DEF p
  <2>5. Len(q) \in Nat \ {0} /\ \A i \in 1 .. Len(q) : q[i] \in E
    <3> HIDE DEF q, E
    <3>1. QED
      BY <2>1, <2>3, TailIs
  <2>6. q[1] = NextEntry(b)
    BY <2>4, <2>5
  <2>7. \A i \in 1 .. Len(q) : q[i].time \in Nat
    BY <2>5, InfinityIs DEF Times
  <2>8. r \in Seq(E) /\ Ascending(r) /\ {r[i] : i \in 1 .. Len(r)} = {q[i] : i \in 1 .. Len(q)} \ {q[1]}
    <3> HIDE DEF q, E
    <3>1. QED
      BY <2>1, <2>3, <2>7, TailIs, TailAscends
  <2>10. Entries(b) = {q[i] : i \in 1 .. Len(q)} /\ Entries(p) = {r[i] : i \in 1 .. Len(r)}
    BY <1>3, <2>2 DEF Entries
  <2>11. BufferOK(p) /\ p.kind = b.kind
    BY <1>3, <2>2, <2>8 DEF BufferOK
  <2>12. QED
    BY <2>6, <2>8, <2>10, <2>11 DEF ToCome, p
<1>4. QED
  BY <1>1, <1>2, <1>3 DEF BufferOK

(* The greatest of a set of numbers is the one that Max chooses.              *)
LEMMA MaxIs ==
  ASSUME NEW n \in Nat, NEW S \in SUBSET (0 .. n), S # {}
  PROVE  Max(S) \in S /\ \A i \in S : i <= Max(S)
<1> DEFINE below == {n - i : i \in S}
<1>1. below \in SUBSET Nat /\ below # {}
  <2>1. \A i \in S : i \in 0 .. n /\ n - i \in Nat
    OBVIOUS
  <2>2. QED
    BY <2>1
<1>2. PICK d \in below : \A k \in below : d <= k
  <2> HIDE DEF below
  <2>1. QED
    BY <1>1, LeastNat
<1>3. PICK m \in S : d = n - m
  BY <1>2
<1>4. \A i \in S : i <= m
  <2>1. SUFFICES ASSUME NEW i \in S
                 PROVE  i <= m
    OBVIOUS
  <2>2. n - i \in below /\ d <= n - i
    BY <1>2
  <2>3. i \in Nat /\ m \in Nat
    OBVIOUS
  <2> HIDE DEF below
  <2>4. QED
    BY <1>3, <2>2, <2>3
<1>5. \E m1 \in S : \A i \in S : m1 >= i
  BY <1>4
<1>6. Max(S) \in S /\ \A i \in S : Max(S) >= i
  BY <1>5 DEF Max
<1>7. QED
  BY <1>6

(* The first elements of a sequence, and those with one more.                 *)
LEMMA PrefixIs ==
  ASSUME NEW S, NEW q, NEW h \in Nat, \A i \in 1 .. h : q[i] \in S
  PROVE  /\ SubSeq(q, 1, h) \in Seq(S) /\ Len(SubSeq(q, 1, h)) = h
         /\ \A i \in 1 .. h : SubSeq(q, 1, h)[i] = q[i]
<1> DEFINE p == SubSeq(q, 1, h)
<1>1. /\ p \in Seq(S)
      /\ Len(p) = IF 1 <= h THEN h - 1 + 1 ELSE 0
      /\ \A i \in 1 .. h - 1 + 1 : p[i] = q[1 + i - 1]
  BY SubSeqProperties
<1>2. h - 1 + 1 = h /\ \A i \in 1 .. h : 1 + i - 1 = i
  OBVIOUS
<1> HIDE DEF p
<1>3. Len(p) = h
  BY <1>1
<1>4. \A i \in 1 .. h : p[i] = q[i]
  BY <1>1, <1>2
<1>5. QED
  BY <1>1, <1>3, <1>4 DEF p

LEMMA PrefixAndOne ==
  ASSUME NEW S, NEW q, NEW h \in Nat, \A i \in 1 .. h : q[i] \in S, NEW y \in S,
         NEW r, r = Append(SubSeq(q, 1, h), y)
  PROVE  r \in Seq(S) /\ Len(r) = h + 1 /\ (\A i \in 1 .. h : r[i] = q[i]) /\ r[h + 1] = y
<1> DEFINE p == SubSeq(q, 1, h)
<1>1. p \in Seq(S) /\ Len(p) = h /\ \A i \in 1 .. h : p[i] = q[i]
  BY PrefixIs
<1>2. r = Append(p, y)
  OBVIOUS
<1> HIDE DEF p
<1>3. /\ Append(p, y) \in Seq(S) /\ Len(Append(p, y)) = Len(p) + 1
      /\ \A i \in 1 .. Len(p) : Append(p, y)[i] = p[i]
      /\ Append(p, y)[Len(p) + 1] = y
  BY <1>1, AppendProperties
<1>4. QED
  BY <1>1, <1>2, <1>3

LEMMA OneMore ==
  ASSUME NEW h \in Nat
  PROVE  1 .. h + 1 = 1 .. h \cup {h + 1}
OBVIOUS

LEMMA RangeAndOne ==
  ASSUME NEW h \in Nat, NEW q, NEW r, NEW y, \A i \in 1 .. h : r[i] = q[i], r[h + 1] = y
  PROVE  {r[i] : i \in 1 .. h + 1} = {q[i] : i \in 1 .. h} \cup {y}
<1>1. 1 .. h + 1 = 1 .. h \cup {h + 1}
  BY OneMore
<1>2. QED
  BY <1>1

(* What HybridAdd keeps of a sequence that ascends are the entries before the  *)
(* new one, and the sequence still ascends.                                   *)
Kept(q, t)         == Max({0} \cup {i \in DOMAIN q : q[i].time < t})
WithEntry(q, t, x) == Append(SubSeq(q, 1, Kept(q, t)), [time |-> t, state |-> x])

LEMMA HybridKeeps ==
  ASSUME NEW q \in Seq([time : Times, state : State]), Ascending(q), NEW t \in Times, NEW x \in State
  PROVE  /\ WithEntry(q, t, x) \in Seq([time : Times, state : State]) /\ Ascending(WithEntry(q, t, x))
         /\ {WithEntry(q, t, x)[i] : i \in 1 .. Len(WithEntry(q, t, x))} =
              {e \in {q[i] : i \in 1 .. Len(q)} : ~ t <= e.time} \cup {[time |-> t, state |-> x]}
<1> DEFINE E == [time : Times, state : State]
           y == [time |-> t, state |-> x]
           before == {i \in 1 .. Len(q) : q[i].time < t}
           h == Kept(q, t)
           r == WithEntry(q, t, x)
<1> HIDE DEF h, r
<1>1. Len(q) \in Nat /\ DOMAIN q = 1 .. Len(q) /\ \A i \in 1 .. Len(q) : q[i] \in E /\ q[i].time \in Nat
  <2>1. Len(q) \in Nat /\ DOMAIN q = 1 .. Len(q)
    BY LenProperties
  <2>2. \A i \in 1 .. Len(q) : q[i] \in E
    BY ElementOfSeq
  <2>3. QED
    BY <2>1, <2>2, InfinityIs DEF Times
<1>2. t \in Nat /\ y \in E
  BY InfinityIs DEF Times
<1>3. h \in {0} \cup before /\ \A i \in before : i <= h
  <2>1. {0} \cup before \in SUBSET (0 .. Len(q)) /\ {0} \cup before # {}
    BY <1>1
  <2>2. h = Max({0} \cup before)
    BY <1>1 DEF h, Kept
  <2> HIDE DEF before
  <2>3. QED
    BY <1>1, <2>1, <2>2, MaxIs
<1>4. h \in 0 .. Len(q)
  BY <1>1, <1>3
<1>5. \A i, j \in 1 .. Len(q) : i < j => q[i].time < q[j].time
  BY DEF Ascending
<1>6. \A i \in 1 .. h : i \in 1 .. Len(q) /\ q[i].time < t
  <2>1. SUFFICES ASSUME NEW i \in 1 .. h
                 PROVE  i \in 1 .. Len(q) /\ q[i].time < t
    OBVIOUS
  <2>2. i \in 1 .. Len(q) /\ h \in 1 .. Len(q) /\ (i < h \/ i = h) /\ h # 0
    BY <1>1, <1>4
  <2>3. q[h].time < t
    BY <1>3, <2>2
  <2>4. q[i].time \in Nat /\ q[h].time \in Nat
    BY <1>1, <2>2
  <2>5. QED
    BY <1>2, <1>5, <2>2, <2>3, <2>4
<1>7. \A i \in 1 .. Len(q) : i > h => t <= q[i].time
  BY <1>1, <1>2, <1>3, <1>4
<1>8. r \in Seq(E) /\ Len(r) = h + 1 /\ (\A i \in 1 .. h : r[i] = q[i]) /\ r[h + 1] = y
  <2>1. h \in Nat /\ \A i \in 1 .. h : q[i] \in E
    BY <1>1, <1>4, <1>6
  <2>2. r = Append(SubSeq(q, 1, h), y)
    BY DEF h, r, WithEntry
  <2> HIDE DEF E, y
  <2>3. QED
    BY <1>2, <2>1, <2>2, PrefixAndOne
<1> HIDE DEF y, E, before
<1>10. y.time = t
  BY DEF y
<1>11. Ascending(r)
  <2>1. SUFFICES ASSUME NEW i \in 1 .. h + 1, NEW j \in 1 .. h + 1, i < j
                 PROVE  r[i].time < r[j].time
    BY <1>8 DEF Ascending
  <2>2. i \in 1 .. h
    BY <1>4, <2>1
  <2>3. CASE j = h + 1
    BY <1>6, <1>8, <1>10, <2>2, <2>3
  <2>4. CASE j # h + 1
    <3>1. j \in 1 .. h
      BY <1>4, <2>4
    <3>2. QED
      BY <1>5, <1>6, <1>8, <2>1, <2>2, <3>1
  <2>5. QED
    BY <2>3, <2>4
<1>12. {r[i] : i \in 1 .. h + 1} = {q[i] : i \in 1 .. h} \cup {y}
  <2>1. h \in Nat
    BY <1>1, <1>4
  <2>2. QED
    BY <1>8, <2>1, RangeAndOne
<1>13. {q[i] : i \in 1 .. h} = {e \in {q[i] : i \in 1 .. Len(q)} : ~ t <= e.time}
  <2>1. \A i \in 1 .. h : i \in 1 .. Len(q) /\ ~ t <= q[i].time
    BY <1>1, <1>2, <1>6
  <2>2. \A i \in 1 .. Len(q) : ~ t <= q[i].time => i \in 1 .. h
    BY <1>1, <1>4, <1>7
  <2>3. QED
    BY <2>1, <2>2
<1>14. QED
  BY <1>8, <1>11, <1>12, <1>13 DEF E, y, r

(* Adding to a buffer puts the new entry in the place of those that its kind  *)
(* lets it replace.                                                           *)
LEMMA AddToBufferIs ==
  ASSUME NEW b, BufferOK(b), NEW t \in Times, NEW x \in State
  PROVE  /\ BufferOK(AddToBuffer(b, x, t)) /\ AddToBuffer(b, x, t).kind = b.kind
         /\ ToCome(AddToBuffer(b, x, t)) =
              {e \in ToCome(b) : ~Replaces(b.kind, t, e.time)}
                \cup {e \in {[time |-> t, state |-> x]} : t # Infinity}
<1> DEFINE p == AddToBuffer(b, x, t)
           y == [time |-> t, state |-> x]
<1>0. b = [kind |-> b.kind, last |-> b.last, scheduled |-> b.scheduled]
  BY DEF BufferOK
<1>1. ASSUME b.kind = "inertial"
      PROVE  BufferOK(p) /\ p.kind = b.kind
             /\ Entries(p) = {e \in Entries(b) : ~Replaces(b.kind, t, e.time)} \cup {y}
  <2>1. p = [kind |-> b.kind, last |-> x, scheduled |-> t]
    BY <1>0, <1>1 DEF AddToBuffer, InertialAdd
  <2>2. Entries(p) = {y}
    BY <1>1, <2>1 DEF Entries
  <2>3. \A e \in Entries(b) : Replaces(b.kind, t, e.time)
    BY <1>1 DEF Replaces
  <2>4. BufferOK(p) /\ p.kind = b.kind
    BY <1>1, <2>1 DEF BufferOK
  <2>5. QED
    BY <2>2, <2>3, <2>4
<1>2. ASSUME b.kind = "transport"
      PROVE  BufferOK(p) /\ p.kind = b.kind
             /\ Entries(p) = {e \in Entries(b) : ~Replaces(b.kind, t, e.time)} \cup {y}
  <2> DEFINE f == b.scheduled
             D == DOMAIN f
             g == [u \in D \cup {t} |-> IF u = t THEN x ELSE f[u]]
  <2>1. p = [kind |-> b.kind, last |-> b.last, scheduled |-> g]
    BY <1>0, <1>2 DEF AddToBuffer, TransportAdd
  <2>2. Entries(b) = {[time |-> u, state |-> f[u]] : u \in D}
    BY <1>2 DEF Entries
  <2>3. Entries(p) = {[time |-> u, state |-> g[u]] : u \in D \cup {t}}
    BY <1>2, <2>1 DEF Entries
  <2>4. \A e \in Entries(b) : Replaces(b.kind, t, e.time) <=> t = e.time
    BY <1>2 DEF Replaces
  <2>5. Entries(p) = {[time |-> u, state |-> f[u]] : u \in D \ {t}} \cup {y}
    BY <2>3
  <2>6. {[time |-> u, state |-> f[u]] : u \in D \ {t}} = {e \in Entries(b) : t # e.time}
    BY <2>2
  <2>7. BufferOK(p) /\ p.kind = b.kind
    BY <1>2, <2>1 DEF BufferOK
  <2>8. QED
    BY <2>4, <2>5, <2>6, <2>7
<1>3. ASSUME b.kind = "hybrid"
      PROVE  BufferOK(p) /\ p.kind = b.kind
             /\ Entries(p) = {e \in Entries(b) : ~Replaces(b.kind, t, e.time)} \cup {y}
  <2> DEFINE q == b.scheduled
             r == WithEntry(q, t, x)
  <2>1. p = [kind |-> b.kind, last |-> b.last, scheduled |-> r]
    BY <1>0, <1>3 DEF AddToBuffer, HybridAdd, WithEntry, Kept
  <2>2. q \in Seq([time : Times, state : State]) /\ Ascending(q)
    BY <1>3 DEF BufferOK
  <2>4. \A e \in Entries(b) : Replaces(b.kind, t, e.time) <=> t <= e.time
    BY <1>3 DEF Replaces
  <2>5. /\ r \in Seq([time : Times, state : State]) /\ Ascending(r)
        /\ {r[i] : i \in 1 .. Len(r)} =
             {e \in {q[i] : i \in 1 .. Len(q)} : ~ t <= e.time} \cup {[time |-> t, state |-> x]}
    <3> HIDE DEF q
    <3>1. QED
      BY <2>2, HybridKeeps
  <2>3. Entries(b) = {q[i] : i \in 1 .. Len(q)}
    BY <1>3 DEF Entries
  <2> HIDE DEF r, p, q
  <2>6. Entries(b) = {q[i] : i \in 1 .. Len(q)} /\ Entries(p) = {r[i] : i \in 1 .. Len(r)}
    BY <1>3, <2>1, <2>3 DEF Entries
  <2>7. BufferOK(p) /\ p.kind = b.kind
    BY <1>3, <2>1, <2>5 DEF BufferOK
  <2>8. QED
    BY <2>4, <2>5, <2>6, <2>7
<1>4. b.kind \in {"transport", "hybrid", "inertial"}
  BY DEF BufferOK
<1> HIDE DEF p
<1>5. BufferOK(p) /\ p.kind = b.kind
      /\ Entries(p) = {e \in Entries(b) : ~Replaces(b.kind, t, e.time)} \cup {y}
  BY <1>1, <1>2, <1>3, <1>4
<1>6. ToCome(p) = {e \in ToCome(b) : ~Replaces(b.kind, t, e.time)} \cup {e \in {y} : t # Infinity}
  BY <1>5 DEF ToCome
<1>7. QED
  BY <1>5, <1>6 DEF p
-----------------------------------------------------------------------------
(***************************************************************************)
(* Transmissions and changes are counted: of each state and time, a cell   *)
(* has transmitted or is to transmit as many as it has changes that no     *)
(* later one superseded.                                                   *)
(***************************************************************************)
Moments == [time : 0 .. Infinity - 1, state : State]

SentAs(sn, e) == {i \in 1 .. Len(sn) : sn[i] = e}

Lasting(kind, ch, e) == {k \in 1 .. Len(ch) : /\ ch[k].time = e.time /\ ch[k].state = e.state
                                             /\ ~Superseded(kind, ch, k)}

Balanced(b, sn, ch, e) ==
  Cardinality(SentAs(sn, e)) + Cardinality(ToCome(b) \cap {e}) = Cardinality(Lasting(b.kind, ch, e))

Tally(b, sn, ch, now) ==
  /\ BufferOK(b) /\ ToCome(b) \subseteq Moments
  /\ sn \in Seq(Moments) /\ \A i \in 1 .. Len(sn) : sn[i].time <= now
  /\ ch \in Seq([at : Int, time : Times, state : State])
  /\ \A e \in Moments : Balanced(b, sn, ch, e)

LEMMA OneOrNone ==
  ASSUME NEW e
  PROVE  Cardinality({e}) = 1 /\ Cardinality({}) = 0
BY FS_Singleton, FS_EmptySet

LEMMA SomeOf ==
  ASSUME NEW n \in Nat, NEW S \in SUBSET (1 .. n)
  PROVE  IsFiniteSet(S) /\ Cardinality(S) \in Nat /\ Cardinality(S \cup {n + 1}) = Cardinality(S) + 1
<1>1. IsFiniteSet(1 .. n)
  BY FS_Interval
<1>2. IsFiniteSet(S) /\ Cardinality(S) \in Nat
  BY <1>1, FS_Subset, FS_CardinalityType
<1>3. n + 1 \notin S
  OBVIOUS
<1>4. QED
  BY <1>2, <1>3, FS_AddElement

(* One more transmission.                                                     *)
LEMMA SentOneMore ==
  ASSUME NEW S, NEW sn \in Seq(S), NEW y \in S, NEW e
  PROVE  /\ Cardinality(SentAs(sn, e)) \in Nat
         /\ Cardinality(SentAs(Append(sn, y), e)) = Cardinality(SentAs(sn, e)) + (IF y = e THEN 1 ELSE 0)
<1> DEFINE n == Len(sn)
           r == Append(sn, y)
<1>1. n \in Nat /\ Len(r) = n + 1 /\ (\A i \in 1 .. n : r[i] = sn[i]) /\ r[n + 1] = y
  BY LenProperties, AppendProperties
<1>2. SentAs(sn, e) \in SUBSET (1 .. n)
  BY DEF SentAs
<1>3. SentAs(r, e) = SentAs(sn, e) \cup {i \in {n + 1} : y = e}
  <2> HIDE DEF r, n
  <2>1. 1 .. n + 1 = 1 .. n \cup {n + 1}
    BY <1>1, OneMore
  <2>2. SentAs(r, e) = {i \in 1 .. n + 1 : r[i] = e}
    BY <1>1 DEF SentAs
  <2>3. SentAs(sn, e) = {i \in 1 .. n : sn[i] = e}
    BY DEF SentAs, n
  <2>4. QED
    BY <1>1, <2>1, <2>2, <2>3
<1> HIDE DEF r, n
<1>4. /\ Cardinality(SentAs(sn, e)) \in Nat
      /\ Cardinality(SentAs(sn, e) \cup {n + 1}) = Cardinality(SentAs(sn, e)) + 1
  BY <1>1, <1>2, SomeOf
<1>5. CASE y = e
  <2>1. SentAs(r, e) = SentAs(sn, e) \cup {n + 1}
    BY <1>3, <1>5
  <2>2. QED
    BY <1>4, <1>5, <2>1 DEF r
<1>6. CASE y # e
  <2>1. SentAs(r, e) = SentAs(sn, e)
    BY <1>3, <1>6
  <2>2. QED
    BY <1>4, <1>6, <2>1 DEF r
<1>7. QED
  BY <1>5, <1>6

LEMMA RestOneMore ==
  ASSUME NEW n \in Nat, NEW k \in 1 .. n
  PROVE  k + 1 .. n + 1 = (k + 1 .. n) \cup {n + 1} /\ \A j \in k + 1 .. n : j \in 1 .. n
OBVIOUS

(* One more change, made at time now for time t.                               *)
OneMoreLasts(kind, now, t, x, ch, e) ==
  LET more == IF [time |-> t, state |-> x] = e THEN 1 ELSE 0
      r    == Append(ch, [at |-> now, time |-> t, state |-> x])
  IN  /\ Cardinality(Lasting(kind, ch, e)) \in Nat
      /\ Cardinality(Lasting(kind, r, e)) =
           IF now < e.time /\ Replaces(kind, t, e.time) THEN more
           ELSE Cardinality(Lasting(kind, ch, e)) + more

LEMMA LastingOneMore ==
  ASSUME NEW kind, NEW now \in Int, NEW t \in Times, NEW x \in State,
         NEW ch \in Seq([at : Int, time : Times, state : State]), NEW e \in Moments
  PROVE  OneMoreLasts(kind, now, t, x, ch, e)
<1> DEFINE E == [at : Int, time : Times, state : State]
           y == [at |-> now, time |-> t, state |-> x]
           n == Len(ch)
           r == Append(ch, y)
           gone == now < e.time /\ Replaces(kind, t, e.time)
           same == [time |-> t, state |-> x] = e
<1>1. n \in Nat /\ Len(r) = n + 1 /\ (\A i \in 1 .. n : r[i] = ch[i]) /\ r[n + 1] = y
  <2>1. y \in E
    OBVIOUS
  <2> HIDE DEF y, E
  <2>2. ch \in Seq(E)
    BY DEF E
  <2>3. QED
    BY <2>1, <2>2, LenProperties, AppendProperties
<1>2. y.at = now /\ y.time = t /\ y.state = x
  OBVIOUS
<1>3. Lasting(kind, ch, e) \in SUBSET (1 .. n)
  BY DEF Lasting
<1> HIDE DEF r, n, y
<1>4. ASSUME NEW k \in 1 .. n
      PROVE  Superseded(kind, r, k) <=> \/ Superseded(kind, ch, k)
                                        \/ now < ch[k].time /\ Replaces(kind, t, ch[k].time)
  <2>1. k + 1 .. n + 1 = (k + 1 .. n) \cup {n + 1} /\ \A j \in k + 1 .. n : j \in 1 .. n
    BY <1>1, RestOneMore
  <2>2. Superseded(kind, r, k) <=> \E j \in (k + 1 .. n) \cup {n + 1} :
                                     r[j].at < r[k].time /\ Replaces(kind, r[j].time, r[k].time)
    BY <1>1, <2>1 DEF Superseded
  <2>3. Superseded(kind, ch, k) <=> \E j \in k + 1 .. n :
                                     ch[j].at < ch[k].time /\ Replaces(kind, ch[j].time, ch[k].time)
    BY DEF Superseded, n
  <2>4. QED
    BY <1>1, <1>2, <2>1, <2>2, <2>3
<1>5. ~Superseded(kind, r, n + 1)
  <2>1. (n + 1) + 1 .. n + 1 = {}
    BY <1>1
  <2>2. QED
    BY <1>1, <2>1 DEF Superseded
<1>6. Lasting(kind, r, e) = {k \in Lasting(kind, ch, e) : ~gone} \cup {k \in {n + 1} : same}
  <2>1. 1 .. n + 1 = 1 .. n \cup {n + 1}
    BY <1>1, OneMore
  <2>2. Lasting(kind, r, e) = {k \in 1 .. n + 1 : /\ r[k].time = e.time /\ r[k].state = e.state
                                                   /\ ~Superseded(kind, r, k)}
    BY <1>1 DEF Lasting
  <2>3. Lasting(kind, ch, e) = {k \in 1 .. n : /\ ch[k].time = e.time /\ ch[k].state = e.state
                                                /\ ~Superseded(kind, ch, k)}
    BY DEF Lasting, n
  <2>4. same <=> t = e.time /\ x = e.state
    BY DEF Moments
  <2>5. \A k \in 1 .. n : k \in Lasting(kind, r, e) <=> k \in Lasting(kind, ch, e) /\ ~gone
    <3>1. SUFFICES ASSUME NEW k \in 1 .. n
                   PROVE  k \in Lasting(kind, r, e) <=> k \in Lasting(kind, ch, e) /\ ~gone
      OBVIOUS
    <3>2. k \in 1 .. n + 1 /\ r[k] = ch[k]
      BY <1>1, <2>1
    <3>3. k \in Lasting(kind, r, e) <=> /\ ch[k].time = e.time /\ ch[k].state = e.state
                                         /\ ~Superseded(kind, r, k)
      BY <2>2, <3>2
    <3>4. k \in Lasting(kind, ch, e) <=> /\ ch[k].time = e.time /\ ch[k].state = e.state
                                          /\ ~Superseded(kind, ch, k)
      BY <2>3
    <3>5. QED
      BY <1>4, <3>3, <3>4
  <2>6. n + 1 \in Lasting(kind, r, e) <=> same
    <3>1. n + 1 \in 1 .. n + 1
      BY <1>1
    <3>2. n + 1 \in Lasting(kind, r, e) <=> /\ r[n + 1].time = e.time /\ r[n + 1].state = e.state
                                             /\ ~Superseded(kind, r, n + 1)
      BY <2>2, <3>1
    <3>3. QED
      BY <1>1, <1>2, <1>5, <2>4, <3>2
  <2>7. Lasting(kind, r, e) \subseteq 1 .. n \cup {n + 1} /\ Lasting(kind, ch, e) \subseteq 1 .. n
    BY <2>1, <2>2, <2>3
  <2> HIDE DEF gone, same
  <2>8. QED
    BY <2>5, <2>6, <2>7
<1>7. /\ Cardinality(Lasting(kind, ch, e)) \in Nat
      /\ Cardinality(Lasting(kind, ch, e) \cup {n + 1}) = Cardinality(Lasting(kind, ch, e)) + 1
  BY <1>1, <1>3, SomeOf
<1>8. Cardinality(Lasting(kind, r, e)) =
        IF gone THEN IF same THEN 1 ELSE 0
        ELSE Cardinality(Lasting(kind, ch, e)) + (IF same THEN 1 ELSE 0)
  <2> HIDE DEF gone, same
  <2>1. CASE gone /\ same
    <3>1. Lasting(kind, r, e) = {n + 1}
      BY <1>6, <2>1
    <3>2. QED
      BY <2>1, <3>1, OneOrNone
  <2>2. CASE gone /\ ~same
    <3>1. Lasting(kind, r, e) = {}
      BY <1>6, <2>2
    <3>2. QED
      BY <2>2, <3>1, OneOrNone
  <2>3. CASE ~gone /\ same
    <3>1. Lasting(kind, r, e) = Lasting(kind, ch, e) \cup {n + 1}
      BY <1>6, <2>3
    <3>2. QED
      BY <1>7, <2>3, <3>1
  <2>4. CASE ~gone /\ ~same
    <3>1. Lasting(kind, r, e) = Lasting(kind, ch, e)
      BY <1>6, <2>4
    <3>2. QED
      BY <1>7, <2>4, <3>1
  <2>5. QED
    BY <2>1, <2>2, <2>3, <2>4
<1>9. QED
  BY <1>7, <1>8 DEF OneMoreLasts, r, y

(* After a buffer is popped, what is next is later.                           *)
LEMMA PoppedIsLater ==
  ASSUME NEW b, BufferOK(b), NextTimeout(b) # Infinity
  PROVE  NextTimeout(PopBuffer(b)) > NextTimeout(b)
<1> DEFINE p == PopBuffer(b)
<1>1. BufferOK(p) /\ ToCome(p) = ToCome(b) \ {NextEntry(b)}
  BY PopBufferIs
<1>2. /\ NextTimeout(b) \in Nat /\ NextTimeout(b) <= Infinity /\ NextEntry(b) \in ToCome(b)
      /\ \A x \in ToCome(b) : NextTimeout(b) <= x.time
      /\ \A x, y \in ToCome(b) : x.time = y.time => x = y
  BY TimeoutIs, InfinityIs DEF Times
<1> HIDE DEF p
<1>3. NextTimeout(p) \in Nat /\ (NextTimeout(p) # Infinity => NextEntry(p) \in ToCome(p))
  BY <1>1, TimeoutIs, InfinityIs DEF Times
<1>4. NextEntry(p).time = NextTimeout(p) /\ NextEntry(b).time = NextTimeout(b)
  BY DEF NextEntry
<1>5. CASE NextTimeout(p) = Infinity
  BY <1>2, <1>3, <1>5, InfinityIs DEF p
<1>6. CASE NextTimeout(p) # Infinity
  <2>1. NextEntry(p) \in ToCome(b) /\ NextEntry(p) # NextEntry(b)
    BY <1>1, <1>3, <1>6
  <2>2. NextTimeout(b) <= NextTimeout(p) /\ NextTimeout(p) # NextTimeout(b)
    BY <1>2, <1>4, <2>1
  <2>3. QED
    BY <1>2, <1>3, <2>2 DEF p
<1>7. QED
  BY <1>5, <1>6

(* A cell transmits what is next.                                             *)
LEMMA SendTally ==
  ASSUME NEW b, NEW sn, NEW ch, NEW now \in Nat, Tally(b, sn, ch, now),
         NextTimeout(b) # Infinity, now <= NextTimeout(b)
  PROVE  Tally(PopBuffer(b), Append(sn, NextEntry(b)), ch, NextTimeout(b))
<1> DEFINE p == PopBuffer(b)
           y == NextEntry(b)
           t == NextTimeout(b)
           r == Append(sn, y)
<1>1. BufferOK(b) /\ ToCome(b) \subseteq Moments /\ sn \in Seq(Moments)
      /\ ch \in Seq([at : Int, time : Times, state : State])
      /\ (\A i \in 1 .. Len(sn) : sn[i].time <= now)
      /\ \A e \in Moments : Balanced(b, sn, ch, e)
  BY DEF Tally
<1>2. BufferOK(p) /\ p.kind = b.kind /\ ToCome(p) = ToCome(b) \ {y}
  BY <1>1, PopBufferIs
<1>3. y \in ToCome(b) /\ y \in Moments /\ y.time = t /\ t \in Nat
  <2>1. t \in Times /\ y \in ToCome(b)
    BY <1>1, TimeoutIs
  <2>2. y.time = t
    BY DEF NextEntry
  <2>3. QED
    BY <1>1, <2>1, <2>2, InfinityIs DEF Times
<1>4. r \in Seq(Moments) /\ Len(r) = Len(sn) + 1 /\ (\A i \in 1 .. Len(sn) : r[i] = sn[i])
      /\ r[Len(sn) + 1] = y /\ Len(sn) \in Nat
  BY <1>1, <1>3, LenProperties, AppendProperties
<1> HIDE DEF p, y, t, r
<1>5. \A i \in 1 .. Len(r) : r[i].time <= t
  <2>1. \A i \in 1 .. Len(sn) : sn[i].time \in Nat
    <3>1. \A i \in 1 .. Len(sn) : sn[i] \in Moments
      BY <1>1, ElementOfSeq
    <3>2. QED
      BY <3>1, InfinityIs DEF Moments
  <2>2. now <= t
    BY DEF t
  <2>3. ASSUME NEW i \in 1 .. Len(r)
        PROVE  r[i].time <= t
    <3>1. CASE i \in 1 .. Len(sn)
      <4>1. r[i] = sn[i] /\ sn[i].time <= now /\ sn[i].time \in Nat
        BY <1>1, <1>4, <2>1, <3>1
      <4>2. QED
        BY <1>3, <2>2, <4>1
    <3>2. CASE i = Len(sn) + 1
      BY <1>3, <1>4, <3>2
    <3>3. i \in 1 .. Len(sn) \/ i = Len(sn) + 1
      BY <1>4
    <3>4. QED
      BY <3>1, <3>2, <3>3
  <2>4. QED
    BY <2>3
<1>6. ASSUME NEW e \in Moments
      PROVE  Balanced(p, r, ch, e)
  <2>1. /\ Cardinality(SentAs(sn, e)) \in Nat
        /\ Cardinality(SentAs(r, e)) = Cardinality(SentAs(sn, e)) + (IF y = e THEN 1 ELSE 0)
    BY <1>1, <1>3, SentOneMore DEF r
  <2>2. Cardinality(SentAs(sn, e)) + Cardinality(ToCome(b) \cap {e}) = Cardinality(Lasting(b.kind, ch, e))
    BY <1>1 DEF Balanced
  <2>3. CASE y = e
    <3>1. ToCome(b) \cap {e} = {e} /\ ToCome(p) \cap {e} = {}
      BY <1>2, <1>3, <2>3
    <3>2. Cardinality(ToCome(b) \cap {e}) = 1 /\ Cardinality(ToCome(p) \cap {e}) = 0
      BY <3>1, OneOrNone
    <3>3. Cardinality(SentAs(r, e)) + 0 = Cardinality(SentAs(sn, e)) + 1
      BY <2>1, <2>3
    <3>4. QED
      BY <1>2, <2>2, <3>2, <3>3 DEF Balanced
  <2>4. CASE y # e
    <3>1. ToCome(p) \cap {e} = ToCome(b) \cap {e}
      BY <1>2, <2>4
    <3>2. Cardinality(SentAs(r, e)) = Cardinality(SentAs(sn, e))
      BY <2>1, <2>4
    <3>3. QED
      BY <1>2, <2>2, <3>1, <3>2 DEF Balanced
  <2>5. QED
    BY <2>3, <2>4
<1>7. QED
  BY <1>1, <1>2, <1>4, <1>5, <1>6 DEF Tally, p, y, t, r

(* A cell changes when what it has scheduled is for later.                    *)
LEMMA ChangeTally ==
  ASSUME NEW b, NEW sn, NEW ch, NEW now \in Int, Tally(b, sn, ch, now), NextTimeout(b) > now,
         NEW t \in Times, NEW x \in State
  PROVE  Tally(AddToBuffer(b, x, t), sn, Append(ch, [at |-> now, time |-> t, state |-> x]), now)
<1> DEFINE p == AddToBuffer(b, x, t)
           y == [time |-> t, state |-> x]
           z == [at |-> now, time |-> t, state |-> x]
           r == Append(ch, z)
           C == [at : Int, time : Times, state : State]
<1>1. BufferOK(b) /\ ToCome(b) \subseteq Moments /\ sn \in Seq(Moments) /\ ch \in Seq(C)
      /\ (\A i \in 1 .. Len(sn) : sn[i].time <= now)
      /\ \A e \in Moments : Balanced(b, sn, ch, e)
  BY DEF Tally
<1>2. BufferOK(p) /\ p.kind = b.kind
      /\ ToCome(p) = {e \in ToCome(b) : ~Replaces(b.kind, t, e.time)} \cup {e \in {y} : t # Infinity}
  BY <1>1, AddToBufferIs
<1>3. r \in Seq(C)
  <2>1. z \in C
    OBVIOUS
  <2> HIDE DEF z, C
  <2>2. QED
    BY <1>1, <2>1, AppendProperties
<1>4. y \in [time : Times, state : State] /\ y.time = t /\ (t # Infinity => y \in Moments)
  BY InfinityIs DEF Moments, Times
<1>5. ASSUME NEW e \in ToCome(b)
      PROVE  now < e.time
  <2>1. NextTimeout(b) <= e.time /\ NextTimeout(b) \in Nat /\ e.time \in Nat
    BY <1>1, TimeoutIs, InfinityIs DEF Moments, Times
  <2>2. QED
    BY <2>1
<1>6. ASSUME NEW e \in Moments
      PROVE  Balanced(p, sn, r, e)
  <2> DEFINE same == y = e
             more == IF same THEN 1 ELSE 0
             gone == now < e.time /\ Replaces(b.kind, t, e.time)
  <2>1. /\ Cardinality(Lasting(b.kind, ch, e)) \in Nat
        /\ Cardinality(Lasting(b.kind, r, e)) =
             IF gone THEN more ELSE Cardinality(Lasting(b.kind, ch, e)) + more
    <3>1. now \in Int /\ ch \in Seq([at : Int, time : Times, state : State])
      BY <1>1
    <3>2. OneMoreLasts(b.kind, now, t, x, ch, e)
      BY <3>1, LastingOneMore
    <3>3. QED
      BY <3>2 DEF OneMoreLasts
  <2>2. Cardinality(SentAs(sn, e)) + Cardinality(ToCome(b) \cap {e}) = Cardinality(Lasting(b.kind, ch, e))
    BY <1>1 DEF Balanced
  <2>3. Cardinality(SentAs(sn, e)) \in Nat
    BY <1>1, SentOneMore
  <2>4. e.time \in Nat /\ e.time # Infinity /\ (same => t = e.time)
    BY <1>4, InfinityIs DEF Moments
  <2>5. same => Replaces(b.kind, t, e.time)
    <3>1. b.kind \in {"transport", "hybrid", "inertial"}
      BY <1>1 DEF BufferOK
    <3>2. QED
      BY <2>4, <3>1 DEF Replaces
  <2>6. e \in ToCome(p) <=> (e \in ToCome(b) /\ ~Replaces(b.kind, t, e.time)) \/ same
    BY <1>2, <2>4
  <2>7. Cardinality(ToCome(p) \cap {e}) = IF e \in ToCome(p) THEN 1 ELSE 0
    <3>1. ToCome(p) \cap {e} = IF e \in ToCome(p) THEN {e} ELSE {}
      OBVIOUS
    <3>2. QED
      BY <3>1, OneOrNone
  <2>8. Cardinality(ToCome(b) \cap {e}) = IF e \in ToCome(b) THEN 1 ELSE 0
    <3>1. ToCome(b) \cap {e} = IF e \in ToCome(b) THEN {e} ELSE {}
      OBVIOUS
    <3>2. QED
      BY <3>1, OneOrNone
  <2>9. e \in ToCome(b) => now < e.time
    BY <1>5
  <2>10. now < e.time => Cardinality(SentAs(sn, e)) = 0
    <3>1. ASSUME now < e.time
          PROVE  SentAs(sn, e) = {}
      <4>1. SUFFICES ASSUME NEW i \in 1 .. Len(sn), sn[i] = e
                     PROVE  FALSE
        BY DEF SentAs
      <4>2. e.time <= now
        BY <1>1, <4>1
      <4>3. QED
        BY <2>4, <3>1, <4>2
    <3>2. QED
      BY <3>1, OneOrNone
  <2> HIDE DEF p, r, y, z, C, same
  <2>11. Cardinality(SentAs(sn, e)) + Cardinality(ToCome(p) \cap {e}) = Cardinality(Lasting(b.kind, r, e))
    <3>1. CASE gone
      <4>1. Cardinality(Lasting(b.kind, r, e)) = more /\ Cardinality(SentAs(sn, e)) = 0
        BY <2>1, <2>10, <3>1
      <4>2. Cardinality(ToCome(p) \cap {e}) = more
        BY <2>6, <2>7, <3>1
      <4>3. more \in Nat
        OBVIOUS
      <4>4. QED
        BY <4>1, <4>2, <4>3
    <3>2. CASE ~gone /\ now < e.time
      <4>1. ~same /\ more = 0
        BY <2>5, <3>2
      <4>2. Cardinality(ToCome(p) \cap {e}) = Cardinality(ToCome(b) \cap {e})
        BY <2>6, <2>7, <2>8, <3>2, <4>1
      <4>3. Cardinality(Lasting(b.kind, r, e)) = Cardinality(Lasting(b.kind, ch, e))
        BY <2>1, <3>2, <4>1
      <4>4. QED
        BY <2>2, <4>2, <4>3
    <3>3. CASE ~(now < e.time)
      <4>1. Cardinality(ToCome(b) \cap {e}) = 0 /\ Cardinality(ToCome(p) \cap {e}) = more
        BY <2>6, <2>7, <2>8, <2>9, <3>3
      <4>2. Cardinality(Lasting(b.kind, r, e)) = Cardinality(Lasting(b.kind, ch, e)) + more
        BY <2>1, <3>3
      <4>3. Cardinality(SentAs(sn, e)) = Cardinality(Lasting(b.kind, ch, e))
        BY <2>2, <2>3, <4>1
      <4>4. QED
        BY <4>1, <4>2, <4>3
    <3>4. QED
      BY <3>1, <3>2, <3>3
  <2>12. QED
    BY <1>2, <2>11 DEF Balanced
<1>7. ToCome(p) \subseteq Moments
  BY <1>1, <1>2, <1>4
<1>8. QED
  <2> HIDE DEF p, r, z
  <2>1. Tally(p, sn, r, now)
    BY <1>1, <1>2, <1>3, <1>6, <1>7 DEF Tally
  <2>2. QED
    BY <2>1 DEF p, r, z
-----------------------------------------------------------------------------
(***************************************************************************)
(* The invariant of a cell that has transmitted sn and changed as ch says  *)
(* until now.                                                              *)
(***************************************************************************)
CellOK(x, sn, ch, now) ==
  /\ x = [ clock |-> x.clock, next_internal |-> x.next_internal, current |-> x.current,
           neighbors |-> x.neighbors, buffer |-> x.buffer ]
  /\ Tally(x.buffer, sn, ch, now)
  /\ x.clock \in Nat /\ x.clock <= now
  /\ x.next_internal = TimeLeft(NextTimeout(x.buffer), x.clock)
  /\ now <= NextTimeout(x.buffer)

(* The engine finds a cell due when its buffer has something to transmit.      *)
LEMMA DueWithBuffer ==
  ASSUME NEW x, NEW sn, NEW ch, NEW now \in Nat, now < Infinity, CellOK(x, sn, ch, now)
  PROVE  Later(x.clock, TimeAdvance(x)) = NextTimeout(x.buffer) /\ NextTimeout(x.buffer) \in Times
<1> DEFINE t == NextTimeout(x.buffer)
<1>1. t \in Times
  BY TimeoutIs DEF CellOK, Tally
<1>2. x.clock \in Nat /\ x.clock < Infinity /\ x.next_internal = TimeLeft(t, x.clock)
  BY InfinityIs DEF CellOK
<1> HIDE DEF t
<1>3. t \in Nat /\ t <= Infinity
  BY <1>1, InfinityIs DEF Times
<1>4. CASE t = Infinity
  <2>1. x.next_internal = Infinity
    BY <1>2, <1>4 DEF TimeLeft
  <2>2. QED
    BY <1>1, <1>4, <2>1 DEF Later, TimeAdvance, t
<1>5. CASE t # Infinity
  <2>1. x.next_internal = t - x.clock /\ x.next_internal # Infinity /\ x.clock # Infinity
    BY <1>2, <1>3, <1>5, InfinityIs DEF TimeLeft
  <2>2. x.clock + (t - x.clock) = t
    BY <1>2, <1>3
  <2>3. QED
    BY <1>1, <2>1, <2>2 DEF Later, TimeAdvance, t
<1>6. QED
  BY <1>1, <1>4, <1>5 DEF t

(* A cell that is due, and one that is not, as time passes.                   *)
LEMMA InternalOK ==
  ASSUME NEW x, NEW sn, NEW ch, NEW now \in Nat, now < Infinity, CellOK(x, sn, ch, now),
         NextTimeout(x.buffer) # Infinity
  PROVE  /\ CellOK(InternalTransition(x),
                   Append(sn, [time |-> NextTimeout(x.buffer), state |-> Output(x)]),
                   ch, NextTimeout(x.buffer))
         /\ NextTimeout(InternalTransition(x).buffer) > NextTimeout(x.buffer)
         /\ InternalTransition(x).current = x.current
         /\ InternalTransition(x).clock = NextTimeout(x.buffer)
         /\ InternalTransition(x).neighbors = x.neighbors
<1> DEFINE b == x.buffer
           p == PopBuffer(b)
           t == NextTimeout(b)
           y == InternalTransition(x)
<1>1. /\ x = [ clock |-> x.clock, next_internal |-> x.next_internal, current |-> x.current,
               neighbors |-> x.neighbors, buffer |-> x.buffer ]
      /\ Tally(b, sn, ch, now) /\ x.clock \in Nat /\ x.clock <= now /\ now <= t
      /\ x.next_internal = TimeLeft(t, x.clock)
  BY DEF CellOK
<1>2. BufferOK(b)
  BY <1>1 DEF Tally
<1>3. t \in Nat /\ t # Infinity
  BY <1>2, TimeoutIs, InfinityIs DEF Times
<1>4. Tally(p, Append(sn, NextEntry(b)), ch, t)
  BY <1>1, SendTally
<1>5. NextTimeout(p) > t
  BY <1>2, PoppedIsLater
<1>6. NextTimeout(p) \in Nat
  <2>1. BufferOK(p)
    BY <1>4 DEF Tally
  <2>2. QED
    BY <2>1, TimeoutIs, InfinityIs DEF Times
<1>7. NextEntry(b) = [time |-> t, state |-> Output(x)]
  BY DEF NextEntry, Output
<1> HIDE DEF t, b, p
<1>8. x.clock + TimeAdvance(x) = t
  BY <1>1, <1>3 DEF TimeAdvance, TimeLeft
<1>9. y = [ clock |-> t, next_internal |-> TimeLeft(NextTimeout(p), t), current |-> x.current,
            neighbors |-> x.neighbors, buffer |-> p ]
  <2>1. y = [x EXCEPT !.buffer = p, !.clock = t, !.next_internal = TimeLeft(NextTimeout(p), t)]
    BY <1>8 DEF InternalTransition, p, b
  <2> HIDE DEF y
  <2>2. QED
    BY <1>1, <2>1
<1> HIDE DEF y
<1>10. t <= NextTimeout(p) /\ t <= t
  BY <1>3, <1>5, <1>6
<1>11. CellOK(y, Append(sn, NextEntry(b)), ch, t)
  BY <1>3, <1>4, <1>9, <1>10 DEF CellOK
<1>12. QED
  BY <1>5, <1>7, <1>9, <1>11 DEF y, t, b

LEMMA WaitsOK ==
  ASSUME NEW x, NEW sn, NEW ch, NEW now \in Nat, CellOK(x, sn, ch, now),
         NEW t \in Nat, now <= t, t <= NextTimeout(x.buffer)
  PROVE  CellOK(x, sn, ch, t)
<1>1. Tally(x.buffer, sn, ch, t)
  <2>1. ASSUME NEW i \in 1 .. Len(sn)
        PROVE  sn[i].time <= t
    <3>1. sn \in Seq(Moments) /\ sn[i].time <= now
      BY DEF CellOK, Tally
    <3>2. sn[i].time \in Nat
      <4>1. sn[i] \in Moments
        BY <3>1, ElementOfSeq
      <4>2. QED
        BY <4>1, InfinityIs DEF Moments
    <3>3. QED
      BY <3>1, <3>2
  <2>2. QED
    BY <2>1 DEF CellOK, Tally
<1>2. x.clock \in Nat /\ x.clock <= t
  BY DEF CellOK
<1>3. QED
  BY <1>1, <1>2 DEF CellOK

(* A cell that receives something and has nothing due.                        *)
LEMMA ExternalOK ==
  ASSUME NEW x, NEW sn, NEW ch, NEW t \in Nat, t < Infinity, CellOK(x, sn, ch, t),
         t < NextTimeout(x.buffer), NEW e, e = t - x.clock, NEW bag, NEW next, NEW delay,
         next # x.current => next \in State /\ Later(t, delay) \in Times /\ t <= Later(t, delay)
  PROVE  CellOK(ExternalTransition(x, e, bag, next, delay), sn,
                IF next # x.current
                THEN Append(ch, [at |-> t, time |-> Later(t, delay), state |-> next]) ELSE ch,
                t)
<1> DEFINE b == x.buffer
           y == ExternalTransition(x, e, bag, next, delay)
           u == NextTimeout(b)
<1>1. /\ Tally(b, sn, ch, t) /\ x.clock \in Nat /\ x.clock <= t
      /\ x.next_internal = TimeLeft(u, x.clock)
  BY DEF CellOK
<1>2. x.clock + e = t
  BY <1>1
<1>3. u \in Nat /\ u <= Infinity
  BY <1>1, TimeoutIs, InfinityIs DEF Tally, Times
<1>4. CASE next # x.current
  <2> DEFINE p == AddToBuffer(b, next, Later(t, delay))
             c == Append(ch, [at |-> t, time |-> Later(t, delay), state |-> next])
  <2>1. y = [ clock |-> t, next_internal |-> TimeLeft(NextTimeout(p), t), current |-> next,
              neighbors |-> Refreshed(x.neighbors, bag), buffer |-> p ]
    BY <1>2, <1>4 DEF ExternalTransition
  <2>2. Tally(p, sn, c, t)
    BY <1>1, <1>4, ChangeTally
  <2>3. t <= NextTimeout(p)
    <3>1. BufferOK(p) /\ BufferOK(b)
      BY <1>1, <2>2 DEF Tally
    <3>2. NextTimeout(p) \in Times /\ (NextTimeout(p) # Infinity => NextEntry(p) \in ToCome(p))
      BY <3>1, TimeoutIs
    <3>3. \A z \in ToCome(p) : z \in ToCome(b) \/ z.time = Later(t, delay)
      <4>1. ToCome(p) = {z \in ToCome(b) : ~Replaces(b.kind, Later(t, delay), z.time)}
                          \cup {z \in {[time |-> Later(t, delay), state |-> next]} : Later(t, delay) # Infinity}
        BY <1>4, <3>1, AddToBufferIs
      <4> HIDE DEF p
      <4>2. QED
        BY <4>1
    <3>4. \A z \in ToCome(b) : u <= z.time
      BY <3>1, TimeoutIs
    <3>5. NextEntry(p).time = NextTimeout(p)
      BY DEF NextEntry
    <3> HIDE DEF p, u
    <3>6. CASE NextTimeout(p) = Infinity
      BY <3>6, InfinityIs
    <3>7. CASE NextTimeout(p) # Infinity
      <4>1. NextTimeout(p) \in Nat
        BY <3>2, InfinityIs DEF Times
      <4>2. u <= NextTimeout(p) \/ NextTimeout(p) = Later(t, delay)
        BY <3>2, <3>3, <3>4, <3>5, <3>7
      <4>3. t < u
        BY DEF u
      <4>4. QED
        BY <1>3, <1>4, <4>1, <4>2, <4>3
    <3>8. QED
      BY <3>6, <3>7
  <2> HIDE DEF y, p, c
  <2>4. t <= t
    OBVIOUS
  <2>5. CellOK(y, sn, c, t)
    BY <2>1, <2>2, <2>3, <2>4 DEF CellOK
  <2>6. QED
    BY <1>4, <2>5 DEF y, c
<1>5. CASE next = x.current
  <2>1. y = [ clock |-> t, next_internal |-> TimeLeft(x.next_internal, e), current |-> next,
              neighbors |-> Refreshed(x.neighbors, bag), buffer |-> b ]
    BY <1>2, <1>5 DEF ExternalTransition
  <2> HIDE DEF y, b, u
  <2>2. TimeLeft(x.next_internal, e) = TimeLeft(u, t)
    <3>1. CASE u = Infinity
      BY <1>1, <3>1 DEF TimeLeft
    <3>2. CASE u # Infinity
      <4>1. x.next_internal = u - x.clock /\ x.next_internal # Infinity
        BY <1>1, <1>3, <3>2, InfinityIs DEF TimeLeft
      <4>2. u - x.clock - (t - x.clock) = u - t
        BY <1>1, <1>3
      <4>3. QED
        BY <3>2, <4>1, <4>2 DEF TimeLeft
    <3>3. QED
      BY <3>1, <3>2
  <2>3. t <= t /\ t <= u
    BY <1>3 DEF u, b
  <2>4. CellOK(y, sn, ch, t)
    BY <1>1, <2>1, <2>2, <2>3 DEF CellOK, u, b
  <2>5. QED
    BY <1>5, <2>4 DEF y
<1>6. QED
  BY <1>4, <1>5

(* A cell at the start.                                                       *)
LEMMA NewCellOK ==
  ASSUME NEW ns, NEW x \in State, NEW kind \in {"transport", "hybrid", "inertial"}
  PROVE  CellOK(NewCell(ns, x, kind), <<>>, <<[at |-> -1, time |-> 0, state |-> x]>>, 0)
<1> DEFINE b == NewBuffer(kind)
           p == AddToBuffer(b, x, 0)
           z == [at |-> -1, time |-> 0, state |-> x]
           y == NewCell(ns, x, kind)
<1>1. BufferOK(b) /\ ToCome(b) = {} /\ NextTimeout(b) = Infinity
  <2>1. CASE kind = "transport"
    <3>1. b = [kind |-> kind, last |-> NoState, scheduled |-> <<>>]
      BY <2>1 DEF NewBuffer
    <3>2. BufferOK(b)
      BY <2>1, <3>1 DEF BufferOK
    <3>3. Entries(b) = {}
      BY <2>1, <3>1 DEF Entries
    <3>4. NextTimeout(b) = Infinity
      BY <2>1, <3>1 DEF NextTimeout, Idle
    <3>5. QED
      BY <3>2, <3>3, <3>4 DEF ToCome
  <2>2. CASE kind = "hybrid"
    <3>1. b = [kind |-> kind, last |-> NoState, scheduled |-> <<>>]
      BY <2>2 DEF NewBuffer
    <3>2. BufferOK(b)
      BY <2>2, <3>1 DEF BufferOK, Ascending
    <3>3. Entries(b) = {}
      BY <2>2, <3>1 DEF Entries
    <3>4. NextTimeout(b) = Infinity
      BY <2>2, <3>1 DEF NextTimeout, Idle
    <3>5. QED
      BY <3>2, <3>3, <3>4 DEF ToCome
  <2>3. CASE kind = "inertial"
    <3>1. b = [kind |-> kind, last |-> NoState, scheduled |-> Infinity]
      BY <2>3 DEF NewBuffer
    <3>2. BufferOK(b)
      BY <2>3, <3>1, InfinityIs DEF BufferOK, Times
    <3>3. Entries(b) = {[time |-> Infinity, state |-> NoState]}
      BY <2>3, <3>1 DEF Entries
    <3>4. NextTimeout(b) = Infinity
      BY <2>3, <3>1 DEF NextTimeout, Idle
    <3>5. QED
      BY <3>2, <3>3, <3>4 DEF ToCome
  <2>4. QED
    BY <2>1, <2>2, <2>3
<1> HIDE DEF b
<1>2. Tally(b, <<>>, <<>>, -1)
  <2>1. ASSUME NEW e \in Moments
        PROVE  Balanced(b, <<>>, <<>>, e)
    <3>1. SentAs(<<>>, e) = {} /\ Lasting(b.kind, <<>>, e) = {} /\ ToCome(b) \cap {e} = {}
      BY <1>1 DEF SentAs, Lasting
    <3>2. Cardinality({}) = 0
      BY FS_EmptySet
    <3>3. /\ Cardinality(SentAs(<<>>, e)) = 0 /\ Cardinality(Lasting(b.kind, <<>>, e)) = 0
          /\ Cardinality(ToCome(b) \cap {e}) = 0
      BY <3>1, <3>2
    <3>4. 0 + 0 = 0
      OBVIOUS
    <3>5. QED
      BY <3>3, <3>4, Zenon DEF Balanced
  <2>2. <<>> \in Seq(Moments) /\ <<>> \in Seq([at : Int, time : Times, state : State]) /\ Len(<<>>) = 0
    OBVIOUS
  <2>3. QED
    BY <1>1, <2>1, <2>2 DEF Tally
<1>3. Tally(p, <<>>, Append(<<>>, z), -1)
  <2>1. -1 \in Int /\ NextTimeout(b) > -1 /\ 0 \in Times
    BY <1>1, InfinityIs DEF Times
  <2>2. QED
    BY <1>2, <2>1, ChangeTally
<1>4. Append(<<>>, z) = <<z>>
  OBVIOUS
<1>5. Tally(p, <<>>, <<z>>, 0)
  <2> HIDE DEF p, z
  <2>1. Tally(p, <<>>, <<z>>, -1) /\ Len(<<>>) = 0
    BY <1>3, <1>4
  <2>2. QED
    BY <2>1 DEF Tally
<1>6. NextTimeout(p) = 0
  <2>1. BufferOK(p) /\ ToCome(p) \subseteq {[time |-> 0, state |-> x]} /\ [time |-> 0, state |-> x] \in ToCome(p)
    <3>1. 0 \in Times /\ 0 # Infinity
      BY InfinityIs DEF Times
    <3>2. BufferOK(p) /\ ToCome(p) = {e \in ToCome(b) : ~Replaces(b.kind, 0, e.time)}
                            \cup {e \in {[time |-> 0, state |-> x]} : 0 # Infinity}
      BY <1>1, <3>1, AddToBufferIs
    <3> HIDE DEF p
    <3>3. QED
      BY <1>1, <3>1, <3>2
  <2> HIDE DEF p
  <2>2. NextTimeout(p) \in Times /\ \A e \in ToCome(p) : NextTimeout(p) <= e.time
    BY <2>1, TimeoutIs
  <2>3. NextTimeout(p) <= 0 /\ NextTimeout(p) \in Nat
    BY <2>1, <2>2, InfinityIs DEF Times
  <2>4. QED
    BY <2>3
<1>7. y = [clock |-> 0, next_internal |-> 0, current |-> x, neighbors |-> [n \in ns |-> NoState], buffer |-> p]
  BY DEF NewCell, b
<1> HIDE DEF y, p, z
<1>8. TimeLeft(0, 0) = 0
  BY InfinityIs DEF TimeLeft
<1>9. CellOK(y, <<>>, <<z>>, 0)
  BY <1>5, <1>6, <1>7, <1>8 DEF CellOK
<1>10. QED
  BY <1>9 DEF y, z
-----------------------------------------------------------------------------
(***************************************************************************)
(* The invariant of the cell space.                                        *)
(***************************************************************************)
CellsOK ==
  /\ time \in Nat /\ time < Infinity
  /\ \A c \in Cell : CellOK(cell[c], sent[c], changes[c], time)

LEMMA CellsStart ==
  ASSUME Init
  PROVE  CellsOK
<1>1. PICK kind \in [Cell -> Kinds], initial \in [Cell -> State] :
        /\ cell = [c \in Cell |-> NewCell(Neighbors[c], initial[c], kind[c])]
        /\ changes = [c \in Cell |-> <<[at |-> -1, time |-> 0, state |-> initial[c]]>>]
  BY DEF Init
<1>2. ASSUME NEW c \in Cell
      PROVE  CellOK(cell[c], sent[c], changes[c], 0)
  <2>1. /\ cell[c] = NewCell(Neighbors[c], initial[c], kind[c])
        /\ changes[c] = <<[at |-> -1, time |-> 0, state |-> initial[c]]>> /\ sent[c] = <<>>
    BY <1>1 DEF Init
  <2>2. initial[c] \in State /\ kind[c] \in {"transport", "hybrid", "inertial"}
    BY CellAssumption
  <2>3. CellOK(NewCell(Neighbors[c], initial[c], kind[c]), <<>>,
               <<[at |-> -1, time |-> 0, state |-> initial[c]]>>, 0)
    BY <2>2, NewCellOK
  <2>4. QED
    BY <2>1, <2>3
<1>3. time = 0 /\ 0 < Infinity
  BY InfinityIs DEF Init
<1>4. QED
  BY <1>2, <1>3 DEF CellsOK

(* What a delay may schedule.                                                 *)
LEMMA LaterIs ==
  ASSUME NEW t \in Nat, t < Limit, NEW d \in Delays
  PROVE  Later(t, d) \in Times /\ t <= Later(t, d)
<1>1. Limit \in Nat /\ Limit <= Infinity /\ Infinity \in Nat
  BY InfinityIs DEF Times
<1>2. CASE d = Infinity
  BY <1>1, <1>2 DEF Later, Times
<1>3. CASE d # Infinity
  <2>1. d \in Nat /\ Limit + d <= Infinity
    BY <1>3, CellAssumption
  <2>2. Later(t, d) = t + d /\ t + d \in Times /\ t <= t + d
    BY <1>1, <1>3, <2>1 DEF Later, Times
  <2>3. QED
    BY <2>2
<1>4. QED
  BY <1>2, <1>3

(* The time of the next round is that of the earliest buffers.                *)
DueAt(t) ==
  /\ t \in Nat /\ time <= t /\ t < Infinity
  /\ \A c \in Cell : /\ NextEvent(c) = NextTimeout(cell[c].buffer)
                      /\ NextEvent(c) \in Nat /\ t <= NextEvent(c)

LEMMA NextRoundAt ==
  ASSUME CellsOK, Min({NextEvent(c) : c \in Cell}) < Limit
  PROVE  DueAt(Min({NextEvent(c) : c \in Cell}))
<1> DEFINE times == {NextEvent(c) : c \in Cell}
           t == Min(times)
<1>1. ASSUME NEW c \in Cell
      PROVE  NextEvent(c) = NextTimeout(cell[c].buffer) /\ NextEvent(c) \in Nat /\ time <= NextEvent(c)
  <2>1. CellOK(cell[c], sent[c], changes[c], time) /\ time \in Nat /\ time < Infinity
    BY DEF CellsOK
  <2>2. /\ Later(cell[c].clock, TimeAdvance(cell[c])) = NextTimeout(cell[c].buffer)
        /\ NextTimeout(cell[c].buffer) \in Times
    BY <2>1, DueWithBuffer
  <2>3. time <= NextTimeout(cell[c].buffer)
    BY <2>1 DEF CellOK
  <2>4. QED
    BY <2>2, <2>3, InfinityIs DEF NextEvent, Times
<1>2. times \in SUBSET Nat /\ times # {}
  BY <1>1, CellAssumption
<1>3. t \in times /\ \A u \in times : t <= u
  <2> HIDE DEF times
  <2>1. QED
    BY <1>2, MinIs
<1>4. t < Limit /\ Limit \in Nat /\ Limit <= Infinity
  BY InfinityIs DEF Times
<1> HIDE DEF t
<1>5. t \in Nat /\ time <= t
  BY <1>1, <1>3
<1>6. t < Infinity
  BY <1>4, <1>5, InfinityIs
<1>7. \A c \in Cell : t <= NextEvent(c)
  BY <1>3
<1>8. QED
  BY <1>1, <1>5, <1>6, <1>7 DEF DueAt, t

(* What a round does to cell c, to what it has transmitted and to how it has  *)
(* changed.                                                                   *)
OKAfter(c, t, due, comp) ==
  CellOK(Transitioned(c, t, due, comp),
         IF c \in due THEN Append(sent[c], [time |-> t, state |-> Output(cell[c])]) ELSE sent[c],
         IF Bag(c, due) # <<>> /\ comp.state # cell[c].current
         THEN Append(changes[c], [at |-> t, time |-> Later(t, comp.delay), state |-> comp.state])
         ELSE changes[c],
         t)

LEMMA RoundOfCell ==
  ASSUME CellsOK, NEW t, t < Limit, DueAt(t), NEW c \in Cell, NEW due, due = {n \in Cell : NextEvent(n) = t},
         NEW comp, Bag(c, due) # <<>> => comp \in Computed(c)
  PROVE  OKAfter(c, t, due, comp)
<1> DEFINE x   == cell[c]
           sn  == sent[c]
           ch  == changes[c]
           u   == NextTimeout(x.buffer)
           bag == Bag(c, due)
           own == IF c \in due THEN InternalTransition(x) ELSE x
           sn2 == IF c \in due THEN Append(sn, [time |-> t, state |-> Output(x)]) ELSE sn
           e   == IF c \in due THEN 0 ELSE t - x.clock
           ext == ExternalTransition(own, e, bag, comp.state, comp.delay)
<1>1. CellOK(x, sn, ch, time) /\ time \in Nat /\ time < Infinity
  BY DEF CellsOK
<1>2. t \in Nat /\ time <= t /\ t < Infinity /\ u \in Nat /\ t <= u /\ (c \in due <=> u = t)
  BY DEF DueAt
<1> HIDE DEF u, bag, sn, ch, x
<1>3. /\ CellOK(own, sn2, ch, t) /\ t < NextTimeout(own.buffer)
      /\ own.current = x.current /\ e = t - own.clock
  <2>1. CASE c \in due
    <3>1. u # Infinity /\ u = t
      BY <1>2, <2>1
    <3>2. /\ CellOK(InternalTransition(x), Append(sn, [time |-> u, state |-> Output(x)]), ch, u)
          /\ NextTimeout(InternalTransition(x).buffer) > u
          /\ InternalTransition(x).current = x.current
          /\ InternalTransition(x).clock = u
      BY <1>1, <3>1, InternalOK DEF u
    <3>3. NextTimeout(InternalTransition(x).buffer) \in Nat
      <4>1. BufferOK(InternalTransition(x).buffer)
        BY <3>2 DEF CellOK, Tally
      <4>2. QED
        BY <4>1, TimeoutIs, InfinityIs DEF Times
    <3>4. 0 = t - t
      BY <1>2
    <3>5. QED
      BY <1>2, <2>1, <3>1, <3>2, <3>3, <3>4
  <2>2. CASE c \notin due
    <3>1. t < u
      BY <1>2, <2>2
    <3>2. CellOK(x, sn, ch, t)
      BY <1>1, <1>2, WaitsOK DEF u
    <3>3. QED
      BY <2>2, <3>1, <3>2 DEF u
  <2>3. QED
    BY <2>1, <2>2
<1>4. CASE bag = <<>>
  <2>1. Transitioned(c, t, due, comp) = own
    BY <1>4 DEF Transitioned, bag, x
  <2> HIDE DEF own
  <2>2. QED
    BY <1>3, <1>4, <2>1 DEF OKAfter, bag, sn, ch, x
<1>5. CASE bag # <<>>
  <2>1. Transitioned(c, t, due, comp) = ext
    BY <1>5 DEF Transitioned, ConfluenceTransition, bag, x
  <2>2. comp \in Computed(c)
    BY <1>5 DEF bag
  <2>3. comp.state # own.current => /\ comp.state \in State /\ Later(t, comp.delay) \in Times
                                    /\ t <= Later(t, comp.delay)
    <3>1. SUFFICES ASSUME comp.state # own.current
                   PROVE  /\ comp.state \in State /\ Later(t, comp.delay) \in Times
                          /\ t <= Later(t, comp.delay)
      OBVIOUS
    <3>2. comp.state \in State /\ comp.delay \in Delays
      BY <1>3, <2>2, <3>1 DEF Computed, x
    <3>3. QED
      BY <1>2, <3>2, LaterIs
  <2> HIDE DEF own, e, sn2
  <2>4. CellOK(ext, sn2, IF comp.state # own.current
                         THEN Append(ch, [at |-> t, time |-> Later(t, comp.delay), state |-> comp.state])
                         ELSE ch, t)
    BY <1>2, <1>3, <2>3, ExternalOK
  <2>5. QED
    BY <1>3, <1>5, <2>1, <2>4 DEF OKAfter, sn2, bag, sn, ch, x
<1>6. QED
  BY <1>4, <1>5

LEMMA RoundKeeps ==
  ASSUME CellsOK, Round
  PROVE  CellsOK'
<1> DEFINE t == Min({NextEvent(c) : c \in Cell})
           due == {c \in Cell : NextEvent(c) = t}
           receiving == {c \in Cell : Bag(c, due) # <<>>}
           nothing == [state |-> NoState, delay |-> 0]
<1>1. t < Limit /\ time' = t
      /\ sent' = [c \in Cell |-> IF c \in due
                    THEN Append(sent[c], [time |-> t, state |-> Output(cell[c])]) ELSE sent[c]]
  BY DEF Round
<1>2. PICK comp \in [receiving -> UNION {Computed(c) : c \in receiving}] :
        LET changing == {c \in receiving : comp[c].state # cell[c].current}
        IN  /\ \A c \in receiving : comp[c] \in Computed(c)
            /\ cell' = [c \in Cell |-> Transitioned(c, t, due, IF c \in receiving THEN comp[c] ELSE nothing)]
            /\ changes' = [c \in Cell |-> IF c \in changing
                 THEN Append(changes[c], [at |-> t, time |-> Later(t, comp[c].delay), state |-> comp[c].state])
                 ELSE changes[c]]
  BY DEF Round
<1>3. DueAt(t)
  BY <1>1, NextRoundAt
<1> HIDE DEF t
<1>4. ASSUME NEW c \in Cell
      PROVE  CellOK(cell'[c], sent'[c], changes'[c], t)
  <2> DEFINE given == IF c \in receiving THEN comp[c] ELSE nothing
  <2>1. Bag(c, due) # <<>> => given \in Computed(c)
    BY <1>2
  <2>2. /\ cell'[c] = Transitioned(c, t, due, given)
        /\ sent'[c] = IF c \in due THEN Append(sent[c], [time |-> t, state |-> Output(cell[c])]) ELSE sent[c]
        /\ changes'[c] = IF Bag(c, due) # <<>> /\ given.state # cell[c].current
              THEN Append(changes[c], [at |-> t, time |-> Later(t, given.delay), state |-> given.state])
              ELSE changes[c]
    <3>1. cell'[c] = Transitioned(c, t, due, given)
      BY <1>2
    <3>2. c \in receiving <=> Bag(c, due) # <<>>
      OBVIOUS
    <3> HIDE DEF due
    <3>3. sent'[c] = IF c \in due THEN Append(sent[c], [time |-> t, state |-> Output(cell[c])]) ELSE sent[c]
      BY <1>1
    <3>4. changes'[c] = IF Bag(c, due) # <<>> /\ given.state # cell[c].current
              THEN Append(changes[c], [at |-> t, time |-> Later(t, given.delay), state |-> given.state])
              ELSE changes[c]
      BY <1>2, <3>2
    <3>5. QED
      BY <3>1, <3>3, <3>4
  <2>3. due = {n \in Cell : NextEvent(n) = t}
    OBVIOUS
  <2> HIDE DEF given, due
  <2>4. OKAfter(c, t, due, given)
    BY <1>1, <1>3, <2>1, <2>3, RoundOfCell
  <2>5. QED
    BY <2>2, <2>4 DEF OKAfter
<1>5. t \in Nat /\ t < Infinity
  BY <1>3 DEF DueAt
<1>6. QED
  BY <1>1, <1>4, <1>5 DEF CellsOK

(* The invariant says that clocks agree and that changes are transmitted.     *)
LEMMA CellsTransmit ==
  ASSUME CellsOK
  PROVE  ClockAgrees /\ TransmitsChanges
<1>1. ASSUME NEW c \in Cell
      PROVE  /\ CellOK(cell[c], sent[c], changes[c], time)
             /\ NextEvent(c) = NextTimeout(cell[c].buffer)
             /\ time <= NextTimeout(cell[c].buffer) /\ NextTimeout(cell[c].buffer) \in Nat
             /\ cell[c].clock <= time
  <2>1. CellOK(cell[c], sent[c], changes[c], time) /\ time \in Nat /\ time < Infinity
    BY DEF CellsOK
  <2>2. /\ Later(cell[c].clock, TimeAdvance(cell[c])) = NextTimeout(cell[c].buffer)
        /\ NextTimeout(cell[c].buffer) \in Times
    BY <2>1, DueWithBuffer
  <2>3. time <= NextTimeout(cell[c].buffer) /\ cell[c].clock <= time
    BY <2>1 DEF CellOK
  <2>4. QED
    BY <2>1, <2>2, <2>3, InfinityIs DEF NextEvent, Times
<1>2. time \in Nat /\ time < Infinity
  BY DEF CellsOK
<1>3. ClockAgrees
  BY <1>1, <1>2 DEF ClockAgrees
<1>4. ASSUME NEW c \in Cell, NEW st \in State, NEW t \in 0 .. time - 1
      PROVE  Cardinality({i \in DOMAIN sent[c] : sent[c][i] = [time |-> t, state |-> st]})
               = Cardinality({k \in DOMAIN changes[c] :
                                /\ changes[c][k].time = t /\ changes[c][k].state = st
                                /\ ~Superseded(cell[c].buffer.kind, changes[c], k)})
  <2> DEFINE e == [time |-> t, state |-> st]
             b == cell[c].buffer
  <2>1. Tally(b, sent[c], changes[c], time)
    BY <1>1 DEF CellOK
  <2>2. e \in Moments /\ e.time = t /\ e.state = st /\ t < time /\ t \in Nat
    BY <1>2, InfinityIs DEF Moments
  <2>3. Balanced(b, sent[c], changes[c], e)
    BY <2>1, <2>2 DEF Tally
  <2>4. sent[c] \in Seq(Moments) /\ changes[c] \in Seq([at : Int, time : Times, state : State])
    BY <2>1 DEF Tally
  <2>5. DOMAIN sent[c] = 1 .. Len(sent[c]) /\ DOMAIN changes[c] = 1 .. Len(changes[c])
    BY <2>4, LenProperties
  <2>6. ToCome(b) \cap {e} = {}
    <3>1. \A z \in ToCome(b) : NextTimeout(b) <= z.time
      BY <2>1, TimeoutIs DEF Tally
    <3>2. ~ NextTimeout(b) <= t
      BY <1>1, <1>2, <2>2
    <3>3. QED
      BY <2>2, <3>1, <3>2
  <2> HIDE DEF b
  <2>7. Cardinality(SentAs(sent[c], e)) + 0 = Cardinality(Lasting(b.kind, changes[c], e))
    <3>1. Cardinality({}) = 0
      BY FS_EmptySet
    <3>2. QED
      BY <2>3, <2>6, <3>1 DEF Balanced
  <2>8. Cardinality(SentAs(sent[c], e)) \in Nat
    BY <2>2, <2>4, SentOneMore
  <2>9. Cardinality(SentAs(sent[c], e)) = Cardinality(Lasting(b.kind, changes[c], e))
    BY <2>7, <2>8
  <2>10. /\ SentAs(sent[c], e) = {i \in DOMAIN sent[c] : sent[c][i] = [time |-> t, state |-> st]}
         /\ Lasting(b.kind, changes[c], e) = {k \in DOMAIN changes[c] :
               /\ changes[c][k].time = t /\ changes[c][k].state = st
               /\ ~Superseded(cell[c].buffer.kind, changes[c], k)}
    BY <2>2, <2>5 DEF SentAs, Lasting, b
  <2>11. QED
    BY <2>9, <2>10
<1>5. TransmitsChanges
  BY <1>4 DEF TransmitsChanges
<1>6. QED
  BY <1>3, <1>5

(* Cells transmit their changes of state, each at its time, except those that *)
(* their delay buffers let later ones replace, and their clocks agree with    *)
(* the engine's: for any cells that listen to each other in any way, any      *)
(* kinds of buffers, any delays and any number of changes.                    *)
CellsInv == part = "cells" => CellsOK

THEOREM CellsTransmitChangesAlways == ModelsSpec => []CellsTransmitChanges
<1>1. ModelsInit => CellsInv
  BY CellsStart DEF ModelsInit, CellsInv
<1>2. CellsInv /\ [ModelsNext]_<<part, vars, g_vars, b_vars, s_vars, c_vars>> => CellsInv'
  <2>1. SUFFICES ASSUME CellsInv, [ModelsNext]_<<part, vars, g_vars, b_vars, s_vars, c_vars>>, part' = "cells"
                 PROVE  CellsOK'
    BY DEF CellsInv
  <2>2. CASE part = "cells" /\ Next /\ UNCHANGED part
    BY <2>1, <2>2, RoundKeeps DEF CellsInv, Next
  <2>3. CASE UNCHANGED <<part, vars>>
    <3>1. part = "cells" /\ CellsOK
      BY <2>1, <2>3 DEF CellsInv
    <3>2. UNCHANGED <<time, cell, sent, changes>>
      BY <2>3 DEF vars
    <3>3. QED
      BY <3>1, <3>2 DEF CellsOK
  <2>4. QED
    BY <2>1, <2>2, <2>3 DEF ModelsNext
<1>3. CellsInv => CellsTransmitChanges
  BY CellsTransmit DEF CellsInv, CellsTransmitChanges
<1>4. QED
  BY <1>1, <1>2, <1>3, PTL DEF ModelsSpec
-----------------------------------------------------------------------------
(***************************************************************************)
(* What a cell knows, when it listens to no more than one: of several that *)
(* transmit in one round it would only hear the last.                      *)
(***************************************************************************)
HearsOne == \A c \in Cell : \E n \in Cell : Neighbors[c] \subseteq {n}

OrdersOK ==
  \A c \in Cell : /\ Range(order[c]) = Neighbors[c]
                  /\ \E m \in Nat : DOMAIN order[c] = 1 .. m

KnowsInv ==
  /\ CellsOK /\ OrdersOK /\ KnowsNeighbors
  /\ \A c \in Cell : DOMAIN cell[c].neighbors = Neighbors[c]

LEMMA KnowsStart ==
  ASSUME Init
  PROVE  KnowsInv
<1>1. ASSUME NEW c \in Cell
      PROVE  Range(order[c]) = Neighbors[c] /\ \E m \in Nat : DOMAIN order[c] = 1 .. m
  <2>1. order[c] \in UNION {Bijection(1 .. Cardinality(Neighbors[d]), Neighbors[d]) : d \in Cell}
    BY DEF Init
  <2>2. PICK d \in Cell : order[c] \in Bijection(1 .. Cardinality(Neighbors[d]), Neighbors[d])
    BY <2>1
  <2>3. DOMAIN order[c] = 1 .. Cardinality(Neighbors[d])
    BY <2>2 DEF Bijection, Injection
  <2>4. Cardinality(Neighbors[d]) \in Nat
    <3>1. Neighbors[d] \in SUBSET Cell /\ IsFiniteSet(Cell)
      BY CellAssumption
    <3>2. QED
      BY <3>1, FS_Subset, FS_CardinalityType
  <2>5. Range(order[c]) = Neighbors[c]
    BY DEF Init
  <2>6. QED
    BY <2>3, <2>4, <2>5
<1>2. ASSUME NEW c \in Cell
      PROVE  DOMAIN cell[c].neighbors = Neighbors[c] /\ sent[c] = <<>>
  <2>1. PICK kind \in [Cell -> Kinds], initial \in [Cell -> State] :
          cell = [d \in Cell |-> NewCell(Neighbors[d], initial[d], kind[d])]
    BY DEF Init
  <2>2. cell[c].neighbors = [n \in Neighbors[c] |-> NoState]
    BY <2>1 DEF NewCell
  <2>3. QED
    BY <2>2 DEF Init
<1>3. KnowsNeighbors
  <2>1. ASSUME NEW c \in Cell, NEW n \in Neighbors[c]
        PROVE  sent[n] = <<>>
    <3>1. n \in Cell
      BY CellAssumption
    <3>2. QED
      BY <1>2, <3>1
  <2>2. QED
    BY <2>1 DEF KnowsNeighbors
<1>4. QED
  BY <1>1, <1>2, <1>3, CellsStart DEF KnowsInv, OrdersOK

(* The bag of a cell that listens to n only.                                  *)
LEMMA BagFromOne ==
  ASSUME OrdersOK, NEW c \in Cell, NEW n \in Neighbors[c], Neighbors[c] \subseteq {n}, NEW due
  PROVE  /\ n \in due => /\ Bag(c, due) # <<>> /\ n \in DOMAIN Bag(c, due)
                         /\ Bag(c, due)[n] = Output(cell[n])
         /\ n \notin due => Bag(c, due) = <<>>
<1> DEFINE o == order[c]
           sending == {i \in DOMAIN o : o[i] \in due}
<1>1. PICK m \in Nat : DOMAIN o = 1 .. m
  BY DEF OrdersOK
<1>2. \A i \in DOMAIN o : o[i] = n
  <2>1. \A i \in DOMAIN o : o[i] \in Range(o)
    BY DEF Range
  <2>2. Range(o) = Neighbors[c]
    BY DEF OrdersOK
  <2>3. QED
    BY <2>1, <2>2
<1>3. PICK i \in DOMAIN o : o[i] = n
  BY DEF OrdersOK, Range
<1>4. CASE n \in due
  <2>1. sending \in SUBSET (0 .. m) /\ sending # {} /\ sending \subseteq DOMAIN o
    BY <1>1, <1>3, <1>4
  <2>2. Max(sending) \in DOMAIN o
    <3> HIDE DEF sending
    <3>1. QED
      BY <1>1, <2>1, MaxIs
  <2>3. o[Max(sending)] = n
    BY <1>2, <2>2
  <2>4. Bag(c, due) = [k \in {n} |-> Output(cell[k])]
    BY <2>1, <2>3 DEF Bag
  <2>5. DOMAIN Bag(c, due) = {n}
    BY <2>4
  <2>6. Bag(c, due) # <<>>
    BY SMTT(40), <2>5
  <2>7. QED
    BY <1>4, <2>4, <2>5, <2>6
<1>5. CASE n \notin due
  <2>1. sending = {}
    BY <1>2, <1>5
  <2>2. QED
    BY <1>5, <2>1 DEF Bag
<1>6. QED
  BY <1>4, <1>5

(* What a transition makes of what a cell knows.                              *)
LEMMA NeighborsAfter ==
  ASSUME CellsOK, NEW c \in Cell, NEW t, NEW due, NEW comp
  PROVE  Transitioned(c, t, due, comp).neighbors =
           IF Bag(c, due) = <<>> THEN cell[c].neighbors ELSE Refreshed(cell[c].neighbors, Bag(c, due))
<1> DEFINE x == cell[c]
           y == Transitioned(c, t, due, comp)
<1>1. x = [ clock |-> x.clock, next_internal |-> x.next_internal, current |-> x.current,
            neighbors |-> x.neighbors, buffer |-> x.buffer ]
  BY DEF CellsOK, CellOK
<1>2. InternalTransition(x).neighbors = x.neighbors
  BY <1>1 DEF InternalTransition
<1>3. CASE Bag(c, due) = <<>>
  <2>1. y = InternalTransition(x) \/ y = x
    BY <1>3 DEF Transitioned
  <2>2. QED
    BY <1>2, <1>3, <2>1
<1>4. CASE Bag(c, due) # <<>>
  <2>1. \/ y = ConfluenceTransition(x, Bag(c, due), comp.state, comp.delay)
        \/ y = ExternalTransition(x, t - x.clock, Bag(c, due), comp.state, comp.delay)
    BY <1>4 DEF Transitioned
  <2>2. ConfluenceTransition(x, Bag(c, due), comp.state, comp.delay).neighbors
          = Refreshed(InternalTransition(x).neighbors, Bag(c, due))
    BY DEF ConfluenceTransition, ExternalTransition
  <2>3. ExternalTransition(x, t - x.clock, Bag(c, due), comp.state, comp.delay).neighbors
          = Refreshed(x.neighbors, Bag(c, due))
    BY DEF ExternalTransition
  <2>4. QED
    BY <1>2, <1>4, <2>1, <2>2, <2>3
<1>5. QED
  BY <1>3, <1>4

LEMMA RoundKnows ==
  ASSUME HearsOne, KnowsInv, Round
  PROVE  KnowsInv'
<1> DEFINE t == Min({NextEvent(c) : c \in Cell})
           due == {c \in Cell : NextEvent(c) = t}
           receiving == {c \in Cell : Bag(c, due) # <<>>}
           nothing == [state |-> NoState, delay |-> 0]
<1>1. /\ order' = order
      /\ sent' = [c \in Cell |-> IF c \in due
                    THEN Append(sent[c], [time |-> t, state |-> Output(cell[c])]) ELSE sent[c]]
  BY DEF Round
<1>2. PICK comp \in [receiving -> UNION {Computed(c) : c \in receiving}] :
        cell' = [c \in Cell |-> Transitioned(c, t, due, IF c \in receiving THEN comp[c] ELSE nothing)]
  BY DEF Round
<1>3. CellsOK /\ CellsOK' /\ OrdersOK
  BY RoundKeeps DEF KnowsInv
<1>4. OrdersOK'
  BY <1>1, <1>3 DEF OrdersOK
<1> HIDE DEF t, due
<1>5. ASSUME NEW c \in Cell
      PROVE  cell'[c].neighbors = IF Bag(c, due) = <<>> THEN cell[c].neighbors
                                  ELSE Refreshed(cell[c].neighbors, Bag(c, due))
  <2> DEFINE given == IF c \in receiving THEN comp[c] ELSE nothing
  <2>1. cell'[c] = Transitioned(c, t, due, given)
    BY <1>2
  <2> HIDE DEF given
  <2>2. QED
    BY <1>3, <2>1, NeighborsAfter
<1>6. ASSUME NEW c \in Cell
      PROVE  DOMAIN cell'[c].neighbors = Neighbors[c]
  <2>1. DOMAIN cell[c].neighbors = Neighbors[c]
    BY DEF KnowsInv
  <2>2. DOMAIN Refreshed(cell[c].neighbors, Bag(c, due)) = DOMAIN cell[c].neighbors
    BY DEF Refreshed
  <2>3. QED
    BY <1>5, <2>1, <2>2
<1>7. ASSUME NEW c \in Cell, NEW n \in Neighbors[c], sent'[n] # <<>>
      PROVE  cell'[c].neighbors[n] = Last(sent'[n]).state
  <2>1. n \in Cell /\ Neighbors[c] \subseteq {n}
    BY CellAssumption DEF HearsOne
  <2>2. CASE n \in due
    <3> DEFINE y == [time |-> t, state |-> Output(cell[n])]
    <3>1. Bag(c, due) # <<>> /\ n \in DOMAIN Bag(c, due) /\ Bag(c, due)[n] = Output(cell[n])
      BY <1>3, <2>1, <2>2, BagFromOne
    <3>2. cell'[c].neighbors = Refreshed(cell[c].neighbors, Bag(c, due))
      BY <1>5, <3>1
    <3>3. n \in DOMAIN cell[c].neighbors
      BY DEF KnowsInv
    <3>4. cell'[c].neighbors[n] = Output(cell[n])
      BY <3>1, <3>2, <3>3 DEF Refreshed
    <3>5. sent'[n] = Append(sent[n], y)
      BY <1>1, <2>1, <2>2
    <3>6. sent'[n] \in Seq(Moments) /\ sent[n] \in Seq(Moments)
      BY <1>3, <2>1 DEF CellsOK, CellOK, Tally
    <3>7. Last(sent'[n]) = y
      BY <3>5, <3>6 DEF Last
    <3>8. QED
      BY <3>4, <3>7
  <2>3. CASE n \notin due
    <3>1. Bag(c, due) = <<>>
      BY <1>3, <2>1, <2>3, BagFromOne
    <3>2. cell'[c].neighbors = cell[c].neighbors
      BY <1>5, <3>1
    <3>3. sent'[n] = sent[n]
      BY <1>1, <2>1, <2>3
    <3>4. cell[c].neighbors[n] = Last(sent[n]).state
      BY <1>7, <3>3 DEF KnowsInv, KnowsNeighbors
    <3>5. QED
      BY <3>2, <3>3, <3>4
  <2>4. QED
    BY <2>2, <2>3
<1>8. KnowsNeighbors'
  BY <1>7 DEF KnowsNeighbors
<1>9. QED
  BY <1>3, <1>4, <1>6, <1>8 DEF KnowsInv

(* A cell that listens to one other knows the state that this one transmitted *)
(* last.  (With several neighbors it need not: the run cells_join.)           *)
CellsKnowInv == part = "cells" => KnowsInv

THEOREM CellsKnowEachOtherAlways ==
  ASSUME HearsOne
  PROVE  ModelsSpec => []CellsKnowEachOther
<1>1. ModelsInit => CellsKnowInv
  BY KnowsStart DEF ModelsInit, CellsKnowInv
<1>2. CellsKnowInv /\ [ModelsNext]_<<part, vars, g_vars, b_vars, s_vars, c_vars>> => CellsKnowInv'
  <2>1. SUFFICES ASSUME CellsKnowInv, [ModelsNext]_<<part, vars, g_vars, b_vars, s_vars, c_vars>>,
                        part' = "cells"
                 PROVE  KnowsInv'
    BY DEF CellsKnowInv
  <2>2. CASE part = "cells" /\ Next /\ UNCHANGED part
    BY <2>1, <2>2, RoundKnows DEF CellsKnowInv, Next
  <2>3. CASE UNCHANGED <<part, vars>>
    <3>1. part = "cells" /\ KnowsInv
      BY <2>1, <2>3 DEF CellsKnowInv
    <3>2. UNCHANGED <<time, cell, sent, changes, order>>
      BY <2>3 DEF vars
    <3>3. QED
      BY <3>1, <3>2 DEF KnowsInv, CellsOK, OrdersOK, KnowsNeighbors
  <2>4. QED
    BY <2>1, <2>2, <2>3 DEF ModelsNext
<1>3. CellsKnowInv => CellsKnowEachOther
  BY DEF CellsKnowInv, KnowsInv, CellsKnowEachOther
<1>4. QED
  BY <1>1, <1>2, <1>3, PTL DEF ModelsSpec
-----------------------------------------------------------------------------
(***************************************************************************)
(* The construction of coupled models.                                     *)
(***************************************************************************)
(* The couplings in the order in which they are kept.                         *)
Order(ls) == IF declared.static THEN Construction!Reverse(ls) ELSE ls

Injects(q) == \A i, j \in 1 .. Len(q) : q[i] = q[j] => i = j

(* The submodels are those declared, a static model's in any order.           *)
ModelsOK ==
  /\ models \in Seq(Range(declared.models)) /\ Range(models) = Range(declared.models)
  /\ IF declared.static THEN Injects(models) ELSE models = declared.models

LinksOK ==
  couplings_given = [eic |-> Order(declared.eic), eoc |-> Order(declared.eoc), ic |-> Order(declared.ic)]

AllLead ==
  /\ \A l \in Range(declared.eic) : Construction!Leads(l)
  /\ \A l \in Range(declared.eoc) : Construction!Leads(l)
  /\ \A l \in Range(declared.ic) : Construction!Leads(l)

EndsAt(l, f) == IF f \in {"from", "to"} THEN Construction!EngineOf(l[f]) ELSE l[f]

Resolved(ls) == [i \in DOMAIN ls |-> [f \in DOMAIN ls[i] |-> EndsAt(ls[i], f)]]

ConstructionInv ==
  /\ declared \in [static : BOOLEAN, models : Submodels, eic : EICs, eoc : EOCs, ic : ICs]
  /\ phase \in {"translate", "link", "check", "engines", "couple", "done", "error"}
  /\ phase = "translate" => declared.static
  /\ phase = "link" => declared.static /\ ModelsOK
  /\ phase \in {"check", "engines", "couple", "done"} => ModelsOK /\ LinksOK
  /\ phase \in {"engines", "couple", "done"} => AllLead
  /\ phase = "error" => ~AllLead
  /\ phase \in {"translate", "link", "check"} => engines = <<>>
  /\ phase = "engines" => /\ engines \in Seq(Range(models)) /\ Len(engines) <= Len(models)
                          /\ \A i \in 1 .. Len(engines) : engines[i] = models[i]
  /\ phase \in {"couple", "done"} => engines = models
  /\ phase = "done" => couplings = [eic |-> Resolved(Order(declared.eic)),
                                    eoc |-> Resolved(Order(declared.eoc)),
                                    ic  |-> Resolved(Order(declared.ic))]

LEMMA ConstructionRange ==
  ASSUME NEW q
  PROVE  Construction!Range(q) = Range(q)
BY DEF Construction!Range, Range

LEMMA RangeIs ==
  ASSUME NEW q, q \in Seq(Range(q))
  PROVE  Len(q) \in Nat /\ DOMAIN q = 1 .. Len(q) /\ Range(q) = {q[i] : i \in 1 .. Len(q)}
BY LenProperties DEF Range

(* A list in the opposite order.                                              *)
LEMMA ReverseIs ==
  ASSUME NEW q, q \in Seq(Range(q))
  PROVE  /\ DOMAIN Construction!Reverse(q) = 1 .. Len(q)
         /\ Len(Construction!Reverse(q)) = Len(q)
         /\ Range(Construction!Reverse(q)) = Range(q)
<1> DEFINE n == Len(q)
           r == Construction!Reverse(q)
<1>1. n \in Nat /\ DOMAIN q = 1 .. n /\ Range(q) = {q[i] : i \in 1 .. n}
  BY RangeIs
<1>2. r = [i \in 1 .. n |-> q[n - i + 1]]
  BY DEF Construction!Reverse
<1> HIDE DEF r, n
<1>3. DOMAIN r = 1 .. n /\ Len(r) = n
  BY <1>1, <1>2
<1>4. Range(r) = {r[i] : i \in 1 .. n}
  BY <1>3 DEF Range
<1>5. ASSUME NEW i \in 1 .. n
      PROVE  n - i + 1 \in 1 .. n /\ n - (n - i + 1) + 1 = i
  BY <1>1
<1>6. \A i \in 1 .. n : r[i] = q[n - i + 1] /\ n - i + 1 \in 1 .. n
  BY <1>2, <1>5
<1>7. \A i \in 1 .. n : q[i] = r[n - i + 1] /\ n - i + 1 \in 1 .. n
  BY <1>5, <1>6
<1>8. {r[i] : i \in 1 .. n} = {q[i] : i \in 1 .. n}
  BY <1>6, <1>7
<1>9. QED
  BY <1>1, <1>3, <1>4, <1>8 DEF r, n

LEMMA OrderIs ==
  ASSUME NEW q, q \in Seq(Range(q))
  PROVE  DOMAIN Order(q) = 1 .. Len(q) /\ Len(Order(q)) = Len(q) /\ Range(Order(q)) = Range(q)
BY ReverseIs, RangeIs DEF Order

(* As many elements as places, when none is there twice.                      *)
LEMMA InjectsLen ==
  ASSUME NEW q, q \in Seq(Range(q)), Injects(q)
  PROVE  IsFiniteSet(Range(q)) /\ Cardinality(Range(q)) = Len(q)
<1> DEFINE n == Len(q)
           S == Range(q)
<1>1. n \in Nat /\ DOMAIN q = 1 .. n /\ S = {q[i] : i \in 1 .. n}
  BY RangeIs
<1>2. q \in [1 .. n -> S]
  BY <1>1
<1> HIDE DEF S, n
<1>3. q \in Surjection(1 .. n, S)
  BY <1>1, <1>2 DEF Surjection
<1>4. q \in Injection(1 .. n, S)
  BY <1>1, <1>2 DEF Injection, IsInjective, Injects, n
<1>5. IsFiniteSet(1 .. n) /\ Cardinality(1 .. n) = n
  BY <1>1, FS_Interval
<1>6. IsFiniteSet(S) /\ Cardinality(S) = Cardinality(1 .. n)
  BY <1>3, <1>4, <1>5, FS_Surjection
<1>7. QED
  BY <1>5, <1>6 DEF S, n

(* The lists that are declared, and what their couplings have.                *)
DeclaredLists ==
  /\ declared.models \in Seq(Range(declared.models))
  /\ Listed(declared.eic, {"from_port", "to", "to_port"})
  /\ Listed(declared.eoc, {"from", "from_port", "to_port"})
  /\ Listed(declared.ic, {"from", "from_port", "to", "to_port"})

LEMMA ListsDeclared ==
  ASSUME declared \in [static : BOOLEAN, models : Submodels, eic : EICs, eoc : EOCs, ic : ICs]
  PROVE  DeclaredLists
<1>1. declared.models \in Submodels /\ declared.eic \in EICs /\ declared.eoc \in EOCs /\ declared.ic \in ICs
  OBVIOUS
<1>2. Listed(declared.models, {"id", "in", "out"})
  BY <1>1, ModelsAssumption
<1>3. QED
  BY <1>1, <1>2, ModelsAssumption DEF DeclaredLists, Listed

(* A submodel has the port.                                                   *)
HasPort(id, dir, port) == \E m \in Range(declared.models) : m.id = id /\ port \in m[dir]

LEMMA LeadsIs ==
  ASSUME NEW l
  PROVE  /\ DOMAIN l = {"from_port", "to", "to_port"} =>
              (Construction!Leads(l) <=> l.from_port \in InputPorts /\ HasPort(l.to, "in", l.to_port))
         /\ DOMAIN l = {"from", "from_port", "to_port"} =>
              (Construction!Leads(l) <=> HasPort(l.from, "out", l.from_port) /\ l.to_port \in OutputPorts)
         /\ DOMAIN l = {"from", "from_port", "to", "to_port"} =>
              (Construction!Leads(l) <=> HasPort(l.from, "out", l.from_port) /\ HasPort(l.to, "in", l.to_port))
BY DEF Construction!Leads, HasPort, Construction!Range, Range

(* Every end of a coupling that leads is the id of a submodel.                *)
LEMMA LeadsToIds ==
  ASSUME NEW l, NEW fields \in {{"from_port", "to", "to_port"}, {"from", "from_port", "to_port"},
                               {"from", "from_port", "to", "to_port"}}, DOMAIN l = fields,
         Construction!Leads(l), NEW f \in {"from", "to"} \cap fields
  PROVE  \E m \in Range(declared.models) : m.id = l[f]
<1>1. CASE fields = {"from_port", "to", "to_port"}
  BY <1>1, LeadsIs DEF HasPort
<1>2. CASE fields = {"from", "from_port", "to_port"}
  BY <1>2, LeadsIs DEF HasPort
<1>3. CASE fields = {"from", "from_port", "to", "to_port"}
  BY <1>3, LeadsIs DEF HasPort
<1>4. QED
  BY <1>1, <1>2, <1>3

LEMMA ConstructionStart ==
  ASSUME Construction!Init
  PROVE  ConstructionInv
<1>1. declared \in [static : BOOLEAN, models : Submodels, eic : EICs, eoc : EOCs, ic : ICs]
  BY DEF Construction!Init
<1>2. CASE declared.static
  <2>1. phase = "translate" /\ engines = <<>>
    BY <1>2 DEF Construction!Init
  <2>2. QED
    BY <1>1, <1>2, <2>1 DEF ConstructionInv
<1>3. CASE ~declared.static
  <2>1. phase = "check" /\ engines = <<>> /\ models = declared.models
        /\ couplings_given = [eic |-> declared.eic, eoc |-> declared.eoc, ic |-> declared.ic]
    BY <1>3 DEF Construction!Init
  <2>2. declared.models \in Seq(Range(declared.models))
    BY <1>1, ListsDeclared DEF DeclaredLists
  <2>3. ModelsOK /\ LinksOK
    BY <1>3, <2>1, <2>2 DEF ModelsOK, LinksOK, Order
  <2>4. QED
    BY <1>1, <2>1, <2>3 DEF ConstructionInv
<1>4. QED
  BY <1>2, <1>3

LEMMA MakeDynamicModelsOK ==
  ASSUME ConstructionInv, Construction!MakeDynamicModels
  PROVE  ConstructionInv'
<1> DEFINE given == Range(declared.models)
           n == Cardinality(given)
<1>1. phase = "translate" /\ phase' = "link" /\ declared' = declared /\ engines' = engines
      /\ models' \in Construction!Bijection(1 .. n, given)
  <2>1. Construction!Cardinality(given) = n
    BY DEF Construction!Cardinality, Cardinality
  <2>2. Construction!Range(declared.models) = given
    BY ConstructionRange
  <2> HIDE DEF given, n
  <2>3. QED
    BY <2>1, <2>2 DEF Construction!MakeDynamicModels
<1>2. declared.static /\ engines = <<>>
      /\ declared \in [static : BOOLEAN, models : Submodels, eic : EICs, eoc : EOCs, ic : ICs]
  BY <1>1 DEF ConstructionInv
<1>3. n \in Nat
  <2>1. declared.models \in Seq(given)
    BY <1>2, ListsDeclared DEF DeclaredLists
  <2>2. Len(declared.models) \in Nat /\ DOMAIN declared.models = 1 .. Len(declared.models)
    BY <2>1, LenProperties
  <2>3. declared.models \in Surjection(1 .. Len(declared.models), given)
    BY <2>1, <2>2 DEF Surjection, Range
  <2>4. IsFiniteSet(1 .. Len(declared.models))
    BY <2>2, FS_Interval
  <2> HIDE DEF given
  <2>5. IsFiniteSet(given)
    BY <2>3, <2>4, FS_Surjection
  <2>6. QED
    BY <2>5, FS_CardinalityType
<1>4. /\ models' \in [1 .. n -> given] /\ \A i, j \in 1 .. n : models'[i] = models'[j] => i = j
      /\ \A x \in given : \E i \in 1 .. n : models'[i] = x
  BY <1>1 DEF Construction!Bijection, Construction!Injection, Construction!Surjection, Construction!IsInjective
<1> HIDE DEF given, n
<1>5. models' \in Seq(given) /\ Len(models') = n
  BY <1>3, <1>4
<1>6. Range(models') = given
  BY <1>4 DEF Range
<1>7. ModelsOK'
  BY <1>1, <1>2, <1>4, <1>5, <1>6 DEF ModelsOK, Injects, given
<1>8. QED
  BY <1>1, <1>2, <1>7 DEF ConstructionInv

LEMMA MakeDynamicLinksOK ==
  ASSUME ConstructionInv, Construction!MakeDynamicLinks
  PROVE  ConstructionInv'
<1>1. phase = "link" /\ UNCHANGED <<declared, models, engines, couplings>>
  BY DEF Construction!MakeDynamicLinks
<1>2. declared.static /\ engines = <<>> /\ ModelsOK
      /\ declared \in [static : BOOLEAN, models : Submodels, eic : EICs, eoc : EOCs, ic : ICs]
  BY <1>1 DEF ConstructionInv
<1>3. DeclaredLists
  BY <1>2, ListsDeclared
<1>4. ModelsOK'
  BY <1>1, <1>2 DEF ModelsOK
<1>5. ASSUME phase' = "check",
             couplings_given' = [eic |-> Construction!MakeDynamic(declared.eic),
                                 eoc |-> Construction!MakeDynamic(declared.eoc),
                                 ic  |-> Construction!MakeDynamic(declared.ic)]
      PROVE  ConstructionInv'
  <2>1. LinksOK'
    BY <1>1, <1>2, <1>5 DEF LinksOK, Order, Construction!MakeDynamic
  <2>2. QED
    BY <1>1, <1>2, <1>4, <1>5, <2>1 DEF ConstructionInv
<1>6. ASSUME phase' = "error",
             NEW list \in {declared.eic, declared.eoc, declared.ic}, NEW i \in DOMAIN list,
             NEW f \in {"from", "to"} \cap DOMAIN list[i], list[i][f] \notin Construction!Ids(models)
      PROVE  ConstructionInv'
  <2> DEFINE l == list[i]
  <2>1. l \in Range(list)
    BY DEF Range
  <2>2. \E fields \in {{"from_port", "to", "to_port"}, {"from", "from_port", "to_port"},
                       {"from", "from_port", "to", "to_port"}} : DOMAIN l = fields
    BY <1>3, <2>1 DEF DeclaredLists, Listed
  <2>3. ~ \E m \in Range(declared.models) : m.id = l[f]
    BY <1>2, <1>6 DEF ModelsOK, Construction!Ids, Construction!Range, Range
  <2> HIDE DEF l
  <2>4. ~Construction!Leads(l)
    BY <1>6, <2>2, <2>3, LeadsToIds DEF l
  <2>5. ~AllLead
    BY <2>1, <2>4 DEF AllLead
  <2>6. ~AllLead'
    BY <1>1, <2>5 DEF AllLead, Construction!Leads
  <2>7. QED
    BY <1>1, <1>2, <1>6, <2>6 DEF ConstructionInv
<1>7. QED
  BY <1>5, <1>6 DEF Construction!MakeDynamicLinks

(* What Coupled looks for is what the declared couplings need.                *)
LEMMA ValidIs ==
  ASSUME ModelsOK, LinksOK, DeclaredLists
  PROVE  Construction!ValidIC /\ Construction!ValidEIC /\ Construction!ValidEOC <=> AllLead
<1>1. Range(couplings_given.eic) = Range(declared.eic) /\ Range(couplings_given.eoc) = Range(declared.eoc)
      /\ Range(couplings_given.ic) = Range(declared.ic)
  BY OrderIs DEF LinksOK, DeclaredLists, Listed
<1>2. \A id, port : /\ Construction!HasOutput(id, port) <=> HasPort(id, "out", port)
                    /\ Construction!HasInput(id, port) <=> HasPort(id, "in", port)
  BY ConstructionRange DEF ModelsOK, HasPort, Construction!HasOutput, Construction!HasInput
<1>3. Construction!ValidEIC <=> \A l \in Range(declared.eic) : Construction!Leads(l)
  <2>1. \A l \in Range(declared.eic) :
          Construction!Leads(l) <=> HasPort(l.to, "in", l.to_port) /\ l.from_port \in InputPorts
    BY LeadsIs DEF DeclaredLists, Listed
  <2>2. QED
    BY <1>1, <1>2, <2>1, ConstructionRange DEF Construction!ValidEIC
<1>4. Construction!ValidEOC <=> \A l \in Range(declared.eoc) : Construction!Leads(l)
  <2>1. \A l \in Range(declared.eoc) :
          Construction!Leads(l) <=> HasPort(l.from, "out", l.from_port) /\ l.to_port \in OutputPorts
    BY LeadsIs DEF DeclaredLists, Listed
  <2>2. QED
    BY <1>1, <1>2, <2>1, ConstructionRange DEF Construction!ValidEOC
<1>5. Construction!ValidIC <=> \A l \in Range(declared.ic) : Construction!Leads(l)
  <2>1. \A l \in Range(declared.ic) :
          Construction!Leads(l) <=> HasPort(l.from, "out", l.from_port) /\ HasPort(l.to, "in", l.to_port)
    BY LeadsIs DEF DeclaredLists, Listed
  <2>2. QED
    BY <1>1, <1>2, <2>1, ConstructionRange DEF Construction!ValidIC
<1>6. QED
  BY <1>3, <1>4, <1>5 DEF AllLead

LEMMA CoupledOK ==
  ASSUME ConstructionInv, Construction!Coupled
  PROVE  ConstructionInv'
<1>1. phase = "check" /\ UNCHANGED <<declared, models, couplings_given, engines, couplings>>
  BY DEF Construction!Coupled
<1>2. engines = <<>> /\ ModelsOK /\ LinksOK
      /\ declared \in [static : BOOLEAN, models : Submodels, eic : EICs, eoc : EOCs, ic : ICs]
  BY <1>1 DEF ConstructionInv
<1>3. DeclaredLists
  BY <1>2, ListsDeclared
<1>4. phase' = IF AllLead THEN "engines" ELSE "error"
  BY <1>2, <1>3, ValidIs DEF Construction!Coupled
<1>5. ModelsOK' /\ LinksOK'
  BY <1>1, <1>2 DEF ModelsOK, LinksOK, Order
<1>6. AllLead' <=> AllLead
  BY <1>1 DEF AllLead, Construction!Leads
<1>7. models \in Seq(Range(models)) /\ Len(models) \in Nat
  BY <1>2, RangeIs DEF ModelsOK
<1>8. phase' = "engines" => /\ engines' \in Seq(Range(models')) /\ Len(engines') <= Len(models')
                            /\ \A i \in 1 .. Len(engines') : engines'[i] = models'[i]
  BY <1>1, <1>2, <1>7
<1>9. QED
  BY <1>1, <1>2, <1>4, <1>5, <1>6, <1>8 DEF ConstructionInv

LEMMA CreateEngineOK ==
  ASSUME ConstructionInv, Construction!CreateEngine
  PROVE  ConstructionInv'
<1>1. phase = "engines" /\ UNCHANGED <<declared, models, couplings_given, couplings>>
  BY DEF Construction!CreateEngine
<1>2. /\ ModelsOK /\ LinksOK /\ AllLead
      /\ engines \in Seq(Range(models)) /\ Len(engines) <= Len(models)
      /\ \A i \in 1 .. Len(engines) : engines[i] = models[i]
      /\ declared \in [static : BOOLEAN, models : Submodels, eic : EICs, eoc : EOCs, ic : ICs]
  BY <1>1 DEF ConstructionInv
<1>3. ModelsOK' /\ LinksOK'
  BY <1>1, <1>2 DEF ModelsOK, LinksOK, Order
<1>4. AllLead'
  BY <1>1, <1>2 DEF AllLead, Construction!Leads
<1>5. models \in Seq(Range(models)) /\ Len(models) \in Nat /\ DOMAIN models = 1 .. Len(models)
      /\ \A i \in 1 .. Len(models) : models[i] \in Range(models)
  BY <1>2, RangeIs DEF ModelsOK
<1>6. CASE Len(engines) < Len(models)
  <2> DEFINE S == Range(models)
             m == models[Len(engines) + 1]
  <2>1. engines' = Append(engines, m) /\ phase' = "engines"
    BY <1>1, <1>6 DEF Construction!CreateEngine
  <2>2. Len(engines) \in Nat /\ m \in S
    BY <1>2, <1>5, <1>6
  <2> HIDE DEF S
  <2>3. engines \in Seq(S)
    BY <1>2 DEF S
  <2>4. engines' \in Seq(S) /\ Len(engines') = Len(engines) + 1
        /\ \A i \in 1 .. Len(engines) + 1 :
             engines'[i] = IF i <= Len(engines) THEN engines[i] ELSE m
    BY <2>1, <2>2, <2>3
  <2>5. \A i \in 1 .. Len(engines') : engines'[i] = models[i]
    BY <1>2, <2>2, <2>4
  <2>6. Len(engines') <= Len(models)
    BY <1>5, <1>6, <2>2, <2>4
  <2>7. engines' \in Seq(Range(models'))
    BY <1>1, <2>4 DEF S
  <2>8. QED
    BY <1>1, <1>2, <1>3, <1>4, <2>1, <2>5, <2>6, <2>7 DEF ConstructionInv
<1>7. CASE ~(Len(engines) < Len(models))
  <2>1. engines' = engines /\ phase' = "couple"
    BY <1>1, <1>7 DEF Construction!CreateEngine
  <2>2. Len(engines) \in Nat /\ DOMAIN engines = 1 .. Len(engines)
    BY <1>2, LenProperties
  <2>3. Len(engines) = Len(models)
    <3>1. Len(engines) <= Len(models) /\ Len(engines) \in Nat /\ Len(models) \in Nat
      BY <1>2, <1>5, <2>2
    <3>2. QED
      BY <1>7, <3>1
  <2>4. \A i \in 1 .. Len(engines) : engines[i] = models[i]
    BY <1>2
  <2>5. engines = models
    BY <1>2, <1>5, <2>3, <2>4, SeqEqual
  <2>6. QED
    BY <1>1, <1>2, <1>3, <1>4, <2>1, <2>5 DEF ConstructionInv
<1>8. QED
  BY <1>6, <1>7

LEMMA CoupleOK ==
  ASSUME ConstructionInv, Construction!Couple
  PROVE  ConstructionInv'
<1>1. phase = "couple" /\ phase' = "done" /\ UNCHANGED <<declared, models, couplings_given, engines>>
  BY DEF Construction!Couple
<1>2. ModelsOK /\ LinksOK /\ AllLead /\ engines = models
      /\ declared \in [static : BOOLEAN, models : Submodels, eic : EICs, eoc : EOCs, ic : ICs]
  BY <1>1 DEF ConstructionInv
<1>3. ModelsOK' /\ LinksOK'
  BY <1>1, <1>2 DEF ModelsOK, LinksOK, Order
<1>4. AllLead'
  BY <1>1, <1>2 DEF AllLead, Construction!Leads
<1>5. couplings' = [eic |-> Resolved(couplings_given.eic), eoc |-> Resolved(couplings_given.eoc),
                    ic  |-> Resolved(couplings_given.ic)]
  BY DEF Construction!Couple, Resolved, EndsAt
<1>6. couplings' = [eic |-> Resolved(Order(declared.eic)), eoc |-> Resolved(Order(declared.eoc)),
                    ic  |-> Resolved(Order(declared.ic))]
  BY <1>2, <1>5 DEF LinksOK
<1>7. (couplings = [eic |-> Resolved(Order(declared.eic)), eoc |-> Resolved(Order(declared.eoc)),
                    ic  |-> Resolved(Order(declared.ic))])'
  BY <1>1, <1>6 DEF Resolved, EndsAt, Order, Construction!EngineOf
<1>8. QED
  BY <1>1, <1>2, <1>3, <1>4, <1>7 DEF ConstructionInv

LEMMA ConstructionStep ==
  ASSUME ConstructionInv, Construction!Next
  PROVE  ConstructionInv'
BY MakeDynamicModelsOK, MakeDynamicLinksOK, CoupledOK, CreateEngineOK, CoupleOK DEF Construction!Next

LEMMA ConstructionStays ==
  ASSUME ConstructionInv, UNCHANGED c_vars
  PROVE  ConstructionInv'
BY DEF ConstructionInv, c_vars, ModelsOK, LinksOK, AllLead, Order, Resolved, EndsAt, Construction!EngineOf,
       Construction!Leads

(* A model is refused exactly when one of its couplings leads nowhere.        *)
LEMMA RefusesOK ==
  ASSUME ConstructionInv
  PROVE  Construction!RefusesDangling
<1>1. /\ phase = "error" => ~AllLead
      /\ phase = "done" => AllLead
  BY DEF ConstructionInv
<1>2. QED
  BY <1>1, ConstructionRange DEF Construction!RefusesDangling, AllLead

(* The submodels of a static model are as many as were declared, when no two  *)
(* have one id.                                                               *)
LEMMA AsManyModels ==
  ASSUME ModelsOK, DeclaredLists, Construction!DistinctIds
  PROVE  /\ Len(models) = Len(declared.models)
         /\ \A i, j \in 1 .. Len(models) : models[i].id = models[j].id => i = j
<1>1. declared.models \in Seq(Range(declared.models)) /\ DOMAIN declared.models = 1 .. Len(declared.models)
  BY RangeIs DEF DeclaredLists
<1>2. \A i, j \in 1 .. Len(declared.models) : declared.models[i].id = declared.models[j].id => i = j
  BY <1>1 DEF Construction!DistinctIds
<1>3. Injects(declared.models)
  BY <1>2 DEF Injects
<1>4. CASE declared.static
  <2>1. Injects(models) /\ models \in Seq(Range(models)) /\ Range(models) = Range(declared.models)
    BY <1>4 DEF ModelsOK
  <2>2. Len(models) = Cardinality(Range(models))
    BY <2>1, InjectsLen
  <2>3. Len(declared.models) = Cardinality(Range(declared.models))
    BY <1>1, <1>3, InjectsLen
  <2>4. \A x, y \in Range(declared.models) : x.id = y.id => x = y
    <3>1. \A x \in Range(declared.models) : \E i \in 1 .. Len(declared.models) : declared.models[i] = x
      BY <1>1, RangeIs
    <3>2. QED
      BY <1>2, <3>1
  <2>5. \A i \in 1 .. Len(models) : models[i] \in Range(declared.models)
    BY <2>1, RangeIs
  <2>6. QED
    BY <2>1, <2>2, <2>3, <2>4, <2>5 DEF Injects
<1>5. CASE ~declared.static
  BY <1>2, <1>5 DEF ModelsOK
<1>6. QED
  BY <1>4, <1>5

(* The engine of an id is the one that has it.                                *)
LEMMA EngineIs ==
  ASSUME DOMAIN engines = 1 .. Len(engines), Len(engines) \in Nat,
         \A i, j \in 1 .. Len(engines) : engines[i].id = engines[j].id => i = j,
         NEW id, NEW k \in 1 .. Len(engines), engines[k].id = id
  PROVE  Construction!EngineOf(id) = CHOOSE i \in DOMAIN engines : engines[i].id = id
<1>1. \A i \in DOMAIN engines : engines[i].id = id => i = k
  OBVIOUS
<1>2. (CHOOSE i \in DOMAIN engines : engines[i].id = id) = k
  BY <1>1
<1>3. \A j \in 1 .. k - 1 : j \in DOMAIN engines /\ j # k
  OBVIOUS
<1>4. \A j \in 1 .. k - 1 : engines[j].id # id
  BY <1>1, <1>3
<1>5. Construction!EngineOf(id) = k
  BY <1>1, <1>4 DEF Construction!EngineOf
<1>6. QED
  BY <1>2, <1>5

(* A list of couplings, resolved: each from and to the engines of its ends.   *)
ResolvedAs(cs, list) ==
  /\ Len(cs) = Len(list)
  /\ \A i \in DOMAIN list : \A f \in DOMAIN Order(list)[i] :
       cs[i][f] = IF f \in {"from", "to"} THEN CHOOSE k \in DOMAIN engines : engines[k].id = Order(list)[i][f]
                  ELSE Order(list)[i][f]

LEMMA ResolvedIs ==
  ASSUME ConstructionInv, phase = "done", Construction!DistinctIds,
         NEW fields \in {{"from_port", "to", "to_port"}, {"from", "from_port", "to_port"},
                         {"from", "from_port", "to", "to_port"}},
         NEW list, Listed(list, fields), \A l \in Range(list) : Construction!Leads(l)
  PROVE  ResolvedAs(Resolved(Order(list)), list)
<1>1. ModelsOK /\ engines = models
      /\ declared \in [static : BOOLEAN, models : Submodels, eic : EICs, eoc : EOCs, ic : ICs]
  BY DEF ConstructionInv
<1>2. DeclaredLists
  BY <1>1, ListsDeclared
<1>3. \A i, j \in 1 .. Len(engines) : engines[i].id = engines[j].id => i = j
  BY <1>1, <1>2, AsManyModels
<1>4. /\ Len(engines) \in Nat /\ DOMAIN engines = 1 .. Len(engines)
      /\ Range(engines) = Range(declared.models) /\ Range(engines) = {engines[i] : i \in 1 .. Len(engines)}
  BY <1>1, RangeIs DEF ModelsOK
<1> DEFINE o == Order(list)
<1>5. list \in Seq(Range(list)) /\ \A l \in Range(list) : DOMAIN l = fields
  BY DEF Listed
<1>6. DOMAIN list = 1 .. Len(list) /\ Len(list) \in Nat
      /\ DOMAIN o = 1 .. Len(list) /\ Range(o) = Range(list)
  BY <1>5, OrderIs, RangeIs
<1> HIDE DEF o
<1>7. DOMAIN Resolved(o) = 1 .. Len(list) /\ Len(Resolved(o)) = Len(list)
  BY <1>6 DEF Resolved
<1>8. ASSUME NEW i \in DOMAIN list, NEW f \in DOMAIN o[i]
      PROVE  Resolved(o)[i][f] = IF f \in {"from", "to"} THEN CHOOSE k \in DOMAIN engines : engines[k].id = o[i][f]
                                 ELSE o[i][f]
  <2>1. o[i] \in Range(list)
    BY <1>6 DEF Range
  <2>2. Resolved(o)[i][f] = EndsAt(o[i], f)
    BY <1>6 DEF Resolved
  <2>3. ASSUME f \in {"from", "to"}
        PROVE  Construction!EngineOf(o[i][f]) = CHOOSE k \in DOMAIN engines : engines[k].id = o[i][f]
    <3>1. DOMAIN o[i] = fields /\ Construction!Leads(o[i])
      BY <1>5, <2>1
    <3>2. \E m \in Range(declared.models) : m.id = o[i][f]
      BY <2>3, <3>1, LeadsToIds
    <3>3. PICK k \in 1 .. Len(engines) : engines[k].id = o[i][f]
      BY <1>4, <3>2
    <3>4. QED
      BY <1>3, <1>4, <3>3, EngineIs
  <2>4. QED
    BY <2>2, <2>3 DEF EndsAt
<1>9. QED
  BY <1>7, <1>8 DEF ResolvedAs, o

LEMMA CouplesOK ==
  ASSUME ConstructionInv
  PROVE  Construction!CouplesAsDeclared
<1> SUFFICES ASSUME phase = "done", Construction!DistinctIds
             PROVE  /\ Range(engines) = Range(declared.models) /\ Len(engines) = Len(declared.models)
                    /\ ResolvedAs(couplings.eic, declared.eic) /\ ResolvedAs(couplings.eoc, declared.eoc)
                    /\ ResolvedAs(couplings.ic, declared.ic)
  <2>1. QED
    BY ConstructionRange DEF Construction!CouplesAsDeclared, ResolvedAs, Order
<1>1. ModelsOK /\ engines = models /\ AllLead
      /\ declared \in [static : BOOLEAN, models : Submodels, eic : EICs, eoc : EOCs, ic : ICs]
      /\ couplings = [eic |-> Resolved(Order(declared.eic)), eoc |-> Resolved(Order(declared.eoc)),
                      ic  |-> Resolved(Order(declared.ic))]
  BY DEF ConstructionInv
<1>2. DeclaredLists
  BY <1>1, ListsDeclared
<1>3. Range(engines) = Range(declared.models) /\ Len(engines) = Len(declared.models)
  BY <1>1, <1>2, AsManyModels DEF ModelsOK
<1>4. ResolvedAs(Resolved(Order(declared.eic)), declared.eic)
  BY <1>1, <1>2, ResolvedIs DEF AllLead, DeclaredLists
<1>5. ResolvedAs(Resolved(Order(declared.eoc)), declared.eoc)
  BY <1>1, <1>2, ResolvedIs DEF AllLead, DeclaredLists
<1>6. ResolvedAs(Resolved(Order(declared.ic)), declared.ic)
  BY <1>1, <1>2, ResolvedIs DEF AllLead, DeclaredLists
<1>7. QED
  BY <1>1, <1>3, <1>4, <1>5, <1>6

(* A coupled model is refused exactly when one of its couplings leads nowhere, *)
(* and otherwise couples its engines as it declares: Models!CouplesAsDeclared. *)
THEOREM CouplesAsDeclaredAlways ==
  ModelsSpec => []CouplesAsDeclared
<1> DEFINE Inv == part = "construction" => ConstructionInv
<1>1. ModelsInit => Inv
  BY ConstructionStart DEF ModelsInit
<1>2. Inv /\ [ModelsNext]_<<part, vars, g_vars, b_vars, s_vars, c_vars>> => Inv'
  BY ConstructionStep, ConstructionStays DEF ModelsNext
<1>3. Inv => CouplesAsDeclared
  BY RefusesOK, CouplesOK DEF CouplesAsDeclared
<1>4. QED
  BY <1>1, <1>2, <1>3, PTL DEF ModelsSpec
-----------------------------------------------------------------------------
(***************************************************************************)
(* The file that is played.                                                *)
(***************************************************************************)
Texts == {l.msg : l \in Range(stream.lines)} \cup {Nothing}

Readers == [simulation_time : Nat, next_time : Nat, next_input_time : Int, last_input_read : Texts,
            next_input : Seq(Texts), initialization : BOOLEAN]

Calls == [st : Readers, calls : Nat]

(* The lines that are played or next to be.                                   *)
Reach(st, p) == p + Len(st.next_input)

(* Of the lines up to p, which were played, none is later than the present    *)
(* time, and those up to Reach come next, at one time.                        *)
Ahead(st, p) ==
  /\ st \in Readers /\ ~st.initialization
  /\ st.next_time # Infinity
  /\ p \in Nat /\ p < Reach(st, p) /\ Reach(st, p) <= Len(stream.lines)
  /\ \A i \in 1 .. p : stream.lines[i].time <= st.simulation_time
  /\ \A i \in p + 1 .. Reach(st, p) :
       /\ stream.lines[i].time = st.simulation_time + st.next_time
       /\ stream.lines[i].msg = st.next_input[i - p]

(* The line after these was read.                                             *)
ReadAfter(x, p) ==
  IF Reach(x.st, p) < Len(stream.lines)
  THEN /\ x.calls = Reach(x.st, p) + 1
       /\ x.st.last_input_read = stream.lines[Reach(x.st, p) + 1].msg
       /\ x.st.next_input_time = stream.lines[Reach(x.st, p) + 1].time - x.st.simulation_time
  ELSE x.calls > Len(stream.lines) /\ x.st.next_input_time = Infinity

(* Every line was played.                                                     *)
Over(x, p) ==
  x.st \in Readers /\ ~x.st.initialization /\ x.st.next_time = Infinity /\ p = Len(stream.lines)

Reading(x, p) == x.calls \in Nat /\ (Over(x, p) \/ (Ahead(x.st, p) /\ ReadAfter(x, p)))

NotStarted ==
  /\ calls = 0 /\ played = <<>>
  /\ s = [simulation_time |-> 0, next_time |-> 0, next_input_time |-> 0,
          last_input_read |-> Nothing, next_input |-> <<>>, initialization |-> TRUE]

Played ==
  /\ Reading([st |-> s, calls |-> calls], Len(played))
  /\ played = SubSeq(stream.lines, 1, Len(played)) /\ Len(played) \in 0 .. Len(stream.lines)

StreamInv ==
  /\ stream \in [lines : Files, newline : BOOLEAN]
  /\ Stream!Readable => NotStarted \/ Played

(* What is known of the lines of a file that can be played.                   *)
InOrder ==
  /\ Infinity \in Nat \ {0}
  /\ stream.lines \in Seq([time : 0 .. Infinity - 1, msg : Texts])
  /\ Len(stream.lines) \in Nat \ {0} /\ DOMAIN stream.lines = 1 .. Len(stream.lines)
  /\ \A i \in 1 .. Len(stream.lines) :
       /\ stream.lines[i] = [time |-> stream.lines[i].time, msg |-> stream.lines[i].msg]
       /\ stream.lines[i].time \in 0 .. Infinity - 1
       /\ stream.lines[i].msg \in Texts
  /\ \A i, j \in 1 .. Len(stream.lines) : i < j => stream.lines[i].time <= stream.lines[j].time
  /\ stream.newline => \E i, j \in 1 .. Len(stream.lines) :
                         0 < stream.lines[i].time /\ stream.lines[i].time < stream.lines[j].time

LEMMA LinesInOrder ==
  ASSUME stream \in [lines : Files, newline : BOOLEAN], Stream!Readable
  PROVE  InOrder
<1> DEFINE q == stream.lines
           S == [time : 0 .. Infinity - 1, msg : {l.msg : l \in Range(q)}]
<1>1. q \in Files
  OBVIOUS
<1>2. q \in Seq(S)
  BY <1>1, ModelsAssumption
<1>3. Len(q) \in Nat /\ DOMAIN q = 1 .. Len(q) /\ \A i \in 1 .. Len(q) : q[i] \in S
  <2> HIDE DEF S, q
  <2>1. QED
    BY <1>2, LenProperties
<1>4. Infinity \in Nat \ {0}
  BY CellAssumption
<1>5. q # <<>>
  BY DEF Stream!Readable
<1>6. Len(q) # 0
  <2> HIDE DEF S, q
  <2>1. QED
    BY <1>2, <1>5, EmptySeq
<1>7. \A i \in 1 .. Len(q) : /\ q[i] = [time |-> q[i].time, msg |-> q[i].msg]
                             /\ q[i].time \in 0 .. Infinity - 1
                             /\ q[i].msg \in Texts
  BY <1>3 DEF Texts
<1>8. /\ \A i, j \in 1 .. Len(q) : i < j => q[i].time <= q[j].time
      /\ stream.newline => \E i, j \in 1 .. Len(q) : 0 < q[i].time /\ q[i].time < q[j].time
  BY <1>3 DEF Stream!Readable
<1>9. q \in Seq([time : 0 .. Infinity - 1, msg : Texts])
  <2> DEFINE T == [time : 0 .. Infinity - 1, msg : Texts]
  <2>1. S \subseteq T
    BY DEF Texts
  <2> HIDE DEF S, T, q
  <2>2. q \in Seq(T)
    BY <1>2, <2>1, SeqMonotonic
  <2>3. QED
    BY <2>2 DEF T
<1>10. QED
  BY <1>3, <1>4, <1>6, <1>7, <1>8, <1>9 DEF InOrder

LEMMA LineIs ==
  ASSUME InOrder, NEW k \in 1 .. Len(stream.lines)
  PROVE  /\ stream.lines[k] = [time |-> stream.lines[k].time, msg |-> stream.lines[k].msg]
         /\ stream.lines[k].time \in Nat /\ stream.lines[k].time < Infinity
         /\ stream.lines[k].msg \in Texts
<1>1. stream.lines[k].time \in 0 .. Infinity - 1 /\ Infinity \in Nat
  BY DEF InOrder
<1>2. stream.lines[k].time \in Nat /\ stream.lines[k].time < Infinity
  BY <1>1
<1>3. QED
  BY <1>2 DEF InOrder

(* A reader with another line at hand.                                        *)
WithLine(st, delay, m) == [st EXCEPT !.next_input_time = delay, !.last_input_read = m]

LEMMA WithLineIs ==
  ASSUME NEW st \in Readers, NEW delay \in Int, NEW m \in Texts
  PROVE  /\ WithLine(st, delay, m) \in Readers
         /\ WithLine(st, delay, m).next_input_time = delay
         /\ WithLine(st, delay, m).last_input_read = m
         /\ WithLine(st, delay, m).simulation_time = st.simulation_time
         /\ WithLine(st, delay, m).next_time = st.next_time
         /\ WithLine(st, delay, m).next_input = st.next_input
         /\ WithLine(st, delay, m).initialization = st.initialization
BY DEF Readers, WithLine

LEMMA NoLine ==
  ASSUME NEW st \in Readers, NEW delay \in Int
  PROVE  [st EXCEPT !.next_input_time = delay] = WithLine(st, delay, st.last_input_read)
BY DEF Readers, WithLine

(* What is read: nothing more, a line, or after the last one with a newline   *)
(* an empty one.                                                              *)
LEMMA ReadFollowingIs ==
  ASSUME InOrder, NEW st \in Readers, NEW k \in Nat \ {0}
  PROVE  LET t == Stream!ReadFollowing(st, k)
         IN  /\ k <= Len(stream.lines) /\ ~(stream.lines[k].time < st.simulation_time) =>
                  t = WithLine(st, stream.lines[k].time - st.simulation_time, stream.lines[k].msg)
             /\ k <= Len(stream.lines) /\ stream.lines[k].time < st.simulation_time =>
                  t = WithLine(st, Infinity, st.last_input_read)
             /\ k > Len(stream.lines) /\ (stream.newline => 0 < st.simulation_time) =>
                  t = WithLine(st, Infinity, st.last_input_read)
             /\ k > Len(stream.lines) /\ stream.newline /\ st.simulation_time = 0 =>
                  t = WithLine(st, Infinity, st.last_input_read) \/ t = WithLine(st, 0, Nothing)
<1> DEFINE n == Len(stream.lines)
           t == Stream!ReadFollowing(st, k)
           over == IF stream.newline \/ stream.lines = <<>> THEN 1 ELSE 0
<1>1. n \in Nat \ {0} /\ Infinity \in Nat /\ over \in {0, 1} /\ (stream.newline => over = 1)
  BY DEF InOrder
<1>2. [st EXCEPT !.next_input_time = Infinity] = WithLine(st, Infinity, st.last_input_read)
      /\ st.simulation_time \in Nat
  <2>1. Infinity \in Int
    BY <1>1
  <2>2. [st EXCEPT !.next_input_time = Infinity] = WithLine(st, Infinity, st.last_input_read)
    BY <2>1, NoLine
  <2>3. st.simulation_time \in Nat
    BY DEF Readers
  <2>4. QED
    BY <2>2, <2>3
<1>3. Stream!Throws(k) <=> k > n + over
  BY DEF Stream!Throws
<1>4. t = IF Stream!Throws(k) \/ Stream!NextTimedInput(k).time < st.simulation_time
          THEN WithLine(st, Infinity, st.last_input_read)
          ELSE WithLine(st, Stream!NextTimedInput(k).time - st.simulation_time, Stream!NextTimedInput(k).msg)
  BY <1>2 DEF Stream!ReadFollowing, WithLine
<1> HIDE DEF over
<1>5. ASSUME k <= n
      PROVE  Stream!NextTimedInput(k) = stream.lines[k] /\ ~Stream!Throws(k)
  <2>1. ~(k > n + over)
    BY <1>1, <1>5
  <2>2. QED
    BY <1>3, <1>5, <2>1 DEF Stream!NextTimedInput
<1>6. ASSUME k > n
      PROVE  Stream!NextTimedInput(k).time = 0 /\ Stream!NextTimedInput(k).msg = Nothing
             /\ (stream.newline \/ Stream!Throws(k))
  <2>1. ~(k <= n)
    BY <1>1, <1>6
  <2>2. stream.lines # <<>>
    BY DEF InOrder
  <2>3. ~stream.newline => over = 0
    BY <2>2 DEF over
  <2>4. over = 0 => k > n + over
    BY <1>1, <1>6
  <2>5. Stream!NextTimedInput(k) = [time |-> 0, msg |-> Nothing]
    BY <2>1 DEF Stream!NextTimedInput
  <2>6. QED
    BY <1>3, <2>3, <2>4, <2>5
<1> HIDE DEF t
<1>7. k <= n => /\ ~(stream.lines[k].time < st.simulation_time) =>
                     t = WithLine(st, stream.lines[k].time - st.simulation_time, stream.lines[k].msg)
                /\ stream.lines[k].time < st.simulation_time => t = WithLine(st, Infinity, st.last_input_read)
  BY <1>4, <1>5
<1>8. k > n /\ (stream.newline => 0 < st.simulation_time) => t = WithLine(st, Infinity, st.last_input_read)
  BY <1>4, <1>6
<1>9. k > n /\ stream.newline /\ st.simulation_time = 0 =>
        t = WithLine(st, Infinity, st.last_input_read) \/ t = WithLine(st, 0, Nothing)
  BY <1>4, <1>6
<1>10. QED
  BY <1>7, <1>8, <1>9 DEF t

(* Whatever is read, only the line at hand changes.                           *)
LEMMA ReadFollowingKeeps ==
  ASSUME InOrder, NEW st \in Readers, NEW k \in Nat \ {0}
  PROVE  \E delay \in Int, m \in Texts : Stream!ReadFollowing(st, k) = WithLine(st, delay, m)
<1>1. Infinity \in Int /\ st.last_input_read \in Texts /\ st.simulation_time \in Nat /\ Nothing \in Texts
      /\ Len(stream.lines) \in Nat
  BY DEF InOrder, Readers, Texts
<1>2. CASE k <= Len(stream.lines)
  <2>1. k \in 1 .. Len(stream.lines)
    BY <1>2
  <2>2. stream.lines[k].time \in Nat /\ stream.lines[k].msg \in Texts
    BY <2>1, LineIs
  <2>3. stream.lines[k].time - st.simulation_time \in Int
    BY <1>1, <2>2
  <2>4. QED
    BY <1>1, <1>2, <2>2, <2>3, ReadFollowingIs
<1>3. CASE ~(k <= Len(stream.lines))
  <2>1. k > Len(stream.lines) /\ (st.simulation_time = 0 \/ 0 < st.simulation_time)
    BY <1>1, <1>3
  <2>2. QED
    BY <1>1, <2>1, ReadFollowingIs
<1>4. QED
  BY <1>2, <1>3

(* Another line is read: the one after those that come next.                  *)
LEMMA ReadAnother ==
  ASSUME InOrder, NEW p, NEW st, Ahead(st, p)
  PROVE  LET x == [st |-> Stream!ReadFollowing(st, Reach(st, p) + 1), calls |-> Reach(st, p) + 1]
         IN  x \in Calls /\ Reading(x, p)
<1> DEFINE q == Reach(st, p)
           n == Len(stream.lines)
           t == Stream!ReadFollowing(st, q + 1)
<1>1. /\ n \in Nat \ {0} /\ q \in Nat /\ p < q /\ q <= n /\ p \in Nat /\ Infinity \in Nat \ {0}
      /\ st \in Readers /\ ~st.initialization /\ st.next_time # Infinity
      /\ st.simulation_time \in Nat /\ st.next_time \in Nat
  BY DEF Ahead, InOrder, Reach, Readers
<1>2. q + 1 \in Nat \ {0} /\ p + 1 \in Nat
  BY <1>1
<1> HIDE DEF q, t, n
<1>3. \A k \in 1 .. n : stream.lines[k].time \in Nat /\ stream.lines[k].msg \in Texts
  BY LineIs DEF n
<1>4. /\ \A i \in 1 .. p : stream.lines[i].time <= st.simulation_time
      /\ \A i \in p + 1 .. q : stream.lines[i].time = st.simulation_time + st.next_time
  BY DEF Ahead, q
<1>5. PICK delay \in Int, m \in Texts : t = WithLine(st, delay, m)
  BY <1>1, <1>2, ReadFollowingKeeps DEF t
<1>6. t \in Readers /\ ~t.initialization /\ t.next_time = st.next_time
      /\ t.simulation_time = st.simulation_time /\ t.next_input = st.next_input
  BY <1>1, <1>5, WithLineIs
<1>7. Reach(t, p) = q
  BY <1>6 DEF Reach, q
<1>8. Ahead(t, p)
  BY <1>6, <1>7 DEF Ahead, q
<1> DEFINE x == [st |-> t, calls |-> q + 1]
<1>9. ReadAfter(x, p)
  <2>1. CASE q < n
    <3>1. q + 1 \in 1 .. n /\ q \in 1 .. n /\ q < q + 1 /\ q \in p + 1 .. q /\ q + 1 <= n
      BY <1>1, <2>1
    <3>2. stream.lines[q].time <= stream.lines[q + 1].time
      BY <3>1 DEF InOrder, n
    <3>3. stream.lines[q].time = st.simulation_time + st.next_time
      BY <1>4, <3>1
    <3>4. stream.lines[q + 1].time \in Nat /\ stream.lines[q + 1].msg \in Texts
      BY <1>3, <3>1
    <3>5. ~(stream.lines[q + 1].time < st.simulation_time)
      BY <1>1, <3>2, <3>3, <3>4
    <3>6. t = WithLine(st, stream.lines[q + 1].time - st.simulation_time, stream.lines[q + 1].msg)
      BY <1>1, <1>2, <3>1, <3>5, ReadFollowingIs DEF t, n
    <3>7. t.next_input_time = stream.lines[q + 1].time - st.simulation_time
          /\ t.last_input_read = stream.lines[q + 1].msg
      <4>1. stream.lines[q + 1].time - st.simulation_time \in Int
        BY <1>1, <3>4
      <4>2. QED
        BY <1>1, <3>4, <3>6, <4>1, WithLineIs
    <3>8. QED
      BY <1>6, <1>7, <2>1, <3>7 DEF ReadAfter, n
  <2>2. CASE ~(q < n)
    <3>1. q = n
      BY <1>1, <2>2
    <3>2. stream.newline => 0 < st.simulation_time
      <4>1. SUFFICES ASSUME stream.newline, st.simulation_time = 0
                     PROVE  FALSE
        BY <1>1
      <4>2. PICK i \in 1 .. n, j \in 1 .. n :
              0 < stream.lines[i].time /\ stream.lines[i].time < stream.lines[j].time
        BY <4>1 DEF InOrder, n
      <4>3. ASSUME NEW k \in 1 .. n
            PROVE  stream.lines[k].time = 0 \/ stream.lines[k].time = st.next_time
        <5>1. CASE k <= p
          <6>1. k \in 1 .. p
            BY <1>1, <5>1
          <6>2. stream.lines[k].time <= 0 /\ stream.lines[k].time \in Nat
            BY <1>3, <1>4, <4>1, <6>1
          <6>3. QED
            BY <6>2
        <5>2. CASE ~(k <= p)
          <6>1. k \in p + 1 .. q
            BY <1>1, <3>1, <5>2
          <6>2. stream.lines[k].time = st.simulation_time + st.next_time
            BY <1>4, <6>1
          <6>3. QED
            BY <1>1, <4>1, <6>2
        <5>3. QED
          BY <5>1, <5>2
      <4>4. stream.lines[i].time \in Nat /\ stream.lines[j].time \in Nat
        BY <1>3
      <4>5. QED
        BY <4>2, <4>3, <4>4
    <3>3. q + 1 > n
      BY <1>1, <3>1
    <3>4. t = WithLine(st, Infinity, st.last_input_read)
      BY <1>1, <1>2, <3>2, <3>3, ReadFollowingIs DEF t, n
    <3>5. t.next_input_time = Infinity
      <4>1. Infinity \in Int /\ st.last_input_read \in Texts
        BY <1>1 DEF Readers
      <4>2. QED
        BY <1>1, <3>4, <4>1, WithLineIs
    <3>6. QED
      BY <1>7, <2>2, <3>3, <3>5 DEF ReadAfter, n
  <2>3. QED
    BY <2>1, <2>2
<1>10. x \in Calls /\ x.calls \in Nat
  BY <1>1, <1>6 DEF Calls
<1>11. QED
  BY <1>8, <1>9, <1>10 DEF Reading, q, t

(* A line joins those that come next, if there is one for their time.         *)
LEMMA JoinOne ==
  ASSUME InOrder, NEW p, NEW x \in Calls, Reading(x, p)
  PROVE  LET y == Stream!JoinWithTheSameTime(x) IN y \in Calls /\ Reading(y, p)
<1> DEFINE y == Stream!JoinWithTheSameTime(x)
<1>1. CASE ~(x.st.next_time = x.st.next_input_time /\ x.st.next_time # Infinity)
  BY <1>1 DEF Stream!JoinWithTheSameTime
<1>2. CASE x.st.next_time = x.st.next_input_time /\ x.st.next_time # Infinity
  <2> DEFINE q == Reach(x.st, p)
             m == x.st.last_input_read
             t == [x.st EXCEPT !.next_input = Append(@, m)]
  <2>1. Ahead(x.st, p) /\ ReadAfter(x, p)
    BY <1>2 DEF Reading, Over
  <2>2. /\ q < Len(stream.lines) /\ x.calls = q + 1 /\ m = stream.lines[q + 1].msg
        /\ x.st.next_input_time = stream.lines[q + 1].time - x.st.simulation_time
    BY <1>2, <2>1 DEF ReadAfter
  <2>3. /\ q \in Nat /\ p \in Nat /\ p < q /\ x.st \in Readers /\ Len(stream.lines) \in Nat
        /\ Len(x.st.next_input) \in Nat /\ q = p + Len(x.st.next_input) /\ ~x.st.initialization
    BY SMTT(40), <2>1 DEF Ahead, Reach, Readers, InOrder
  <2>4. x.st.next_input \in Seq(Texts) /\ m \in Texts /\ x.st.simulation_time \in Nat /\ x.st.next_time \in Nat
    BY <2>3 DEF Readers
  <2>5. q + 1 \in 1 .. Len(stream.lines)
    BY <2>2, <2>3
  <2>6. stream.lines[q + 1] = [time |-> stream.lines[q + 1].time, msg |-> m]
        /\ stream.lines[q + 1].time \in Nat
    BY <2>2, <2>5 DEF InOrder
  <2>7. stream.lines[q + 1].time = x.st.simulation_time + x.st.next_time
    BY <1>2, <2>2, <2>4, <2>6
  <2>8. /\ t \in Readers /\ ~t.initialization /\ t.next_time = x.st.next_time
        /\ t.simulation_time = x.st.simulation_time
        /\ t.next_input = Append(x.st.next_input, m)
    <3>1. Append(x.st.next_input, m) \in Seq(Texts)
      BY <2>4
    <3>2. QED
      BY <2>3, <3>1 DEF Readers
  <2>9. Len(t.next_input) = Len(x.st.next_input) + 1
        /\ \A k \in 1 .. Len(x.st.next_input) + 1 :
             t.next_input[k] = IF k <= Len(x.st.next_input) THEN x.st.next_input[k] ELSE m
    <3> HIDE DEF m, t
    <3>1. QED
      BY <2>3, <2>4, <2>8
  <2>10. Reach(t, p) = q + 1
    BY <2>3, <2>9 DEF Reach
  <2>11. ASSUME NEW i \in p + 1 .. q + 1
         PROVE  stream.lines[i].time = t.simulation_time + t.next_time /\ stream.lines[i].msg = t.next_input[i - p]
    <3> HIDE DEF t, m
    <3>1. CASE i = q + 1
      <4>1. i - p \in 1 .. Len(x.st.next_input) + 1 /\ ~(i - p <= Len(x.st.next_input))
        BY SMTT(40), <2>3, <3>1
      <4>2. t.next_input[i - p] = m
        BY <2>9, <4>1
      <4>3. QED
        BY <2>6, <2>7, <2>8, <3>1, <4>2
    <3>2. CASE i # q + 1
      <4>1. i \in p + 1 .. q /\ i - p \in 1 .. Len(x.st.next_input) + 1 /\ i - p <= Len(x.st.next_input)
        BY <2>3, <3>2
      <4>2. t.next_input[i - p] = x.st.next_input[i - p]
        BY <2>9, <4>1
      <4>3. QED
        BY <2>1, <2>8, <4>1, <4>2 DEF Ahead
    <3>3. QED
      BY <3>1, <3>2
  <2> HIDE DEF t
  <2>12. Ahead(t, p)
    <3>1. p < q + 1 /\ q + 1 <= Len(stream.lines)
      BY <2>3, <2>5
    <3>2. \A i \in 1 .. p : stream.lines[i].time <= t.simulation_time
      BY <2>1, <2>8 DEF Ahead
    <3>3. QED
      BY <1>2, <2>3, <2>8, <2>10, <2>11, <3>1, <3>2 DEF Ahead
  <2>13. y = [st |-> Stream!ReadFollowing(t, Reach(t, p) + 1), calls |-> Reach(t, p) + 1]
    <3>1. y = [st |-> Stream!ReadFollowing(t, x.calls + 1), calls |-> x.calls + 1]
      BY <1>2 DEF Stream!JoinWithTheSameTime, t
    <3>2. QED
      BY <2>2, <2>10, <3>1
  <2>14. QED
    BY <2>12, <2>13, ReadAnother
<1>3. QED
  BY <1>1, <1>2

(* All lines for one time join, and more than there are lines never do.       *)
LEMMA JoinAll ==
  ASSUME InOrder, NEW p, NEW x \in Calls, Reading(x, p)
  PROVE  LET y == Stream!WithTheSameTime(x) IN y \in Calls /\ Reading(y, p)
<1> DEFINE N == Len(stream.lines) + 2
           S == {y \in Calls : Reading(y, p)}
           F == [k \in 1 .. N |-> [y \in S |-> Stream!JoinWithTheSameTime(y)]]
           Step(f) == [k \in 0 .. N |-> IF k = 0 THEN x ELSE Stream!JoinWithTheSameTime(f[k - 1])]
           after == CHOOSE f : f = Step(f)
<1>1. N \in Nat
  BY DEF InOrder
<1>2. x \in S /\ \A y \in S : Stream!JoinWithTheSameTime(y) \in S
  BY JoinOne
<1>3. F \in [1 .. N -> [S -> S]]
  BY <1>2
<1>4. Stream!WithTheSameTime(x) = after[N]
  BY DEF Stream!WithTheSameTime
<1> HIDE DEF N, S
<1>5. \E f : f = Step(f)
  <2>1. PICK r \in [0 .. N -> S] : Steps(r, x, F, N)
    <3> HIDE DEF F
    <3>1. QED
      BY <1>1, <1>2, <1>3, RecursionExists
  <2>2. ASSUME NEW k \in 0 .. N
        PROVE  r[k] = Step(r)[k]
    <3>1. CASE k = 0
      BY <2>1, <3>1 DEF Steps
    <3>2. CASE k # 0
      <4>1. k \in 1 .. N /\ k - 1 \in 0 .. N
        BY <1>1, <3>2
      <4>2. r[k] = F[k][r[k - 1]] /\ r[k - 1] \in S
        BY <2>1, <4>1 DEF Steps
      <4>3. QED
        BY <3>2, <4>1, <4>2
    <3>3. QED
      BY <3>1, <3>2
  <2>3. r = Step(r)
    BY <2>1, <2>2
  <2>4. QED
    BY <2>3
<1>6. after = Step(after)
  BY <1>5
<1> HIDE DEF after
<1>7. \A k \in 0 .. N : after[k] \in S
  <2>1. after[0] \in S
    BY <1>1, <1>2, <1>6
  <2>2. \A k \in 1 .. N : after[k - 1] \in S => after[k] \in S
    <3>1. \A k \in 1 .. N : k \in 0 .. N /\ k # 0
      BY <1>1
    <3>2. QED
      BY <1>2, <1>6, <3>1
  <2>3. QED
    BY <1>1, <2>1, <2>2, StaysIn
<1>8. after[N] \in S
  BY <1>1, <1>7
<1>9. QED
  BY <1>4, <1>8 DEF S

(* Records that differ in some fields.                                        *)
LEMMA ReaderIs ==
  ASSUME NEW st \in Readers
  PROVE  st = [simulation_time |-> st.simulation_time, next_time |-> st.next_time,
               next_input_time |-> st.next_input_time, last_input_read |-> st.last_input_read,
               next_input |-> st.next_input, initialization |-> st.initialization]
BY DEF Readers

LEMMA StartedIs ==
  ASSUME NEW st \in Readers, NEW d \in Nat
  PROVE  [[st EXCEPT !.simulation_time = d, !.next_input = <<>>] EXCEPT !.initialization = FALSE]
           = [simulation_time |-> d, next_time |-> st.next_time, next_input_time |-> st.next_input_time,
              last_input_read |-> st.last_input_read, next_input |-> <<>>, initialization |-> FALSE]
<1> DEFINE r == [[st EXCEPT !.simulation_time = d, !.next_input = <<>>] EXCEPT !.initialization = FALSE]
<1>1. <<>> \in Seq(Texts)
  OBVIOUS
<1>2. /\ r \in Readers /\ r.simulation_time = d /\ r.next_time = st.next_time
      /\ r.next_input_time = st.next_input_time /\ r.last_input_read = st.last_input_read
      /\ r.next_input = <<>> /\ r.initialization = FALSE
  BY <1>1 DEF Readers
<1> HIDE DEF r
<1>3. r = [simulation_time |-> d, next_time |-> st.next_time, next_input_time |-> st.next_input_time,
           last_input_read |-> st.last_input_read, next_input |-> <<>>, initialization |-> FALSE]
  BY <1>2, ReaderIs
<1>4. QED
  BY <1>3 DEF r

LEMMA FirstIs ==
  ASSUME NEW st \in Readers, NEW d \in Nat, NEW m \in Texts
  PROVE  [st EXCEPT !.next_time = d, !.last_input_read = m, !.next_input = <<m>>]
           = [simulation_time |-> st.simulation_time, next_time |-> d, next_input_time |-> st.next_input_time,
              last_input_read |-> m, next_input |-> <<m>>, initialization |-> st.initialization]
<1> DEFINE r == [st EXCEPT !.next_time = d, !.last_input_read = m, !.next_input = <<m>>]
<1>1. <<m>> \in Seq(Texts)
  OBVIOUS
<1>2. /\ r \in Readers /\ r.simulation_time = st.simulation_time /\ r.next_time = d
      /\ r.next_input_time = st.next_input_time /\ r.last_input_read = m
      /\ r.next_input = <<m>> /\ r.initialization = st.initialization
  BY <1>1 DEF Readers
<1> HIDE DEF r
<1>3. r = [simulation_time |-> st.simulation_time, next_time |-> d, next_input_time |-> st.next_input_time,
           last_input_read |-> m, next_input |-> <<m>>, initialization |-> st.initialization]
  BY <1>2, ReaderIs
<1>4. QED
  BY <1>3 DEF r

(* The first line is read, and then the one after it.                         *)
LEMMA FirstTransition ==
  ASSUME InOrder, NotStarted, Stream!InternalTransition
  PROVE  s' \in Readers /\ calls' \in Nat /\ Reading([st |-> s', calls |-> calls'], 0)
<1> DEFINE d == stream.lines[1].time
           m == stream.lines[1].msg
           now == [simulation_time |-> 0, next_time |-> 0, next_input_time |-> 0,
                   last_input_read |-> Nothing, next_input |-> <<>>, initialization |-> FALSE]
           first == [simulation_time |-> 0, next_time |-> d, next_input_time |-> 0,
                     last_input_read |-> m, next_input |-> <<m>>, initialization |-> FALSE]
<1>1. Len(stream.lines) \in Nat \ {0} /\ 1 \in 1 .. Len(stream.lines)
  BY DEF InOrder
<1>2. d \in Nat /\ d < Infinity /\ m \in Texts
  BY <1>1, LineIs
<1> HIDE DEF d, m
<1>3. /\ s \in Readers /\ s.simulation_time = 0 /\ s.next_time = 0 /\ s.next_input_time = 0
      /\ s.last_input_read = Nothing /\ s.initialization /\ calls = 0
  <2>1. <<>> \in Seq(Texts) /\ Nothing \in Texts
    BY DEF Texts
  <2>2. QED
    BY <2>1 DEF NotStarted, Readers
<1>4. now \in Readers /\ now.simulation_time = 0 /\ now.next_input_time = 0 /\ now.initialization = FALSE
  <2>1. <<>> \in Seq(Texts) /\ Nothing \in Texts
    BY DEF Texts
  <2>2. QED
    BY <2>1 DEF Readers
<1>5. /\ first \in Readers /\ ~first.initialization /\ first.next_time = d
      /\ first.simulation_time = 0 /\ first.next_input = <<m>>
  <2>1. <<m>> \in Seq(Texts)
    BY <1>2
  <2>2. QED
    BY <1>2, <2>1 DEF Readers
<1>6. [[s EXCEPT !.simulation_time = s.simulation_time + s.next_time, !.next_input = <<>>]
         EXCEPT !.initialization = FALSE] = now
  <2>1. s.simulation_time + s.next_time = 0 /\ 0 \in Nat
    BY <1>3
  <2>2. QED
    BY <1>3, <2>1, StartedIs
<1> HIDE DEF now
<1>7. [now EXCEPT !.next_time = d, !.last_input_read = m, !.next_input = <<m>>] = first
  BY <1>2, <1>4, FirstIs
<1> HIDE DEF first
<1>8. Stream!ReadFirst(now, 1) = first
  <2>1. ~Stream!Throws(1) /\ Stream!NextTimedInput(1) = stream.lines[1]
    <3>1. ~(1 > Len(stream.lines) + 1) /\ ~(1 > Len(stream.lines) + 0) /\ 1 <= Len(stream.lines)
      BY <1>1
    <3>2. QED
      BY <3>1 DEF Stream!NextTimedInput, Stream!Throws
  <2>2. ~(d < now.simulation_time) /\ d - now.simulation_time = d
    BY <1>2, <1>4
  <2>3. stream.lines[1].time = d /\ stream.lines[1].msg = m
    BY DEF d, m
  <2>4. Stream!ReadFirst(now, 1) = [now EXCEPT !.next_time = d, !.last_input_read = m, !.next_input = <<m>>]
    BY <2>1, <2>2, <2>3 DEF Stream!ReadFirst
  <2>5. QED
    BY <1>7, <2>4
<1> DEFINE read == [st |-> Stream!ReadFollowing(first, 2), calls |-> 2]
<1>9. s' = Stream!WithTheSameTime(read).st /\ calls' = Stream!WithTheSameTime(read).calls
  <2>1. calls + 1 = 1 /\ calls + 2 = 2
    BY <1>3
  <2>2. QED
    BY <1>3, <1>6, <1>8, <2>1 DEF Stream!InternalTransition
<1>10. Reach(first, 0) = 1
  BY <1>5 DEF Reach
<1>11. Ahead(first, 0)
  <2>1. first.next_time # Infinity
    BY <1>2, <1>5 DEF InOrder
  <2>2. \A i \in 0 + 1 .. 1 : i = 1 /\ i - 0 = 1
    OBVIOUS
  <2>3. first.simulation_time + first.next_time = stream.lines[1].time /\ first.next_input[1] = stream.lines[1].msg
    BY <1>2, <1>5 DEF d, m
  <2>4. QED
    BY <1>1, <1>5, <1>10, <2>1, <2>2, <2>3 DEF Ahead
<1>12. read \in Calls /\ Reading(read, 0)
  BY <1>10, <1>11, ReadAnother
<1> HIDE DEF read
<1> DEFINE y == Stream!WithTheSameTime(read)
<1>13. y \in Calls /\ Reading(y, 0)
  BY <1>12, JoinAll
<1> HIDE DEF y
<1>14. y.st \in Readers /\ y.calls \in Nat /\ y = [st |-> y.st, calls |-> y.calls]
  BY <1>13 DEF Calls
<1>15. QED
  BY <1>9, <1>13, <1>14 DEF y

(* What comes next is played behind what was.                                 *)
Continues(b, L, p) == p + Len(b) <= Len(L) /\ \A i \in 1 .. Len(b) : b[i] = L[p + i]

Continued(b, L, p) == SubSeq(L, 1, p) \o b = SubSeq(L, 1, p + Len(b)) /\ Len(SubSeq(L, 1, p)) = p

LEMMA PlayedMore ==
  ASSUME NEW S, NEW L \in Seq(S), NEW p \in Nat, NEW b \in Seq(S), Continues(b, L, p)
  PROVE  Continued(b, L, p)
<1> DEFINE n == Len(b)
           q == p + n
           a == SubSeq(L, 1, p)
           c == SubSeq(L, 1, q)
<1>1. n \in Nat /\ q \in Nat /\ Len(L) \in Nat /\ q <= Len(L) /\ p <= q /\ 1 \in Int /\ p \in Int /\ q \in Int
  BY LenProperties DEF Continues
<1> HIDE DEF n, q
<1>2. \A i \in 1 .. q : L[i] \in S
  <2>1. \A i \in 1 .. q : i \in 1 .. Len(L)
    BY <1>1
  <2>2. QED
    BY <2>1, ElementOfSeq
<1>3. \A i \in 1 .. p : L[i] \in S
  BY <1>1, <1>2
<1>4. a \in Seq(S) /\ Len(a) = (IF 1 <= p THEN p - 1 + 1 ELSE 0) /\ \A i \in 1 .. p - 1 + 1 : a[i] = L[1 + i - 1]
  BY <1>1, <1>3, SubSeqProperties
<1>5. c \in Seq(S) /\ Len(c) = (IF 1 <= q THEN q - 1 + 1 ELSE 0) /\ \A i \in 1 .. q - 1 + 1 : c[i] = L[1 + i - 1]
  BY <1>1, <1>2, SubSeqProperties
<1> HIDE DEF a, c
<1>6. Len(a) = p /\ \A i \in 1 .. p : a[i] = L[i]
  BY <1>1, <1>4
<1>7. Len(c) = q /\ \A i \in 1 .. q : c[i] = L[i]
  BY <1>1, <1>5
<1>8. a \o b \in Seq(S) /\ Len(a \o b) = p + n
      /\ \A i \in 1 .. p + n : (a \o b)[i] = IF i <= p THEN a[i] ELSE b[i - p]
  BY <1>4, <1>6, ConcatProperties DEF n
<1>9. ASSUME NEW i \in 1 .. q
      PROVE  (a \o b)[i] = c[i]
  <2>1. CASE i <= p
    <3>1. i \in 1 .. p /\ i \in 1 .. p + n
      BY <1>1, <1>9, <2>1 DEF q
    <3>2. QED
      BY <1>6, <1>7, <1>8, <1>9, <2>1, <3>1
  <2>2. CASE ~(i <= p)
    <3>1. i - p \in 1 .. n /\ p + (i - p) = i /\ i \in 1 .. p + n
      BY <1>1, <1>9, <2>2 DEF q
    <3>2. b[i - p] = L[i]
      BY <3>1 DEF n, Continues
    <3>3. QED
      BY <1>7, <1>8, <1>9, <2>2, <3>1, <3>2
  <2>3. QED
    BY <2>1, <2>2
<1>10. Len(a \o b) = Len(c)
  BY <1>7, <1>8 DEF q
<1>11. a \o b = c
  BY <1>5, <1>7, <1>8, <1>9, <1>10, SeqEqual
<1>12. QED
  BY <1>6, <1>11 DEF Continued, a, c, q, n

LEMMA PlaysLines ==
  ASSUME InOrder, Played, s.next_time # Infinity, Stream!Play
  PROVE  /\ played' = SubSeq(stream.lines, 1, Reach(s, Len(played)))
         /\ Len(played') = Reach(s, Len(played)) /\ Reach(s, Len(played)) \in 0 .. Len(stream.lines)
<1> DEFINE p == Len(played)
           q == Reach(s, p)
           L == stream.lines
           b == [i \in DOMAIN s.next_input |-> [time |-> s.simulation_time + s.next_time, msg |-> s.next_input[i]]]
           S == [time : 0 .. Infinity - 1, msg : Texts]
<1>1. Ahead(s, p) /\ played = SubSeq(L, 1, p)
  BY DEF Played, Reading, Over
<1>2. /\ p \in Nat /\ q \in Nat /\ q <= Len(L) /\ Len(L) \in Nat /\ q = p + Len(s.next_input)
      /\ s.next_input \in Seq(Texts) /\ Len(s.next_input) \in Nat
  BY <1>1 DEF Ahead, Reach, InOrder, Readers
<1>3. played' = played \o b
  BY DEF Stream!Play, Stream!Output
<1>4. DOMAIN s.next_input = 1 .. Len(s.next_input)
  BY <1>2, LenProperties
<1>5. \A i \in 1 .. Len(s.next_input) : p + i \in 1 .. Len(L) /\ p + i \in p + 1 .. q /\ (p + i) - p = i
  BY <1>2
<1>6. \A i \in 1 .. Len(s.next_input) : b[i] = L[p + i]
  <2> SUFFICES ASSUME NEW i \in 1 .. Len(s.next_input)
               PROVE  b[i] = L[p + i]
    OBVIOUS
  <2> DEFINE k == p + i
  <2>1. k \in 1 .. Len(L) /\ k \in p + 1 .. q /\ k - p = i
    BY <1>5
  <2> HIDE DEF k
  <2>2. L[k].time = s.simulation_time + s.next_time /\ L[k].msg = s.next_input[i]
    BY <1>1, <2>1 DEF Ahead
  <2>3. L[k] = [time |-> L[k].time, msg |-> L[k].msg]
    BY <2>1, LineIs
  <2>4. b[i] = [time |-> s.simulation_time + s.next_time, msg |-> s.next_input[i]]
    BY <1>4
  <2>5. QED
    BY <2>2, <2>3, <2>4 DEF k
<1>7. b = [i \in 1 .. Len(s.next_input) |-> b[i]]
  BY <1>4
<1>8. \A i \in 1 .. Len(s.next_input) : b[i] \in S
  <2>1. L \in Seq(S)
    BY DEF InOrder
  <2> HIDE DEF b, S
  <2>2. QED
    BY <1>5, <1>6, <2>1, ElementOfSeq
<1> HIDE DEF b
<1>9. L \in Seq(S)
  BY DEF InOrder
<1> HIDE DEF S
<1>10. b \in Seq(S) /\ Len(b) = Len(s.next_input)
  <2> DEFINE n == Len(s.next_input)
  <2>1. b \in [1 .. n -> S]
    BY <1>7, <1>8
  <2>2. n \in Nat
    BY <1>2
  <2> HIDE DEF n, p, q, L
  <2>3. b \in Seq(S) /\ Len(b) = n
    BY <2>1, <2>2
  <2>4. QED
    BY <2>3 DEF n
<1> HIDE DEF L, p, q
<1>11. p + Len(b) = q /\ Continues(b, L, p)
  BY <1>2, <1>6, <1>10 DEF Continues
<1>12. played \o b = SubSeq(L, 1, q)
  <2>1. SubSeq(L, 1, p) \o b = SubSeq(L, 1, p + Len(b))
    <3>1. p \in Nat
      BY <1>2
    <3>2. Continued(b, L, p)
      BY <1>9, <1>10, <1>11, <3>1, PlayedMore
    <3>3. QED
      BY <3>2 DEF Continued
  <2>2. QED
    BY <1>1, <1>11, <2>1
<1>13. Len(SubSeq(L, 1, q)) = q
  <2>1. <<>> \in Seq(S) /\ Continues(<<>>, L, q)
    BY <1>2 DEF Continues
  <2>2. q \in Nat
    BY <1>2
  <2>3. Continued(<<>>, L, q)
    BY <1>9, <2>1, <2>2, PlayedMore
  <2>4. QED
    BY <2>3 DEF Continued
<1>14. QED
  BY <1>2, <1>3, <1>12, <1>13 DEF q, p, L

(* What came next was played, the line after it comes next, and another one   *)
(* is read.                                                                   *)
LEMMA LaterTransition ==
  ASSUME InOrder, Played, s.next_time # Infinity, Stream!InternalTransition
  PROVE  /\ s' \in Readers /\ calls' \in Nat
         /\ Reading([st |-> s', calls |-> calls'], Reach(s, Len(played)))
<1> DEFINE p == Len(played)
           q == Reach(s, p)
           n == Len(stream.lines)
           T == s.simulation_time + s.next_time
           N == Stream!Minus(s.next_input_time, s.next_time)
           m == s.last_input_read
           next == [[s EXCEPT !.simulation_time = T, !.next_input = <<>>] EXCEPT !.next_time = N, !.next_input = <<m>>]
           read == [st |-> Stream!ReadFollowing(next, calls + 1), calls |-> calls + 1]
<1>1. Ahead(s, p) /\ ReadAfter([st |-> s, calls |-> calls], p) /\ calls \in Nat
  BY DEF Played, Reading, Over
<1>2. /\ p \in Nat /\ q \in Nat /\ p < q /\ q <= n /\ n \in Nat /\ Infinity \in Nat
      /\ s \in Readers /\ ~s.initialization /\ s.next_time \in Nat /\ s.simulation_time \in Nat
      /\ m \in Texts /\ s.next_input_time \in Int /\ T \in Nat
  BY SMTT(40), <1>1 DEF Ahead, Reach, InOrder, Readers
<1>3. s' = Stream!WithTheSameTime(read).st /\ calls' = Stream!WithTheSameTime(read).calls
  BY <1>2 DEF Stream!InternalTransition
<1>4. /\ \A i \in 1 .. p : stream.lines[i].time <= s.simulation_time
      /\ \A i \in p + 1 .. q : stream.lines[i].time = T
  BY <1>1 DEF Ahead
<1>5. ASSUME NEW i \in 1 .. q
      PROVE  stream.lines[i].time <= T
  <2>1. i \in 1 .. n
    BY <1>2
  <2>2. stream.lines[i].time \in Nat
    BY <2>1, LineIs
  <2>3. CASE i <= p
    <3>1. stream.lines[i].time <= s.simulation_time
      BY <1>2, <1>4, <2>3
    <3>2. QED
      BY SMTT(40), <1>2, <2>2, <3>1
  <2>4. CASE ~(i <= p)
    <3>1. i \in p + 1 .. q
      BY <1>2, <2>4
    <3>2. QED
      BY <1>2, <1>4, <3>1
  <2>5. QED
    BY <2>3, <2>4
<1> HIDE DEF T, N, m
<1>6. ASSUME N \in Nat
      PROVE  /\ next \in Readers /\ ~next.initialization /\ next.simulation_time = T
             /\ next.next_time = N /\ next.next_input = <<m>>
  <2>1. <<m>> \in Seq(Texts) /\ <<>> \in Seq(Texts)
    BY <1>2
  <2>2. QED
    BY <1>2, <1>6, <2>1 DEF Readers
<1> HIDE DEF next, n
<1>7. read \in Calls /\ Reading(read, q)
  <2>1. CASE q < n
    <3>1. /\ calls = q + 1 /\ m = stream.lines[q + 1].msg
          /\ s.next_input_time = stream.lines[q + 1].time - s.simulation_time
      BY <1>1, <2>1 DEF ReadAfter, m, n
    <3>2. q + 1 \in 1 .. n /\ q \in 1 .. n /\ q < q + 1 /\ q + 1 <= n /\ q \in p + 1 .. q
      BY <1>2, <2>1
    <3>3. stream.lines[q + 1].time \in Nat /\ stream.lines[q + 1].time < Infinity
      BY <3>2, LineIs DEF n
    <3>4. stream.lines[q].time <= stream.lines[q + 1].time
      BY <3>2 DEF InOrder, n
    <3>5. stream.lines[q].time = T
      BY <1>4, <3>2
    <3>6. N = stream.lines[q + 1].time - T
      <4>1. s.next_input_time # Infinity
        BY <1>2, <3>1, <3>3
      <4>2. N = s.next_input_time - s.next_time
        BY <4>1 DEF N, Stream!Minus
      <4>3. QED
        BY SMTT(40), <1>2, <3>1, <3>3, <4>2 DEF T
    <3>7. N \in Nat /\ N # Infinity /\ T + N = stream.lines[q + 1].time
      <4> DEFINE X == stream.lines[q + 1].time
      <4>1. X \in Nat /\ X < Infinity /\ T <= X /\ N = X - T
        BY <3>3, <3>4, <3>5, <3>6
      <4> HIDE DEF X, q
      <4>2. N \in Nat /\ N <= X /\ T + N = X
        BY <1>2, <4>1
      <4>3. QED
        BY <1>2, <4>1, <4>2 DEF X
    <3>8. /\ next \in Readers /\ ~next.initialization /\ next.simulation_time = T
          /\ next.next_time = N /\ next.next_input = <<m>>
      BY <1>6, <3>7
    <3>9. Reach(next, q) = q + 1
      BY <3>8 DEF Reach
    <3>10. Ahead(next, q)
      <4>1. \A i \in q + 1 .. q + 1 : i = q + 1 /\ i - q = 1
        BY <1>2
      <4>2. next.next_input[1] = m
        BY <3>8
      <4>3. q < q + 1 /\ q + 1 <= Len(stream.lines)
        BY <1>2, <3>2 DEF n
      <4> HIDE DEF q
      <4>4. QED
        BY <1>2, <1>5, <3>1, <3>7, <3>8, <3>9, <4>1, <4>2, <4>3 DEF Ahead
    <3>11. QED
      BY <3>1, <3>9, <3>10, ReadAnother
  <2>2. CASE ~(q < n)
    <3>1. s.next_input_time = Infinity /\ q = n
      BY <1>1, <1>2, <2>2 DEF ReadAfter, n
    <3>2. N = Infinity
      BY <3>1 DEF N, Stream!Minus
    <3>3. next \in Readers /\ ~next.initialization /\ next.next_time = Infinity
      BY <1>2, <1>6, <3>2
    <3>4. calls + 1 \in Nat \ {0}
      BY <1>1
    <3>5. PICK delay \in Int, x \in Texts : Stream!ReadFollowing(next, calls + 1) = WithLine(next, delay, x)
      BY <3>3, <3>4, ReadFollowingKeeps
    <3>6. read.st \in Readers /\ ~read.st.initialization /\ read.st.next_time = Infinity
          /\ read.calls \in Nat
      BY <3>3, <3>4, <3>5, WithLineIs
    <3>7. read \in Calls
      BY <3>6 DEF Calls
    <3> HIDE DEF read
    <3>8. QED
      BY <3>1, <3>6, <3>7 DEF Reading, Over, n
  <2>3. QED
    BY <2>1, <2>2
<1> HIDE DEF read, q
<1> DEFINE y == Stream!WithTheSameTime(read)
<1>8. y \in Calls /\ Reading(y, q)
  BY <1>7, JoinAll
<1> HIDE DEF y
<1>9. y.st \in Readers /\ y.calls \in Nat /\ y = [st |-> y.st, calls |-> y.calls]
  BY <1>8 DEF Calls
<1>10. QED
  BY <1>3, <1>8, <1>9 DEF y, q, p

LEMMA StreamStart ==
  ASSUME Stream!Init
  PROVE  StreamInv
BY DEF Stream!Init, StreamInv, NotStarted

LEMMA PlayKeeps ==
  ASSUME StreamInv, Stream!Play
  PROVE  StreamInv'
<1>1. stream' = stream /\ Stream!InternalTransition /\ s.next_time \in 0 .. Infinity - 1
  BY DEF Stream!Play
<1>2. s.next_time # Infinity
  BY <1>1, CellAssumption
<1>3. SUFFICES ASSUME Stream!Readable
               PROVE  Played'
  BY <1>1 DEF StreamInv, Stream!Readable
<1>4. InOrder
  BY <1>3, LinesInOrder DEF StreamInv
<1>5. Len(stream.lines) \in Nat
  BY <1>4 DEF InOrder
<1>6. CASE NotStarted
  <2>1. Reading([st |-> s', calls |-> calls'], 0)
    BY <1>1, <1>4, <1>6, FirstTransition
  <2>2. played' = <<>>
    <3>1. s.next_input = <<>> /\ played = <<>>
      BY <1>6 DEF NotStarted
    <3>2. DOMAIN s.next_input = 1 .. 0
      BY <3>1
    <3>3. played' = played \o [i \in 1 .. 0 |-> [time |-> s.simulation_time + s.next_time, msg |-> s.next_input[i]]]
      BY <3>2 DEF Stream!Play, Stream!Output
    <3>4. QED
      BY <3>1, <3>3
  <2>3. Len(played') = 0 /\ SubSeq(stream.lines, 1, 0) = <<>>
    BY <2>2, SubSeqEmpty
  <2>4. QED
    BY <1>1, <1>5, <2>1, <2>2, <2>3 DEF Played, Reading, Over, Ahead, ReadAfter, Reach, Readers, Texts
<1>7. CASE Played
  <2> DEFINE q == Reach(s, Len(played))
  <2>1. played' = SubSeq(stream.lines, 1, q) /\ Len(played') = q /\ q \in 0 .. Len(stream.lines)
    BY <1>2, <1>4, <1>7, PlaysLines
  <2>2. Reading([st |-> s', calls |-> calls'], q)
    BY <1>1, <1>2, <1>4, <1>7, LaterTransition
  <2> HIDE DEF q
  <2>3. QED
    BY <1>1, <2>1, <2>2 DEF Played, Reading, Over, Ahead, ReadAfter, Reach, Readers, Texts
<1>8. QED
  BY <1>3, <1>6, <1>7 DEF StreamInv

LEMMA StreamStays ==
  ASSUME StreamInv, UNCHANGED s_vars
  PROVE  StreamInv'
BY DEF StreamInv, s_vars, NotStarted, Played, Reading, Over, Ahead, ReadAfter, Reach, Readers, Texts,
       Stream!Readable

(* Up to the present time every line was played.                              *)
LEMMA PlaysOK ==
  ASSUME StreamInv
  PROVE  Stream!PlaysTheFile
<1> SUFFICES ASSUME Stream!Readable
             PROVE  /\ played = SubSeq(stream.lines, 1, Len(played))
                    /\ s.next_time >= 0
                    /\ s.next_time = Infinity => played = stream.lines
                    /\ \A i \in DOMAIN stream.lines : stream.lines[i].time < s.simulation_time => i <= Len(played)
  BY DEF Stream!PlaysTheFile
<1>1. InOrder
  BY LinesInOrder DEF StreamInv
<1>2. DOMAIN stream.lines = 1 .. Len(stream.lines) /\ Len(stream.lines) \in Nat /\ Infinity \in Nat \ {0}
  BY <1>1 DEF InOrder
<1>3. \A i \in 1 .. Len(stream.lines) : stream.lines[i].time \in Nat
  BY <1>1, LineIs
<1>4. CASE NotStarted
  <2>1. s.next_time = 0 /\ s.simulation_time = 0 /\ played = <<>> /\ Len(played) = 0
    BY <1>4 DEF NotStarted
  <2>2. SubSeq(stream.lines, 1, 0) = <<>>
    BY SubSeqEmpty
  <2>3. \A i \in 1 .. Len(stream.lines) : ~(stream.lines[i].time < 0)
    BY <1>3
  <2>4. QED
    BY <1>2, <2>1, <2>2, <2>3
<1>5. CASE Played
  <2> DEFINE p == Len(played)
  <2>1. s \in Readers /\ s.next_time \in Nat /\ s.simulation_time \in Nat
    BY <1>5 DEF Played, Reading, Over, Ahead, Readers
  <2>2. played = SubSeq(stream.lines, 1, p) /\ p \in 0 .. Len(stream.lines)
    BY <1>5 DEF Played
  <2>3. CASE s.next_time = Infinity
    <3>1. p = Len(stream.lines)
      BY <1>5, <2>3 DEF Played, Reading, Over, Ahead
    <3>2. played = stream.lines
      BY <1>1, <2>2, <3>1, SubSeqFull DEF InOrder
    <3>3. QED
      BY <1>2, <2>1, <2>2, <3>1, <3>2
  <2>4. CASE s.next_time # Infinity
    <3>1. Ahead(s, p)
      BY <1>5, <2>4 DEF Played, Reading, Over
    <3> DEFINE q == Reach(s, p)
    <3>2. /\ p \in Nat /\ q \in Nat /\ p < q /\ q <= Len(stream.lines)
          /\ \A i \in p + 1 .. q : stream.lines[i].time = s.simulation_time + s.next_time
      BY <2>1, <3>1 DEF Ahead, Reach, Readers
    <3> HIDE DEF q
    <3>3. ASSUME NEW i \in 1 .. Len(stream.lines), ~(i <= p)
          PROVE  ~(stream.lines[i].time < s.simulation_time)
      <4>1. p + 1 \in p + 1 .. q /\ p + 1 \in 1 .. Len(stream.lines) /\ (p + 1 = i \/ p + 1 < i)
        BY <1>2, <3>2, <3>3
      <4>2. stream.lines[p + 1].time = s.simulation_time + s.next_time
        BY <3>2, <4>1
      <4>3. stream.lines[p + 1].time <= stream.lines[i].time
        <5>1. CASE p + 1 = i
          BY <1>3, <5>1
        <5>2. CASE p + 1 < i
          BY <1>1, <4>1, <5>2 DEF InOrder
        <5>3. QED
          BY <4>1, <5>1, <5>2
      <4>4. stream.lines[i].time \in Nat
        BY <1>3
      <4>5. QED
        BY <2>1, <4>2, <4>3, <4>4
    <3>4. QED
      BY <1>2, <2>1, <2>2, <2>4, <3>3
  <2>5. QED
    BY <2>3, <2>4
<1>6. QED
  BY <1>4, <1>5 DEF StreamInv

(* Every line of a file is output at its own time, in the order of the file,  *)
(* and the model passivates only after the last one: Models!PlaysTheFile.     *)
THEOREM PlaysTheFileAlways ==
  ModelsSpec => []PlaysTheFile
<1> DEFINE Inv == part = "stream" => StreamInv
<1>1. ModelsInit => Inv
  BY StreamStart DEF ModelsInit
<1>2. Inv /\ [ModelsNext]_<<part, vars, g_vars, b_vars, s_vars, c_vars>> => Inv'
  BY PlayKeeps, StreamStays DEF ModelsNext, Stream!Next
<1>3. Inv => PlaysTheFile
  BY PlaysOK DEF PlaysTheFile
<1>4. QED
  BY <1>1, <1>2, <1>3, PTL DEF ModelsSpec

-----------------------------------------------------------------------------
(***************************************************************************)
(* Generators, accumulators and the filter.                                *)
(***************************************************************************)
Sums == [time : Nat, value : Nat]

BasicTypes ==
  /\ gen \in [Basic!Generator -> [period : 1 .. Infinity - 1, output : Nat]]
  /\ last \in [Basic!Model -> Nat]
  /\ acc \in [Basic!Accumulator -> [value : Nat, on_reset : BOOLEAN]]
  /\ filter \in Nat /\ thrown = FALSE
  /\ sums \in [Basic!Accumulator -> Seq(Sums)]
  /\ passed \in Seq(Nat)

(* The last sum of the first accumulator, and when the one before the i-th    *)
(* was output.                                                                *)
LastSum ==
  IF Len(sums["first"]) = 0 THEN [time |-> 0, value |-> 0] ELSE sums["first"][Len(sums["first"])]

SumBefore(i) == IF i = 1 THEN [time |-> 0, value |-> 0] ELSE sums["first"][i - 1]

(* At the time of the last round every generator has output as often as its   *)
(* period fits.                                                               *)
ClockIs(now) ==
  /\ \A m \in Basic!Model : last[m] <= now
  /\ \E m \in Basic!Model : last[m] = now
  /\ \A g \in Basic!Generator : last[g] = (now \div gen[g].period) * gen[g].period

(* Both accumulators are on reset at the same times, and then the filter is   *)
(* not due; after the first sum it is.                                        *)
PhaseIs(now) ==
  /\ acc["first"].on_reset = acc["second"].on_reset
  /\ acc["first"].on_reset => /\ last["first"] = now /\ last["second"] = now /\ filter # 1
                              /\ now \in Basic!Resets /\ LastSum.time < now
  /\ filter = 1 => last["filter"] = now /\ LastSum.time = now
  /\ filter = Len(sums["first"]) + Len(passed)
  /\ Len(passed) = IF filter > 1 THEN 1 ELSE 0
  /\ passed # <<>> => passed[1] = sums["first"][1].time

(* The first accumulator has what was output since its last sum, the second   *)
(* that sum, and there is a sum for each reset that is over.                  *)
ValuesAre(now) ==
  /\ LastSum.time <= now
  /\ acc["first"].value = Basic!ValuesBetween(LastSum.time, now)
  /\ acc["second"].value = LastSum.value
  /\ \A t \in Basic!Resets :
       t < now \/ (t = now /\ ~acc["first"].on_reset) =>
         \E i \in 1 .. Len(sums["first"]) : sums["first"][i].time = t

SumIs(i) ==
  LET x == sums["first"][i]
  IN  /\ x.time \in Basic!Resets /\ SumBefore(i).time < x.time
      /\ x.value = Basic!ValuesBetween(SumBefore(i).time, x.time)
      /\ sums["second"][i] = [time |-> x.time, value |-> SumBefore(i).value]

SumsAre ==
  /\ Len(sums["second"]) = Len(sums["first"])
  /\ \A i \in 1 .. Len(sums["first"]) : SumIs(i)

BasicInv ==
  /\ BasicTypes /\ SumsAre
  /\ \E now \in Nat : ClockIs(now) /\ PhaseIs(now) /\ ValuesAre(now)

(* The constants. *)
LEMMA BasicConstants ==
  /\ IsFiniteSet(Adders) /\ IsFiniteSet(Resetters)
  /\ \A g \in Basic!Generator : g # "first" /\ g # "second" /\ g # "filter" /\ g # "passive"
  /\ Infinity \in Nat /\ 5 < Infinity /\ MaxTime \in Nat /\ MaxTime <= Infinity
  /\ Period \subseteq 1 .. Infinity - 1 /\ Value \subseteq Nat
  /\ \A g \in Adders \cup Resetters : g \in Basic!Generator /\ g \in Basic!Model
  /\ \A a \in Basic!Accumulator : a = "first" \/ a = "second"
  /\ \A m \in Basic!Model : m \in Basic!Generator \/ m \in Basic!Accumulator \/ m = "filter" \/ m = "passive"
  /\ "first" \in Basic!Accumulator /\ "second" \in Basic!Accumulator
  /\ "first" \in Basic!Model /\ "second" \in Basic!Model /\ "filter" \in Basic!Model /\ "passive" \in Basic!Model
<1>1. Basic!BasicAssumption
  BY ModelsAssumption
<1>2. /\ IsFiniteSet(Adders) /\ IsFiniteSet(Resetters)
      /\ (Adders \cup Resetters) \cap {"first", "second", "filter", "passive"} = {}
      /\ Infinity \in Nat /\ 5 < Infinity /\ MaxTime \in 0 .. Infinity
      /\ Period \subseteq 1 .. Infinity - 1 /\ Value \subseteq Nat
  BY <1>1 DEF Basic!BasicAssumption, Basic!IsFiniteSet, IsFiniteSet
<1>3. MaxTime \in Nat /\ MaxTime <= Infinity
  BY <1>2
<1>4. \A g \in Basic!Generator : g # "first" /\ g # "second" /\ g # "filter" /\ g # "passive"
  BY <1>2 DEF Basic!Generator
<1>5. QED
  BY <1>2, <1>3, <1>4 DEF Basic!Generator, Basic!Accumulator, Basic!Model

(* When the next event of a model is.                                         *)
LEMMA NextEventIs ==
  ASSUME BasicTypes
  PROVE  /\ \A g \in Basic!Generator : Basic!NextEvent(g) = last[g] + gen[g].period
         /\ \A a \in Basic!Accumulator :
              Basic!NextEvent(a) = IF acc[a].on_reset THEN last[a] ELSE Infinity
         /\ Basic!NextEvent("filter") = IF filter = 1 THEN last["filter"] ELSE Infinity
         /\ Basic!NextEvent("passive") = Infinity
<1>1. ASSUME NEW g \in Basic!Generator
      PROVE  Basic!NextEvent(g) = last[g] + gen[g].period
  <2>1. gen[g].period \in Nat /\ gen[g].period # Infinity
    BY BasicConstants DEF BasicTypes
  <2>2. Basic!TimeAdvance(g) = gen[g].period
    BY DEF Basic!TimeAdvance, Basic!GeneratorAdvance
  <2>3. QED
    BY <2>1, <2>2 DEF Basic!NextEvent
<1>2. ASSUME NEW a \in Basic!Accumulator
      PROVE  Basic!NextEvent(a) = IF acc[a].on_reset THEN last[a] ELSE Infinity
  <2>1. a \notin Basic!Generator /\ last[a] \in Nat
    BY BasicConstants DEF BasicTypes
  <2>2. Basic!TimeAdvance(a) = IF acc[a].on_reset THEN 0 ELSE Infinity
    BY <2>1 DEF Basic!TimeAdvance, Basic!AccumulatorAdvance
  <2>3. 0 # Infinity /\ last[a] + 0 = last[a]
    BY <2>1, BasicConstants
  <2>4. QED
    BY <2>2, <2>3 DEF Basic!NextEvent
<1>3. "filter" \notin Basic!Generator /\ "passive" \notin Basic!Generator
      /\ "filter" \notin Basic!Accumulator /\ "passive" \notin Basic!Accumulator
      /\ last["filter"] \in Nat /\ 0 # Infinity
  <2>1. "filter" \notin Basic!Generator /\ "passive" \notin Basic!Generator
    BY BasicConstants
  <2>2. last["filter"] \in Nat /\ 0 # Infinity
    BY BasicConstants DEF BasicTypes
  <2>3. QED
    BY <2>1, <2>2 DEF Basic!Accumulator
<1>4. Basic!TimeAdvance("filter") = (IF filter = 1 THEN 0 ELSE Infinity)
      /\ Basic!TimeAdvance("passive") = Infinity
  BY <1>3 DEF Basic!TimeAdvance, Basic!FilterAdvance
<1>5. last["filter"] + 0 = last["filter"]
  BY <1>3
<1>6. QED
  BY <1>1, <1>2, <1>3, <1>4, <1>5 DEF Basic!NextEvent

(* The models that are due at a time, and what a round does then.             *)
Due(t) == {m \in Basic!Model : Basic!NextEvent(m) = t}
Reached(t) == Due(t) \cup Basic!Receivers(Due(t))

RoundIs(t) ==
  /\ t < MaxTime
  /\ Due(t) # {} /\ \A m \in Basic!Model : t <= Basic!NextEvent(m)
  /\ last' = [m \in Basic!Model |-> IF m \in Reached(t) THEN t ELSE last[m]]
  /\ acc' = [a \in Basic!Accumulator |-> Basic!AccumulatorAfter(a, Due(t))]
  /\ filter' = IF "filter" \in Reached(t) THEN filter + 1 ELSE filter
  /\ thrown' = Basic!Throwing(Due(t))
  /\ sums' = [a \in Basic!Accumulator |->
               IF a \in Due(t) THEN Append(sums[a], [time |-> t, value |-> acc[a].value]) ELSE sums[a]]
  /\ passed' = IF "filter" \in Due(t) THEN Append(passed, t) ELSE passed
  /\ gen' = gen

LEMMA RoundAt ==
  ASSUME BasicTypes, Basic!Round
  PROVE  \E t \in Nat : RoundIs(t)
<1> DEFINE S == {Basic!NextEvent(m) : m \in Basic!Model}
           t == Min(S)
<1>1. S \in SUBSET Nat /\ S # {}
  <2>1. \A m \in Basic!Model : Basic!NextEvent(m) \in Nat
    <3>1. \A g \in Basic!Generator : last[g] + gen[g].period \in Nat
      BY DEF BasicTypes, Basic!Model
    <3>2. \A m \in Basic!Model : last[m] \in Nat
      BY DEF BasicTypes
    <3>3. QED
      BY <3>1, <3>2, NextEventIs, BasicConstants
  <2>2. QED
    BY <2>1, BasicConstants
<1>2. t \in S /\ \A k \in S : t <= k
  <2> HIDE DEF S
  <2>1. QED
    BY <1>1, MinIs
<1>3. t \in Nat /\ Due(t) # {} /\ \A m \in Basic!Model : t <= Basic!NextEvent(m)
  <2> HIDE DEF t
  <2>1. QED
    BY <1>1, <1>2 DEF Due
<1>4. Basic!Min(S) = Min(S)
  BY DEF Basic!Min, Min
<1>5. RoundIs(t)
  BY <1>3, <1>4 DEF RoundIs, Basic!Round, Reached, Due, Basic!AccumulatorOutput, Basic!FilterTransition
<1>6. QED
  BY <1>3, <1>5
(* Numbers of periods. *)
LEMMA DivIs ==
  ASSUME NEW p \in Nat \ {0}, NEW k \in Nat, NEW t \in Nat, k * p <= t, t < k * p + p
  PROVE  t \div p = k
<1> DEFINE q == t \div p
<1>1. t = p * q + (t % p) /\ t % p \in 0 .. p - 1 /\ q \in Nat
  OBVIOUS
<1> HIDE DEF q
<1>2. q * p <= t /\ t < q * p + p
  BY <1>1
<1>3. \A a, b \in Nat : a < b => a * p + p <= b * p
  <2>1. ASSUME NEW a \in Nat, NEW b \in Nat, a < b
        PROVE  a * p + p <= b * p
    <3>1. PICK d \in Nat : b = a + 1 + d
      <4>1. b - a - 1 \in Nat /\ b = a + 1 + (b - a - 1)
        BY <2>1
      <4>2. QED
        BY <4>1
    <3>2. b * p = a * p + p + d * p /\ d * p \in Nat
      BY <3>1
    <3>3. a * p \in Nat /\ b * p \in Nat
      OBVIOUS
    <3>4. QED
      BY <3>2, <3>3
  <2>2. QED
    BY <2>1
<1>4. ~(q < k)
  <2>1. q < k => q * p + p <= k * p
    BY <1>1, <1>3
  <2>2. q * p \in Nat /\ k * p \in Nat
    BY <1>1
  <2>3. QED
    BY <1>2, <2>1, <2>2
<1>5. ~(k < q)
  <2>1. k < q => k * p + p <= q * p
    BY <1>1, <1>3
  <2>2. q * p \in Nat /\ k * p \in Nat
    BY <1>1
  <2>3. QED
    BY <1>2, <2>1, <2>2
<1>6. q = k
  BY <1>1, <1>4, <1>5
<1>7. QED
  BY <1>6 DEF q

LEMMA DivBounds ==
  ASSUME NEW p \in Nat \ {0}, NEW t \in Nat
  PROVE  /\ t \div p \in Nat /\ (t \div p) * p \in Nat
         /\ (t \div p) * p <= t /\ t < (t \div p) * p + p
         /\ t % p = 0 <=> t = (t \div p) * p
<1> DEFINE q == t \div p
<1>1. t = p * q + (t % p) /\ t % p \in 0 .. p - 1 /\ q \in Nat
  OBVIOUS
<1>2. q * p \in Nat /\ p * q = q * p
  <2> HIDE DEF q
  <2>1. QED
    BY <1>1
<1> HIDE DEF q
<1>3. q * p <= t /\ t < q * p + p /\ (t % p = 0 <=> t = q * p)
  BY <1>1, <1>2
<1>4. QED
  BY <1>1, <1>2, <1>3 DEF q

(* From a time to one that is not after the next multiple of the period.      *)
LEMMA DivNext ==
  ASSUME NEW p \in Nat \ {0}, NEW n \in Nat, NEW t \in Nat, n <= t, t <= (n \div p) * p + p
  PROVE  t \div p = IF t = (n \div p) * p + p THEN n \div p + 1 ELSE n \div p
<1> DEFINE k == n \div p
<1>1. k \in Nat /\ k * p \in Nat /\ k * p <= n
  BY DivBounds
<1>2. t <= k * p + p
  OBVIOUS
<1> HIDE DEF k
<1>3. CASE t = k * p + p
  <2>1. (k + 1) * p = k * p + p /\ k + 1 \in Nat
    BY <1>1
  <2>2. (k + 1) * p <= t /\ t < (k + 1) * p + p
    BY <1>1, <1>3, <2>1
  <2>3. t \div p = k + 1
    BY <2>1, <2>2, DivIs
  <2>4. QED
    BY <1>3, <2>3 DEF k
<1>4. CASE t # k * p + p
  <2>1. k * p <= t /\ t < k * p + p
    BY <1>1, <1>2, <1>4
  <2>2. t \div p = k
    BY <1>1, <2>1, DivIs
  <2>3. QED
    BY <1>4, <2>2 DEF k
<1>5. QED
  BY <1>3, <1>4

(* The generators are ahead of the time of the last round.                    *)
LEMMA GeneratorsAhead ==
  ASSUME BasicTypes, NEW now \in Nat, ClockIs(now)
  PROVE  \A g \in Basic!Generator :
           /\ gen[g].period \in Nat \ {0} /\ last[g] \in Nat /\ last[g] = (now \div gen[g].period) * gen[g].period
           /\ last[g] <= now /\ now < last[g] + gen[g].period
<1>1. ASSUME NEW g \in Basic!Generator
      PROVE  /\ gen[g].period \in Nat \ {0} /\ last[g] \in Nat /\ last[g] = (now \div gen[g].period) * gen[g].period
             /\ last[g] <= now /\ now < last[g] + gen[g].period
  <2>1. gen[g].period \in Nat \ {0}
    BY BasicConstants DEF BasicTypes
  <2>2. last[g] = (now \div gen[g].period) * gen[g].period
    BY DEF ClockIs
  <2> DEFINE p == gen[g].period
  <2>3. p \in Nat \ {0}
    BY <2>1
  <2> HIDE DEF p
  <2>4. (now \div p) * p \in Nat /\ (now \div p) * p <= now /\ now < (now \div p) * p + p
    BY <2>3, DivBounds
  <2>5. QED
    BY <2>1, <2>2, <2>4 DEF p
<1>2. QED
  BY <1>1

(* A round is one of the accumulators, of the filter, or of generators.       *)
AllReset(now, t)    == acc["first"].on_reset /\ t = now /\ Due(t) = {"first", "second"}
Filtered(now, t)    == ~acc["first"].on_reset /\ filter = 1 /\ t = now /\ Due(t) = {"filter"}
Generated(now, t)   == /\ ~acc["first"].on_reset /\ filter # 1 /\ now < t
                       /\ Due(t) \subseteq Basic!Generator /\ Due(t) # {}

LEMMA WhoIsDue ==
  ASSUME BasicTypes, NEW now \in Nat, ClockIs(now), PhaseIs(now), NEW t \in Nat, RoundIs(t)
  PROVE  AllReset(now, t) \/ Filtered(now, t) \/ Generated(now, t)
<1>1. /\ t < Infinity /\ Due(t) # {}
      /\ \A m \in Basic!Model : t <= Basic!NextEvent(m)
      /\ Infinity \in Nat
  BY BasicConstants DEF RoundIs
<1>2. \A g \in Basic!Generator : now < Basic!NextEvent(g) /\ Basic!NextEvent(g) \in Nat
  BY NextEventIs, GeneratorsAhead
<1>3. \A m \in Basic!Model : m \in Due(t) <=> Basic!NextEvent(m) = t
  BY DEF Due
<1>4. Due(t) \subseteq Basic!Model
  BY DEF Due
<1>5. /\ acc["first"].on_reset = acc["second"].on_reset
      /\ acc["first"].on_reset => last["first"] = now /\ last["second"] = now /\ filter # 1
      /\ filter = 1 => last["filter"] = now
  BY DEF PhaseIs
<1>6. Basic!NextEvent("passive") = Infinity /\ "passive" \notin Due(t)
  <2>1. Basic!NextEvent("passive") = Infinity
    BY NextEventIs
  <2>2. QED
    BY <1>1, <1>3, <2>1, BasicConstants
<1>7. CASE acc["first"].on_reset
  <2>1. Basic!NextEvent("first") = now /\ Basic!NextEvent("second") = now /\ Basic!NextEvent("filter") = Infinity
    BY <1>5, <1>7, NextEventIs, BasicConstants
  <2>2. t <= now
    BY <1>1, <2>1, BasicConstants
  <2>3. \A g \in Basic!Generator : g \in Basic!Model /\ g \notin Due(t)
    BY <1>2, <1>3, <2>2 DEF Basic!Model
  <2>4. "filter" \notin Due(t)
    BY <1>1, <1>3, <2>1, BasicConstants
  <2>5. Due(t) \subseteq {"first", "second"}
    BY <1>4, <1>6, <2>3, <2>4, BasicConstants
  <2>6. t = now
    BY <1>1, <1>3, <2>1, <2>5, BasicConstants
  <2>7. "first" \in Due(t) /\ "second" \in Due(t)
    BY <1>3, <2>1, <2>6, BasicConstants
  <2>8. QED
    BY <1>7, <2>5, <2>6, <2>7 DEF AllReset
<1>8. CASE ~acc["first"].on_reset /\ filter = 1
  <2>1. Basic!NextEvent("first") = Infinity /\ Basic!NextEvent("second") = Infinity /\ Basic!NextEvent("filter") = now
    BY <1>5, <1>8, NextEventIs, BasicConstants
  <2>2. t <= now
    BY <1>1, <2>1, BasicConstants
  <2>3. \A g \in Basic!Generator : g \in Basic!Model /\ g \notin Due(t)
    BY <1>2, <1>3, <2>2 DEF Basic!Model
  <2>4. "first" \notin Due(t) /\ "second" \notin Due(t)
    BY <1>1, <1>3, <2>1, BasicConstants
  <2>5. Due(t) = {"filter"}
    BY <1>1, <1>4, <1>6, <2>3, <2>4, BasicConstants
  <2>6. t = now
    BY <1>3, <2>1, <2>5, BasicConstants
  <2>7. QED
    BY <1>8, <2>5, <2>6 DEF Filtered
<1>9. CASE ~acc["first"].on_reset /\ filter # 1
  <2>1. Basic!NextEvent("first") = Infinity /\ Basic!NextEvent("second") = Infinity /\ Basic!NextEvent("filter") = Infinity
    BY <1>5, <1>9, NextEventIs, BasicConstants
  <2>2. "first" \notin Due(t) /\ "second" \notin Due(t) /\ "filter" \notin Due(t)
    BY <1>1, <1>3, <2>1, BasicConstants
  <2>3. Due(t) \subseteq Basic!Generator
    BY <1>4, <1>6, <2>2, BasicConstants
  <2>4. now < t
    BY <1>1, <1>2, <1>3, <1>4, <2>3
  <2>5. QED
    BY <1>1, <1>9, <2>3, <2>4 DEF Generated
<1>10. QED
  BY <1>7, <1>8, <1>9

LEMMA BasicSum ==
  ASSUME NEW f, NEW S
  PROVE  Basic!SumFunctionOnSet(f, S) = SumFunctionOnSet(f, S)
BY DEF Basic!SumFunctionOnSet, SumFunctionOnSet, Basic!FoldFunctionOnSet, FoldFunctionOnSet,
       Basic!MapThenFoldSet, MapThenFoldSet

LEMMA SomeCount ==
  ASSUME NEW U, IsFiniteSet(U), NEW S \in SUBSET U
  PROVE  Basic!Cardinality(S) > 0 <=> S # {}
<1>1. IsFiniteSet(S)
  BY FS_Subset
<1>2. Cardinality(S) \in Nat /\ (Cardinality(S) = 0 <=> S = {})
  BY <1>1, FS_CardinalityType, FS_EmptySet
<1>3. Basic!Cardinality(S) = Cardinality(S)
  BY DEF Basic!Cardinality, Cardinality
<1>4. QED
  BY <1>2, <1>3

(* What all adders that are due output.                                       *)
AddedAt(t) == SumFunctionOnSet([g \in Adders |-> gen[g].output], Adders \cap Due(t))

LEMMA AddedIs ==
  ASSUME BasicTypes, NEW t
  PROVE  AddedAt(t) \in Nat
<1> DEFINE f == [g \in Adders |-> gen[g].output]
<1>1. \A x \in Adders : f[x] \in Nat
  BY BasicConstants DEF BasicTypes
<1> HIDE DEF f
<1>2. SumFunctionOnSet(f, Adders \cap Due(t)) \in Nat
  BY <1>1, SumNat, BasicConstants
<1>3. QED
  BY <1>2 DEF AddedAt, f

(* What a round leaves as it was, or what each of the variables is after it.  *)
HistoriesStay ==
  sums'["first"] = sums["first"] /\ sums'["second"] = sums["second"] /\ passed' = passed

AccIs(a, value, on_reset) == acc'[a].value = value /\ acc'[a].on_reset = on_reset

GeneratedEffect(t) ==
  /\ gen' = gen /\ thrown' = FALSE /\ filter' = filter /\ HistoriesStay
  /\ \A m \in Basic!Model : last'[m] = t \/ last'[m] = last[m]
  /\ \A g \in Basic!Generator : last'[g] = IF g \in Due(t) THEN t ELSE last[g]
  /\ AccIs("first", acc["first"].value + AddedAt(t), Resetters \cap Due(t) # {})
  /\ AccIs("second", acc["second"].value, Resetters \cap Due(t) # {})
  /\ Resetters \cap Due(t) # {} => last'["first"] = t /\ last'["second"] = t

(* Who is reached when only generators are due.                               *)
LEMMA ReachedByGenerators ==
  ASSUME NEW due, due \subseteq Basic!Generator, due # {}
  PROVE  /\ "first" \in Basic!Receivers(due)
         /\ "second" \in Basic!Receivers(due) <=> Resetters \cap due # {}
         /\ "filter" \notin Basic!Receivers(due) /\ "passive" \notin Basic!Receivers(due)
         /\ Basic!Receivers(due) \subseteq {"first", "second"}
         /\ "first" \notin due /\ "second" \notin due /\ "filter" \notin due /\ "passive" \notin due
<1>1. "first" \notin due /\ "second" \notin due /\ "filter" \notin due /\ "passive" \notin due
  BY BasicConstants
<1>2. Basic!Receivers(due) = (IF Adders \cap due # {} THEN {"first"} ELSE {})
                               \cup (IF Resetters \cap due # {} THEN {"first", "second"} ELSE {})
  BY <1>1 DEF Basic!Receivers, Basic!Accumulator
<1>3. Adders \cap due # {} \/ Resetters \cap due # {}
  BY DEF Basic!Generator
<1>4. QED
  BY <1>1, <1>2, <1>3

LEMMA GeneratedDoes ==
  ASSUME BasicTypes, NEW now \in Nat, PhaseIs(now), NEW t \in Nat, RoundIs(t), Generated(now, t)
  PROVE  GeneratedEffect(t) /\ acc' \in [Basic!Accumulator -> [value : Nat, on_reset : BOOLEAN]]
<1> DEFINE due == Due(t)
           more == Resetters \cap due # {}
<1>1. due \subseteq Basic!Generator /\ due # {} /\ acc["first"].on_reset = FALSE
      /\ acc["second"].on_reset = FALSE
  BY DEF Generated, PhaseIs, BasicTypes, Basic!Accumulator
<1> HIDE DEF due
<1>2. /\ "first" \in Basic!Receivers(due)
      /\ "second" \in Basic!Receivers(due) <=> more
      /\ "filter" \notin Basic!Receivers(due) /\ "passive" \notin Basic!Receivers(due)
      /\ Basic!Receivers(due) \subseteq {"first", "second"}
      /\ "first" \notin due /\ "second" \notin due /\ "filter" \notin due /\ "passive" \notin due
  BY <1>1, ReachedByGenerators
<1>3. Reached(t) = due \cup Basic!Receivers(due)
  BY DEF Reached, due
<1>4. Basic!Cardinality(Resetters \cap due) > 0 <=> more
  BY BasicConstants, SomeCount
<1>5. Basic!Adds("first", due) = AddedAt(t) /\ Basic!Adds("second", due) = 0
  BY <1>2, BasicSum DEF Basic!Adds, AddedAt, due
<1>6. /\ acc["first"].value \in Nat /\ acc["second"].value \in Nat /\ AddedAt(t) \in Nat
  BY AddedIs, BasicConstants DEF BasicTypes
<1>7. acc' = [a \in Basic!Accumulator |-> Basic!AccumulatorAfter(a, due)]
  BY DEF RoundIs, due
<1>8. acc'["first"] = [value |-> acc["first"].value + AddedAt(t), on_reset |-> more]
  <2>1. acc'["first"] = Basic!AccumulatorExternal(acc["first"], Basic!Adds("first", due), Basic!Cardinality(Resetters \cap due))
    BY <1>2, <1>7, BasicConstants DEF Basic!AccumulatorAfter
  <2>2. QED
    BY <1>1, <1>4, <1>5, <2>1 DEF Basic!AccumulatorExternal
<1>9. /\ acc'["second"].value = acc["second"].value /\ acc'["second"].on_reset = more
      /\ acc'["second"] \in [value : Nat, on_reset : BOOLEAN]
  <2>1. CASE more
    <3>1. acc'["second"] = Basic!AccumulatorExternal(acc["second"], Basic!Adds("second", due), Basic!Cardinality(Resetters \cap due))
      BY <1>2, <1>7, <2>1, BasicConstants DEF Basic!AccumulatorAfter
    <3>2. acc'["second"] = [value |-> acc["second"].value + 0, on_reset |-> TRUE]
      BY <1>1, <1>4, <1>5, <2>1, <3>1 DEF Basic!AccumulatorExternal
    <3>3. acc["second"].value + 0 = acc["second"].value
      BY <1>6
    <3>4. /\ acc'["second"].value = acc["second"].value /\ acc'["second"].on_reset = TRUE
          /\ acc'["second"] \in [value : Nat, on_reset : BOOLEAN]
      BY <1>6, <3>2, <3>3
    <3>5. more = TRUE
      BY <2>1
    <3>6. QED
      BY <3>4, <3>5
  <2>2. CASE ~more
    <3>1. acc'["second"] = acc["second"]
      BY <1>2, <1>7, <2>2, BasicConstants DEF Basic!AccumulatorAfter
    <3>2. acc["second"] \in [value : Nat, on_reset : BOOLEAN]
      BY BasicConstants DEF BasicTypes
    <3>3. QED
      BY <1>1, <2>2, <3>1, <3>2
  <2>3. QED
    BY <2>1, <2>2
<1>10. acc' \in [Basic!Accumulator -> [value : Nat, on_reset : BOOLEAN]]
  <2>1. acc'["first"] \in [value : Nat, on_reset : BOOLEAN]
    BY <1>6, <1>8
  <2>2. \A a \in Basic!Accumulator : acc'[a] \in [value : Nat, on_reset : BOOLEAN]
    BY <1>9, <2>1, BasicConstants
  <2>3. QED
    BY <1>7, <2>2
<1>11. thrown' = FALSE
  <2>1. \A a \in Basic!Accumulator : ~Basic!AccumulatorThrows(a, due)
    BY <1>1, <1>2, BasicConstants DEF Basic!AccumulatorThrows
  <2>2. ~Basic!FilterAsserts(due) /\ ~Basic!PassiveThrows(due)
    BY <1>2 DEF Basic!FilterAsserts, Basic!PassiveThrows
  <2>3. ~Basic!Throwing(due)
    BY <2>1, <2>2 DEF Basic!Throwing
  <2>4. QED
    BY <2>3 DEF RoundIs, due, Basic!Throwing
<1>12. HistoriesStay /\ gen' = gen /\ filter' = filter
  <2>1. sums'["first"] = sums["first"] /\ sums'["second"] = sums["second"]
    BY <1>2, BasicConstants DEF RoundIs, due
  <2>2. QED
    BY <1>2, <1>3, <2>1 DEF RoundIs, HistoriesStay, due
<1>13. last' = [m \in Basic!Model |-> IF m \in Reached(t) THEN t ELSE last[m]]
  BY DEF RoundIs
<1>14. \A m \in Basic!Model : last'[m] = t \/ last'[m] = last[m]
  BY <1>13
<1>15. \A g \in Basic!Generator : last'[g] = IF g \in due THEN t ELSE last[g]
  <2>1. \A g \in Basic!Generator : g \notin Basic!Receivers(due) /\ g \in Basic!Model
    BY <1>2, BasicConstants DEF Basic!Model
  <2>2. QED
    BY <1>3, <1>13, <2>1
<1>16. more => last'["first"] = t /\ last'["second"] = t
  BY <1>2, <1>3, <1>13, BasicConstants
<1>17. AccIs("first", acc["first"].value + AddedAt(t), more) /\ AccIs("second", acc["second"].value, more)
  BY <1>8, <1>9 DEF AccIs
<1>18. GeneratedEffect(t)
  BY <1>11, <1>12, <1>14, <1>15, <1>16, <1>17 DEF GeneratedEffect, due
<1>19. QED
  BY <1>10, <1>18

ResetEffect(t) ==
  /\ gen' = gen /\ thrown' = FALSE /\ filter' = filter + 1 /\ passed' = passed
  /\ \A m \in Basic!Model : last'[m] = t \/ last'[m] = last[m]
  /\ \A g \in Basic!Generator : last'[g] = last[g]
  /\ last'["filter"] = t
  /\ AccIs("first", 0, FALSE) /\ AccIs("second", acc["first"].value, FALSE)
  /\ sums'["first"] = Append(sums["first"], [time |-> t, value |-> acc["first"].value])
  /\ sums'["second"] = Append(sums["second"], [time |-> t, value |-> acc["second"].value])

LEMMA InternalIs ==
  ASSUME NEW a \in [value : Nat, on_reset : BOOLEAN]
  PROVE  Basic!AccumulatorInternal(a) = [value |-> 0, on_reset |-> FALSE]
<1> DEFINE b == [a EXCEPT !.value = 0]
<1>1. a = [value |-> a.value, on_reset |-> a.on_reset]
  OBVIOUS
<1>2. b = [value |-> 0, on_reset |-> a.on_reset]
  BY <1>1
<1>3. Basic!AccumulatorInternal(a) = [b EXCEPT !.on_reset = FALSE]
  BY DEF Basic!AccumulatorInternal
<1> HIDE DEF b
<1>4. QED
  BY <1>2, <1>3

LEMMA AllResetDoes ==
  ASSUME BasicTypes, NEW now \in Nat, PhaseIs(now), NEW t \in Nat, RoundIs(t), AllReset(now, t)
  PROVE  ResetEffect(t) /\ acc' \in [Basic!Accumulator -> [value : Nat, on_reset : BOOLEAN]]
<1> DEFINE due == Due(t)
<1>1. due = {"first", "second"} /\ acc["first"].on_reset = TRUE /\ acc["second"].on_reset = TRUE
  BY DEF AllReset, PhaseIs, BasicTypes, Basic!Accumulator
<1> HIDE DEF due
<1>2. Adders \cap due = {} /\ Resetters \cap due = {}
  BY <1>1, BasicConstants
<1>3. Basic!Receivers(due) = {"second", "filter"}
  BY <1>1, <1>2 DEF Basic!Receivers
<1>4. Reached(t) = {"first", "second", "filter"}
  BY <1>1, <1>3 DEF Reached, due
<1>5. Basic!Cardinality({}) = 0
  <2>1. Basic!Cardinality({}) = Cardinality({})
    BY DEF Basic!Cardinality, Cardinality
  <2>2. QED
    BY <2>1, FS_EmptySet
<1>6. Basic!Adds("second", due) = acc["first"].value
  BY <1>1 DEF Basic!Adds, Basic!AccumulatorOutput
<1>7. /\ acc["first"].value \in Nat /\ acc["second"].value \in Nat
      /\ acc["first"] \in [value : Nat, on_reset : BOOLEAN]
      /\ acc["second"] \in [value : Nat, on_reset : BOOLEAN]
  BY BasicConstants DEF BasicTypes
<1>8. acc' = [a \in Basic!Accumulator |-> Basic!AccumulatorAfter(a, due)]
  BY DEF RoundIs, due
<1>9. acc'["first"].value = 0 /\ acc'["first"].on_reset = FALSE
      /\ acc'["first"] \in [value : Nat, on_reset : BOOLEAN]
  <2>1. acc'["first"] = Basic!AccumulatorInternal(acc["first"])
    BY <1>1, <1>3, <1>8, BasicConstants DEF Basic!AccumulatorAfter
  <2>2. acc'["first"] = [value |-> 0, on_reset |-> FALSE]
    BY <1>7, <2>1, InternalIs
  <2>3. QED
    BY <2>2
<1>10. /\ acc'["second"].value = acc["first"].value /\ acc'["second"].on_reset = FALSE
       /\ acc'["second"] \in [value : Nat, on_reset : BOOLEAN]
  <2>1. acc'["second"] = Basic!AccumulatorConfluence(acc["second"], acc["first"].value, 0)
    BY <1>1, <1>2, <1>3, <1>5, <1>6, <1>8, BasicConstants DEF Basic!AccumulatorAfter
  <2>2. Basic!AccumulatorInternal(acc["second"]) = [value |-> 0, on_reset |-> FALSE]
    BY <1>7, InternalIs
  <2>3. acc'["second"] = [value |-> 0 + acc["first"].value, on_reset |-> FALSE]
    <3>1. acc'["second"] = Basic!AccumulatorExternal([value |-> 0, on_reset |-> FALSE], acc["first"].value, 0)
      BY <2>1, <2>2 DEF Basic!AccumulatorConfluence
    <3>2. ([value |-> 0, on_reset |-> FALSE].on_reset \/ 0 > 0) = FALSE
      OBVIOUS
    <3>3. [value |-> 0, on_reset |-> FALSE].value = 0
      OBVIOUS
    <3>4. QED
      BY <3>1, <3>2, <3>3 DEF Basic!AccumulatorExternal
  <2>4. 0 + acc["first"].value = acc["first"].value
    BY <1>7
  <2>5. QED
    BY <1>7, <2>3, <2>4
<1>11. acc' \in [Basic!Accumulator -> [value : Nat, on_reset : BOOLEAN]]
  <2>1. \A a \in Basic!Accumulator : acc'[a] \in [value : Nat, on_reset : BOOLEAN]
    BY <1>9, <1>10, BasicConstants
  <2>2. QED
    BY <1>8, <2>1
<1>12. thrown' = FALSE
  <2>1. \A a \in Basic!Accumulator : ~Basic!AccumulatorThrows(a, due)
    BY <1>1, BasicConstants DEF Basic!AccumulatorThrows
  <2>2. ~Basic!FilterAsserts(due) /\ ~Basic!PassiveThrows(due)
    BY <1>1 DEF Basic!FilterAsserts, Basic!PassiveThrows
  <2>3. ~Basic!Throwing(due)
    BY <2>1, <2>2 DEF Basic!Throwing
  <2>4. QED
    BY <2>3 DEF RoundIs, due, Basic!Throwing
<1>13. /\ sums'["first"] = Append(sums["first"], [time |-> t, value |-> acc["first"].value])
       /\ sums'["second"] = Append(sums["second"], [time |-> t, value |-> acc["second"].value])
  BY <1>1, BasicConstants DEF RoundIs, due
<1>14. gen' = gen /\ filter' = filter + 1 /\ passed' = passed
  BY <1>1, <1>4 DEF RoundIs, due
<1>15. last' = [m \in Basic!Model |-> IF m \in Reached(t) THEN t ELSE last[m]]
  BY DEF RoundIs
<1>16. \A m \in Basic!Model : last'[m] = t \/ last'[m] = last[m]
  BY <1>15
<1>17. \A g \in Basic!Generator : last'[g] = last[g]
  <2>1. \A g \in Basic!Generator : g \notin Reached(t) /\ g \in Basic!Model
    BY <1>4, BasicConstants DEF Basic!Model
  <2>2. QED
    BY <1>15, <2>1
<1>18. last'["filter"] = t
  BY <1>4, <1>15, BasicConstants
<1>19. AccIs("first", 0, FALSE) /\ AccIs("second", acc["first"].value, FALSE)
  BY <1>9, <1>10 DEF AccIs
<1>20. ResetEffect(t)
  BY <1>12, <1>13, <1>14, <1>16, <1>17, <1>18, <1>19 DEF ResetEffect
<1>21. QED
  BY <1>11, <1>20

FilterEffect(t) ==
  /\ gen' = gen /\ thrown' = FALSE /\ filter' = filter + 1 /\ passed' = Append(passed, t)
  /\ sums'["first"] = sums["first"] /\ sums'["second"] = sums["second"]
  /\ acc'["first"] = acc["first"] /\ acc'["second"] = acc["second"]
  /\ \A m \in Basic!Model : last'[m] = t \/ last'[m] = last[m]
  /\ \A g \in Basic!Generator : last'[g] = last[g]

LEMMA FilteredDoes ==
  ASSUME BasicTypes, NEW now \in Nat, PhaseIs(now), NEW t \in Nat, RoundIs(t), Filtered(now, t)
  PROVE  FilterEffect(t) /\ acc' \in [Basic!Accumulator -> [value : Nat, on_reset : BOOLEAN]]
<1> DEFINE due == Due(t)
<1>1. due = {"filter"}
  BY DEF Filtered
<1> HIDE DEF due
<1>2. Adders \cap due = {} /\ Resetters \cap due = {}
  BY <1>1, BasicConstants
<1>3. Basic!Receivers(due) = {"passive"}
  BY <1>1, <1>2 DEF Basic!Receivers
<1>4. Reached(t) = {"filter", "passive"}
  BY <1>1, <1>3 DEF Reached, due
<1>5. acc' = [a \in Basic!Accumulator |-> Basic!AccumulatorAfter(a, due)]
  BY DEF RoundIs, due
<1>6. acc'["first"] = acc["first"] /\ acc'["second"] = acc["second"]
  BY <1>1, <1>3, <1>5, BasicConstants DEF Basic!AccumulatorAfter
<1>7. acc' \in [Basic!Accumulator -> [value : Nat, on_reset : BOOLEAN]]
  <2>1. \A a \in Basic!Accumulator : acc'[a] \in [value : Nat, on_reset : BOOLEAN]
    BY <1>6, BasicConstants DEF BasicTypes
  <2>2. QED
    BY <1>5, <2>1
<1>8. thrown' = FALSE
  <2>1. \A a \in Basic!Accumulator : ~Basic!AccumulatorThrows(a, due)
    BY <1>1, <1>3, BasicConstants DEF Basic!AccumulatorThrows
  <2>2. ~Basic!FilterAsserts(due) /\ ~Basic!PassiveThrows(due)
    BY <1>1, <1>3 DEF Basic!FilterAsserts, Basic!PassiveThrows
  <2>3. ~Basic!Throwing(due)
    BY <2>1, <2>2 DEF Basic!Throwing
  <2>4. QED
    BY <2>3 DEF RoundIs, due, Basic!Throwing
<1>9. sums'["first"] = sums["first"] /\ sums'["second"] = sums["second"]
  BY <1>1, BasicConstants DEF RoundIs, due
<1>10. gen' = gen /\ filter' = filter + 1 /\ passed' = Append(passed, t)
  BY <1>1, <1>4 DEF RoundIs, due
<1>11. last' = [m \in Basic!Model |-> IF m \in Reached(t) THEN t ELSE last[m]]
  BY DEF RoundIs
<1>12. \A m \in Basic!Model : last'[m] = t \/ last'[m] = last[m]
  BY <1>11
<1>13. \A g \in Basic!Generator : last'[g] = last[g]
  <2>1. \A g \in Basic!Generator : g \notin Reached(t) /\ g \in Basic!Model
    BY <1>4, BasicConstants DEF Basic!Model
  <2>2. QED
    BY <1>11, <2>1
<1>14. FilterEffect(t)
  BY <1>6, <1>8, <1>9, <1>10, <1>12, <1>13 DEF FilterEffect
<1>15. QED
  BY <1>7, <1>14

LEMMA SameGenerators ==
  ASSUME gen' = gen
  PROVE  /\ (Basic!Resets)' = Basic!Resets
         /\ \A a, b \in Nat : Basic!ValuesBetween(a, b)' = Basic!ValuesBetween(a, b)
BY DEF Basic!Resets, Basic!ValuesBetween, Basic!Between

LEMMA BasicTypesStay ==
  ASSUME BasicTypes, NEW t \in Nat, RoundIs(t), thrown' = FALSE,
         acc' \in [Basic!Accumulator -> [value : Nat, on_reset : BOOLEAN]]
  PROVE  BasicTypes'
<1>1. last' \in [Basic!Model -> Nat]
  BY DEF BasicTypes, RoundIs
<1>2. filter' \in Nat
  BY DEF BasicTypes, RoundIs
<1>3. sums' \in [Basic!Accumulator -> Seq(Sums)]
  <2>1. ASSUME NEW a \in Basic!Accumulator
        PROVE  sums'[a] \in Seq(Sums)
    <3>1. [time |-> t, value |-> acc[a].value] \in Sums /\ sums[a] \in Seq(Sums)
      <4>1. acc[a].value \in Nat /\ sums[a] \in Seq(Sums)
        BY DEF BasicTypes
      <4>2. QED
        BY <4>1 DEF Sums
    <3>2. sums'[a] = Append(sums[a], [time |-> t, value |-> acc[a].value]) \/ sums'[a] = sums[a]
      BY DEF RoundIs
    <3>3. Append(sums[a], [time |-> t, value |-> acc[a].value]) \in Seq(Sums)
      <4> DEFINE x == [time |-> t, value |-> acc[a].value]
      <4>1. x \in Sums
        BY <3>1
      <4> HIDE DEF x
      <4>2. Append(sums[a], x) \in Seq(Sums)
        BY <3>1, <4>1, AppendProperties
      <4>3. QED
        BY <4>2 DEF x
    <3>4. QED
      BY <3>1, <3>2, <3>3
  <2>2. sums' = [a \in Basic!Accumulator |-> sums'[a]]
    BY DEF RoundIs
  <2>3. QED
    BY <2>1, <2>2
<1>4. passed' \in Seq(Nat)
  <2>1. passed \in Seq(Nat)
    BY DEF BasicTypes
  <2>2. passed' = Append(passed, t) \/ passed' = passed
    BY DEF RoundIs
  <2>3. QED
    BY <2>1, <2>2, AppendProperties
<1>5. gen' \in [Basic!Generator -> [period : 1 .. Infinity - 1, output : Nat]]
  BY DEF BasicTypes, RoundIs
<1>6. QED
  BY <1>1, <1>2, <1>3, <1>4, <1>5 DEF BasicTypes, Basic!Generator, Basic!Model, Basic!Accumulator

(* Where the sums are the same they stay as they should be.                   *)
LEMMA SumsStay ==
  ASSUME BasicTypes, SumsAre, gen' = gen, sums'["first"] = sums["first"], sums'["second"] = sums["second"]
  PROVE  SumsAre' /\ LastSum' = LastSum
<1>1. LastSum' = LastSum
  BY DEF LastSum
<1>2. \A i : SumBefore(i)' = SumBefore(i)
  BY DEF SumBefore
<1>3. ASSUME NEW i \in 1 .. Len(sums["first"])
      PROVE  SumIs(i)'
  <2>1. SumIs(i)
    BY DEF SumsAre
  <2>2. sums["first"][i].time \in Nat /\ SumBefore(i).time \in Nat
    <3>1. sums["first"] \in Seq(Sums)
      BY BasicConstants DEF BasicTypes
    <3>2. Len(sums["first"]) \in Nat /\ \A k \in 1 .. Len(sums["first"]) : sums["first"][k] \in Sums
      BY <3>1, ElementOfSeq, LenProperties
    <3>3. i # 1 => i - 1 \in 1 .. Len(sums["first"])
      BY <3>2
    <3>4. QED
      BY <3>2, <3>3 DEF SumBefore, Sums
  <2> DEFINE a == SumBefore(i).time
             b == sums["first"][i].time
  <2>3. Basic!ValuesBetween(a, b)' = Basic!ValuesBetween(a, b)
    <3>1. a \in Nat /\ b \in Nat
      BY <2>2
    <3>2. gen' = gen /\ a' = a /\ b' = b
      BY <1>2
    <3>3. QED
      BY <3>2 DEF Basic!ValuesBetween, Basic!Between
  <2>4. QED
    BY <1>2, <2>1, <2>3, SameGenerators DEF SumIs
<1>4. QED
  BY <1>1, <1>3 DEF SumsAre

LEMMA ClockStays ==
  ASSUME BasicTypes, NEW now \in Nat, ClockIs(now), gen' = gen,
         \A m \in Basic!Model : last'[m] = now \/ last'[m] = last[m],
         \A g \in Basic!Generator : last'[g] = last[g]
  PROVE  ClockIs(now)'
<1>1. \A m \in Basic!Model : last'[m] <= now
  BY DEF ClockIs
<1>2. \E m \in Basic!Model : last'[m] = now
  <2>1. PICK m \in Basic!Model : last[m] = now
    BY DEF ClockIs
  <2>2. QED
    BY <2>1
<1>3. \A g \in Basic!Generator : last'[g] = (now \div gen'[g].period) * gen'[g].period
  BY DEF ClockIs
<1>4. QED
  BY <1>1, <1>2, <1>3 DEF ClockIs, Basic!Model, Basic!Generator, Basic!Accumulator

(* The round of some generators.                                              *)
LEMMA ClockGoesOn ==
  ASSUME BasicTypes, NEW now \in Nat, ClockIs(now), NEW t \in Nat, RoundIs(t), Generated(now, t),
         GeneratedEffect(t)
  PROVE  ClockIs(t)'
<1>1. ASSUME NEW g \in Basic!Generator
      PROVE  last'[g] = (t \div gen[g].period) * gen[g].period
  <2> DEFINE p == gen[g].period
             n == last[g]
  <2>1. p \in Nat \ {0} /\ n \in Nat /\ n = (now \div p) * p /\ n <= now /\ now < n + p
    BY GeneratorsAhead
  <2>2. t <= n + p /\ now < t /\ (g \in Due(t) <=> n + p = t)
    <3>1. g \in Basic!Model /\ Basic!NextEvent(g) = n + p
      BY NextEventIs DEF Basic!Model
    <3>2. QED
      BY <3>1 DEF RoundIs, Generated, Due
  <2>3. last'[g] = IF g \in Due(t) THEN t ELSE n
    BY DEF GeneratedEffect
  <2> HIDE DEF p, n
  <2>4. t \div p = IF t = (now \div p) * p + p THEN now \div p + 1 ELSE now \div p
    <3>1. now <= t
      BY <2>2
    <3>2. t <= (now \div p) * p + p
      BY <2>1, <2>2
    <3>3. QED
      BY <2>1, <3>1, <3>2, DivNext
  <2>5. now \div p \in Nat
    BY <2>1, DivBounds
  <2>6. CASE n + p = t
    <3>1. t \div p = now \div p + 1
      BY <2>1, <2>4, <2>6
    <3> DEFINE k == now \div p
    <3>2. k \in Nat /\ n = k * p /\ t \div p = k + 1
      BY <2>1, <2>5, <3>1
    <3> HIDE DEF k
    <3>3. (k + 1) * p = k * p + p
      BY <2>1, <3>2
    <3>4. (t \div p) * p = t
      BY <2>6, <3>2, <3>3
    <3>5. last'[g] = t
      BY <2>2, <2>3, <2>6
    <3>6. QED
      BY <3>4, <3>5 DEF p
  <2>7. CASE n + p # t
    <3>1. t \div p = now \div p
      BY <2>1, <2>4, <2>7
    <3>2. (t \div p) * p = n
      BY <2>1, <3>1
    <3>3. last'[g] = n
      BY <2>2, <2>3, <2>7
    <3>4. QED
      BY <3>2, <3>3 DEF p
  <2>8. QED
    BY <2>6, <2>7
<1>2. \A m \in Basic!Model : last'[m] <= t
  <2>1. \A m \in Basic!Model : last[m] \in Nat /\ last[m] <= now
    BY DEF BasicTypes, ClockIs
  <2>2. now < t
    BY DEF Generated
  <2>3. QED
    BY <2>1, <2>2 DEF GeneratedEffect
<1>3. \E m \in Basic!Model : last'[m] = t
  <2>1. PICK g \in Due(t) : g \in Basic!Generator
    BY DEF Generated
  <2>2. QED
    BY <2>1 DEF GeneratedEffect, Basic!Model
<1>4. gen' = gen
  BY DEF GeneratedEffect
<1>5. QED
  BY <1>1, <1>2, <1>3, <1>4 DEF ClockIs, Basic!Model, Basic!Generator, Basic!Accumulator

(* A reset comes at the time of such a round only.                            *)
LEMMA ResetsAre ==
  ASSUME BasicTypes, NEW now \in Nat, ClockIs(now), NEW t \in Nat, RoundIs(t), Generated(now, t)
  PROVE  /\ \A k \in Basic!Resets : ~(now < k /\ k < t)
         /\ t \in Basic!Resets <=> Resetters \cap Due(t) # {}
<1>1. ASSUME NEW k \in Basic!Resets, now < k, k <= t
      PROVE  k = t /\ Resetters \cap Due(t) # {}
  <2>1. PICK g \in Resetters : k % gen[g].period = 0
    BY DEF Basic!Resets
  <2>2. g \in Basic!Generator /\ g \in Basic!Model
    BY BasicConstants
  <2> DEFINE p == gen[g].period
             n == last[g]
  <2>3. p \in Nat \ {0} /\ n \in Nat /\ n = (now \div p) * p /\ n <= now /\ now < n + p
    BY <2>2, GeneratorsAhead
  <2>4. t <= n + p /\ (g \in Due(t) <=> n + p = t)
    <3>1. Basic!NextEvent(g) = n + p
      BY <2>2, NextEventIs
    <3>2. QED
      BY <2>2, <3>1 DEF RoundIs, Due
  <2>5. k \in Nat /\ k % p = 0
    BY <2>1 DEF Basic!Resets
  <2> HIDE DEF p, n
  <2>6. k = (k \div p) * p
    BY <2>3, <2>5, DivBounds
  <2>7. k \div p = IF k = (now \div p) * p + p THEN now \div p + 1 ELSE now \div p
    <3>1. now <= k
      BY <1>1, <2>5
    <3>2. k <= (now \div p) * p + p
      BY <1>1, <2>3, <2>4, <2>5
    <3>3. QED
      BY <2>3, <2>5, <3>1, <3>2, DivNext
  <2>8. k = n + p
    <3>1. CASE k # n + p
      <4>1. k \div p = now \div p
        BY <2>3, <2>7, <3>1
      <4>2. k = n
        BY <2>3, <2>6, <4>1
      <4>3. QED
        BY <1>1, <2>3, <2>5, <4>2
    <3>2. QED
      BY <3>1
  <2>9. k = t /\ g \in Due(t)
    BY <1>1, <2>3, <2>4, <2>5, <2>8
  <2>10. QED
    BY <2>1, <2>9
<1>2. ASSUME NEW g \in Resetters \cap Due(t)
      PROVE  t \in Basic!Resets
  <2>1. g \in Basic!Generator /\ g \in Basic!Model
    BY BasicConstants
  <2> DEFINE p == gen[g].period
             n == last[g]
             k == now \div p
  <2>2. p \in Nat \ {0} /\ n \in Nat /\ n = k * p
    BY <2>1, GeneratorsAhead
  <2>3. t = n + p
    BY <2>1, NextEventIs DEF Due
  <2>4. k \in Nat
    BY <2>2, DivBounds
  <2>5. t \in 1 .. MaxTime
    BY BasicConstants DEF RoundIs, Generated
  <2> HIDE DEF k
  <2>6. t \div p = k + 1
    <3> HIDE DEF p, n
    <3>1. (k + 1) * p = k * p + p /\ k + 1 \in Nat /\ k * p \in Nat
      BY <2>2, <2>4
    <3>2. (k + 1) * p <= t /\ t < (k + 1) * p + p
      BY <2>2, <2>3, <3>1
    <3>3. QED
      BY <2>2, <3>1, <3>2, DivIs
  <2>7. t % p = 0
    <3> HIDE DEF p, n
    <3>1. (k + 1) * p = k * p + p
      BY <2>2, <2>4
    <3>2. t = (t \div p) * p
      BY <2>2, <2>3, <2>6, <3>1
    <3>3. QED
      BY <2>2, <3>2, DivBounds
  <2>8. QED
    BY <2>5, <2>7 DEF Basic!Resets
<1>3. ASSUME NEW k \in Basic!Resets, now < k, k < t
      PROVE  FALSE
  <2>1. k \in Nat /\ k <= t
    BY <1>3 DEF Basic!Resets
  <2>2. k = t
    BY <1>1, <1>3, <2>1
  <2>3. QED
    BY <1>3, <2>1, <2>2
<1>4. now < t /\ t <= t
  BY DEF Generated
<1>5. QED
  BY <1>1, <1>2, <1>3, <1>4

LEMMA PhaseGoesOn ==
  ASSUME BasicTypes, SumsAre, NEW now \in Nat, ClockIs(now), PhaseIs(now), ValuesAre(now),
         NEW t \in Nat, RoundIs(t), Generated(now, t), GeneratedEffect(t)
  PROVE  PhaseIs(t)'
<1> DEFINE more == Resetters \cap Due(t) # {}
<1>1. acc'["first"].on_reset = more /\ acc'["second"].on_reset = more
  BY DEF GeneratedEffect, AccIs
<1>2. more => last'["first"] = t /\ last'["second"] = t /\ t \in Basic!Resets
  BY ResetsAre DEF GeneratedEffect
<1>3. LastSum' = LastSum /\ (Basic!Resets)' = Basic!Resets
  BY SumsStay, SameGenerators DEF GeneratedEffect, HistoriesStay
<1> HIDE DEF more
<1>4. filter # 1 /\ filter' = filter
  BY DEF Generated, GeneratedEffect
<1>5. LastSum.time < t
  <2>1. LastSum.time \in Int
    <3>1. sums["first"] \in Seq(Sums)
      BY BasicConstants DEF BasicTypes
    <3>2. Len(sums["first"]) \in Nat /\ \A i \in 1 .. Len(sums["first"]) : sums["first"][i] \in Sums
      BY <3>1, ElementOfSeq, LenProperties
    <3>3. QED
      BY <3>2 DEF LastSum, Sums
  <2>2. LastSum.time <= now /\ now < t
    BY DEF ValuesAre, Generated
  <2>3. QED
    BY <2>1, <2>2
<1>6. sums'["first"] = sums["first"] /\ passed' = passed
  BY DEF GeneratedEffect, HistoriesStay
<1>7. acc'["first"].on_reset = acc'["second"].on_reset
  BY <1>1
<1>8. acc'["first"].on_reset =>
        /\ last'["first"] = t /\ last'["second"] = t /\ filter' # 1
        /\ t \in (Basic!Resets)' /\ (LastSum').time < t
  BY <1>1, <1>2, <1>3, <1>4, <1>5
<1>9. filter' = Len(sums'["first"]) + Len(passed') /\ Len(passed') = IF filter' > 1 THEN 1 ELSE 0
  BY <1>4, <1>6 DEF PhaseIs
<1>10. passed' # <<>> => passed'[1] = sums'["first"][1].time
  BY <1>6 DEF PhaseIs
<1>11. QED
  BY <1>4, <1>7, <1>8, <1>9, <1>10 DEF PhaseIs

(* What the adders output until the time of such a round.                     *)
LEMMA ValuesGoOn ==
  ASSUME BasicTypes, NEW now \in Nat, ClockIs(now), NEW t \in Nat, RoundIs(t), Generated(now, t),
         NEW a \in Nat, a <= now
  PROVE  Basic!ValuesBetween(a, t) = Basic!ValuesBetween(a, now) + AddedAt(t)
<1> DEFINE f == [g \in Adders |-> gen[g].output * Basic!Between(g, a, now)]
           h == [g \in Adders |-> gen[g].output * Basic!Between(g, a, t)]
           out == [g \in Adders |-> gen[g].output]
           d == [g \in Adders |-> IF g \in Due(t) THEN gen[g].output ELSE 0]
<1>1. ASSUME NEW g \in Adders
      PROVE  f[g] \in Nat /\ d[g] \in Nat /\ h[g] = f[g] + d[g]
  <2> DEFINE p == gen[g].period
             n == last[g]
             o == gen[g].output
             x == a \div p
             y == now \div p
             z == t \div p
  <2>1. g \in Basic!Generator /\ g \in Basic!Model
    BY BasicConstants
  <2>2. p \in Nat \ {0} /\ n \in Nat /\ n = y * p /\ n <= now /\ now < n + p
    BY <2>1, GeneratorsAhead
  <2>3. o \in Nat
    BY <2>1 DEF BasicTypes
  <2>4. t <= n + p /\ (g \in Due(t) <=> n + p = t) /\ now < t
    <3>1. Basic!NextEvent(g) = n + p
      BY <2>1, NextEventIs
    <3>2. QED
      BY <2>1, <3>1 DEF RoundIs, Due, Generated
  <2>5. z = IF t = n + p THEN y + 1 ELSE y
    <3> HIDE DEF p, n
    <3>1. now <= t /\ t <= (now \div p) * p + p
      BY <2>2, <2>4
    <3>2. QED
      BY <2>2, <3>1, DivNext
  <2>6. x \in Nat /\ y \in Nat /\ x <= y
    <3>1. x \in Nat /\ y \in Nat /\ x * p <= a /\ now < y * p + p
      BY <2>2, DivBounds
    <3> HIDE DEF p, x, y
    <3>2. x * p < y * p + p
      BY <2>2, <3>1
    <3>3. ~(y < x)
      <4>1. ASSUME y < x
            PROVE  FALSE
        <5>1. PICK e \in Nat : x = y + 1 + e
          <6>1. x - y - 1 \in Nat /\ x = y + 1 + (x - y - 1)
            BY <3>1, <4>1
          <6>2. QED
            BY <6>1
        <5>2. x * p = y * p + p + e * p /\ e * p \in Nat /\ y * p \in Nat
          BY <2>2, <3>1, <5>1
        <5>3. QED
          BY <2>2, <3>2, <5>2
      <4>2. QED
        BY <4>1
    <3>4. QED
      BY <3>1, <3>3
  <2>7. f[g] = o * (y - x) /\ h[g] = o * (z - x) /\ d[g] = IF g \in Due(t) THEN o ELSE 0
    BY DEF Basic!Between
  <2> HIDE DEF f, h, d, p, n, o, x, y, z
  <2>8. y - x \in Nat
    BY <2>6
  <2>9. o * (y - x) \in Nat
    BY <2>3, <2>8
  <2>10. CASE g \in Due(t)
    <3>1. z - x = (y - x) + 1
      BY <2>4, <2>5, <2>6, <2>10
    <3> DEFINE w == y - x
    <3>2. w \in Nat /\ z - x = w + 1
      BY <2>8, <3>1
    <3> HIDE DEF w
    <3>3. o * (w + 1) = o * w + o
      BY <2>3, <3>2
    <3>4. h[g] = o * w + o /\ f[g] = o * w /\ d[g] = o
      BY <2>7, <2>10, <3>2, <3>3 DEF w
    <3>5. QED
      BY <2>3, <2>7, <2>9, <3>4
  <2>11. CASE g \notin Due(t)
    <3>1. z = y
      BY <2>4, <2>5, <2>11
    <3>2. h[g] = f[g] /\ d[g] = 0
      BY <2>7, <2>11, <3>1
    <3>3. QED
      BY <2>7, <2>9, <3>2
  <2>12. QED
    BY <2>10, <2>11
<1>2. \A g \in Adders : out[g] \in Nat
  BY BasicConstants DEF BasicTypes
<1>3. \A g \in Adders : g \notin Due(t) => d[g] = 0
  OBVIOUS
<1>4. \A g \in Adders \cap Due(t) : out[g] \in Nat /\ d[g] = out[g]
  BY <1>2
<1>5. IsFiniteSet(Adders) /\ IsFiniteSet(Adders \cap Due(t)) /\ Adders \cap Due(t) \in SUBSET Adders
  BY BasicConstants, FS_Subset
<1> HIDE DEF f, h, out, d
<1>6. SumFunctionOnSet(h, Adders) = SumFunctionOnSet(f, Adders) + SumFunctionOnSet(d, Adders)
  BY <1>1, <1>5, SumPlus
<1>7. SumFunctionOnSet(d, Adders \cap Due(t)) = SumFunctionOnSet(d, Adders)
  BY <1>1, <1>3, <1>5, SumOfSubset
<1>8. SumFunctionOnSet(d, Adders \cap Due(t)) = SumFunctionOnSet(out, Adders \cap Due(t))
  BY <1>4, <1>5, SumSame
<1>9. /\ Basic!ValuesBetween(a, t) = SumFunctionOnSet(h, Adders)
      /\ Basic!ValuesBetween(a, now) = SumFunctionOnSet(f, Adders)
  BY BasicSum DEF Basic!ValuesBetween, f, h
<1>10. AddedAt(t) = SumFunctionOnSet(out, Adders \cap Due(t))
  BY DEF AddedAt, out
<1>11. QED
  BY <1>6, <1>7, <1>8, <1>9, <1>10

LEMMA NothingYet ==
  ASSUME BasicTypes, NEW a \in Nat
  PROVE  Basic!ValuesBetween(a, a) = 0
<1> DEFINE f == [g \in Adders |-> gen[g].output * Basic!Between(g, a, a)]
<1>1. ASSUME NEW g \in Adders
      PROVE  f[g] = 0
  <2>1. gen[g].output \in Nat /\ gen[g].period \in Nat \ {0}
    BY BasicConstants DEF BasicTypes
  <2> DEFINE x == a \div gen[g].period
  <2>2. x \in Nat
    BY <2>1, DivBounds
  <2>3. f[g] = gen[g].output * (x - x)
    BY DEF Basic!Between
  <2> HIDE DEF f, x
  <2>4. x - x = 0
    BY <2>2
  <2>5. QED
    BY <2>1, <2>3, <2>4
<1>2. Basic!ValuesBetween(a, a) = SumFunctionOnSet(f, Adders)
  BY BasicSum DEF Basic!ValuesBetween
<1> HIDE DEF f
<1>3. SumFunctionOnSet(f, Adders) = 0
  BY <1>1, SumZero, BasicConstants
<1>4. QED
  BY <1>2, <1>3

LEMMA SumsTyped ==
  ASSUME BasicTypes
  PROVE  /\ Len(sums["first"]) \in Nat
         /\ \A i \in 1 .. Len(sums["first"]) : sums["first"][i].time \in Nat /\ sums["first"][i].value \in Nat
         /\ LastSum.time \in Nat /\ LastSum.value \in Nat
<1>1. sums["first"] \in Seq(Sums)
  BY BasicConstants DEF BasicTypes
<1>2. Len(sums["first"]) \in Nat /\ \A i \in 1 .. Len(sums["first"]) : sums["first"][i] \in Sums
  BY <1>1, ElementOfSeq, LenProperties
<1>3. QED
  BY <1>2 DEF LastSum, Sums

LEMMA ValuesGenerated ==
  ASSUME BasicTypes, SumsAre, NEW now \in Nat, ClockIs(now), PhaseIs(now), ValuesAre(now),
         NEW t \in Nat, RoundIs(t), Generated(now, t), GeneratedEffect(t)
  PROVE  ValuesAre(t)'
<1> DEFINE lt == LastSum.time
<1>1. lt \in Nat /\ lt <= now /\ now < t /\ lt <= t
  BY SumsTyped DEF ValuesAre, Generated
<1>2. LastSum' = LastSum /\ gen' = gen /\ sums'["first"] = sums["first"]
  BY SumsStay DEF GeneratedEffect, HistoriesStay
<1>3. acc'["first"].value = acc["first"].value + AddedAt(t) /\ acc'["second"].value = acc["second"].value
      /\ acc'["first"].on_reset = (Resetters \cap Due(t) # {})
  BY DEF GeneratedEffect, AccIs
<1>4. acc["first"].value = Basic!ValuesBetween(lt, now) /\ acc["second"].value = LastSum.value
  BY DEF ValuesAre
<1>5. Basic!ValuesBetween(lt, t) = Basic!ValuesBetween(lt, now) + AddedAt(t)
  <2> HIDE DEF lt
  <2>1. QED
    BY <1>1, ValuesGoOn
<1>6. Basic!ValuesBetween(LastSum.time, t)' = Basic!ValuesBetween(lt, t)
  <2>1. (LastSum.time)' = lt
    BY <1>2
  <2> HIDE DEF lt
  <2>2. QED
    BY <1>2, <2>1 DEF Basic!ValuesBetween, Basic!Between
<1>7. acc'["first"].value = Basic!ValuesBetween(LastSum.time, t)'
  BY <1>3, <1>4, <1>5, <1>6
<1>8. ASSUME NEW k \in Basic!Resets, k < t \/ (k = t /\ ~acc'["first"].on_reset)
      PROVE  \E i \in 1 .. Len(sums["first"]) : sums["first"][i].time = k
  <2>1. k \in Nat
    BY DEF Basic!Resets
  <2>2. ASSUME k = t
        PROVE  FALSE
    <3>1. ~acc'["first"].on_reset
      BY <1>8, <2>1, <2>2
    <3>2. Resetters \cap Due(t) # {}
      BY <2>2, ResetsAre
    <3>3. QED
      BY <1>3, <3>1, <3>2
  <2>3. k < t
    BY <1>8, <2>2
  <2>4. k <= now
    BY <2>1, <2>3, ResetsAre
  <2>5. ~acc["first"].on_reset
    BY DEF Generated
  <2>6. k < now \/ k = now
    BY <2>1, <2>4
  <2>7. QED
    BY <2>5, <2>6 DEF ValuesAre
<1>9. (Basic!Resets)' = Basic!Resets
  BY <1>2, SameGenerators
<1>10. (LastSum').time <= t /\ acc'["second"].value = (LastSum').value
  BY <1>1, <1>2, <1>3, <1>4
<1>11. \A k \in (Basic!Resets)' : k < t \/ (k = t /\ ~acc'["first"].on_reset) =>
         \E i \in 1 .. Len(sums'["first"]) : sums'["first"][i].time = k
  BY <1>2, <1>8, <1>9
<1>12. QED
  BY <1>7, <1>10, <1>11 DEF ValuesAre

(* The round of the filter.                                                   *)
LEMMA FilterKeeps ==
  ASSUME BasicTypes, SumsAre, NEW now \in Nat, ClockIs(now), PhaseIs(now), ValuesAre(now),
         Filtered(now, now), FilterEffect(now)
  PROVE  SumsAre' /\ ClockIs(now)' /\ PhaseIs(now)' /\ ValuesAre(now)'
<1>1. gen' = gen /\ sums'["first"] = sums["first"] /\ sums'["second"] = sums["second"]
      /\ acc'["first"] = acc["first"] /\ acc'["second"] = acc["second"]
      /\ filter' = filter + 1 /\ passed' = Append(passed, now)
  BY DEF FilterEffect
<1>2. SumsAre' /\ LastSum' = LastSum
  BY <1>1, SumsStay
<1>3. ClockIs(now)'
  BY <1>1, ClockStays DEF FilterEffect
<1>4. (Basic!Resets)' = Basic!Resets
  BY <1>1, SameGenerators
<1>5. PhaseIs(now)'
  <2>1. /\ filter = 1 /\ acc["first"].on_reset = acc["second"].on_reset
        /\ ~acc["first"].on_reset
        /\ LastSum.time = now
        /\ filter = Len(sums["first"]) + Len(passed)
        /\ Len(passed) = 0
    <3>1. filter = 1 /\ ~acc["first"].on_reset
      BY DEF Filtered
    <3>2. Len(passed) = IF filter > 1 THEN 1 ELSE 0
      BY DEF PhaseIs
    <3>3. Len(passed) = 0
      BY <3>1, <3>2
    <3>4. QED
      BY <3>1, <3>3 DEF PhaseIs
  <2>2. Len(sums["first"]) = 1
    BY <2>1, SumsTyped
  <2>3. passed \in Seq(Nat)
    BY DEF BasicTypes
  <2>4. Len(passed') = 1 /\ passed'[1] = now
    <3>1. Len(Append(passed, now)) = Len(passed) + 1 /\ Append(passed, now)[Len(passed) + 1] = now
      BY <2>3, AppendProperties
    <3>2. QED
      BY <1>1, <2>1, <3>1
  <2>5. sums'["first"][1].time = now
    BY <1>1, <2>1, <2>2 DEF LastSum
  <2>6. filter' = 2
    BY <1>1, <2>1
  <2>7. /\ filter' = Len(sums'["first"]) + Len(passed')
        /\ Len(passed') = IF filter' > 1 THEN 1 ELSE 0
        /\ filter' # 1
    BY <1>1, <2>2, <2>4, <2>6
  <2>8. acc'["first"].on_reset = acc'["second"].on_reset /\ ~acc'["first"].on_reset
    BY <1>1, <2>1
  <2>9. QED
    BY <2>4, <2>5, <2>7, <2>8 DEF PhaseIs
<1>6. ValuesAre(now)'
  <2> DEFINE lt == LastSum.time
  <2>1. (LastSum.time)' = lt
    BY <1>2
  <2>2. Basic!ValuesBetween(LastSum.time, now)' = Basic!ValuesBetween(lt, now)
    <3> HIDE DEF lt
    <3>1. QED
      BY <1>1, <2>1 DEF Basic!ValuesBetween, Basic!Between
  <2>3. acc'["first"].value = Basic!ValuesBetween(LastSum.time, now)'
    BY <1>1, <2>2 DEF ValuesAre
  <2>4. QED
    BY <1>1, <1>2, <1>4, <2>3 DEF ValuesAre
<1>7. QED
  BY <1>2, <1>3, <1>5, <1>6

(* The round of the accumulators.                                             *)
LEMMA ResetSums ==
  ASSUME BasicTypes, SumsAre, NEW now \in Nat, PhaseIs(now), ValuesAre(now),
         AllReset(now, now), ResetEffect(now)
  PROVE  /\ SumsAre' /\ LastSum' = [time |-> now, value |-> acc["first"].value]
         /\ Len(sums'["first"]) = Len(sums["first"]) + 1
         /\ \A i \in 1 .. Len(sums["first"]) : sums'["first"][i] = sums["first"][i]
         /\ sums'["first"][Len(sums["first"]) + 1].time = now
<1> DEFINE f == sums["first"]
           h == sums["second"]
           x == [time |-> now, value |-> acc["first"].value]
           y == [time |-> now, value |-> acc["second"].value]
<1>0. PICK n \in Nat : n = Len(f)
  BY SumsTyped
<1>1. f \in Seq(Sums) /\ h \in Seq(Sums) /\ x \in Sums /\ y \in Sums
  <2>1. acc["first"].value \in Nat /\ acc["second"].value \in Nat /\ f \in Seq(Sums) /\ h \in Seq(Sums)
    BY BasicConstants DEF BasicTypes
  <2>2. QED
    BY <2>1 DEF Sums
<1>2. sums'["first"] = Append(f, x) /\ sums'["second"] = Append(h, y) /\ gen' = gen
  BY DEF ResetEffect
<1>3. Len(h) = n
  BY <1>0 DEF SumsAre
<1>4. x.time = now /\ x.value = acc["first"].value /\ y.time = now /\ y.value = acc["second"].value
  OBVIOUS
<1> HIDE DEF f, h, x, y
<1>5. /\ n \in Nat /\ Len(Append(f, x)) = n + 1 /\ Append(f, x)[n + 1] = x
      /\ \A i \in 1 .. n : Append(f, x)[i] = f[i]
      /\ Len(Append(h, y)) = n + 1 /\ Append(h, y)[n + 1] = y
      /\ \A i \in 1 .. n : Append(h, y)[i] = h[i]
  BY <1>0, <1>1, <1>3, AppendProperties, LenProperties
<1>6. LastSum' = x
  BY <1>2, <1>5 DEF LastSum
<1>7. \A i \in 1 .. n : SumBefore(i)' = SumBefore(i)
  <2>1. \A i \in 1 .. n : i # 1 => i - 1 \in 1 .. n
    BY <1>5
  <2>2. QED
    BY <1>2, <1>5, <2>1 DEF SumBefore, f
<1>8. SumBefore(n + 1)' = LastSum
  <2>1. CASE n = 0
    BY <1>0, <2>1 DEF SumBefore, LastSum, f
  <2>2. CASE n # 0
    <3>1. n \in 1 .. n /\ n + 1 # 1 /\ (n + 1) - 1 = n
      BY <1>5, <2>2
    <3>2. SumBefore(n + 1)' = sums'["first"][n]
      BY <3>1 DEF SumBefore
    <3>3. LastSum = f[n]
      BY <1>0, <2>2 DEF LastSum, f
    <3>4. QED
      BY <1>2, <1>5, <3>1, <3>2, <3>3
  <2>3. QED
    BY <2>1, <2>2
<1>9. ASSUME NEW i \in 1 .. n
      PROVE  SumIs(i)'
  <2>1. SumIs(i)
    BY <1>0 DEF SumsAre, f
  <2>2. sums'["first"][i] = sums["first"][i] /\ sums'["second"][i] = sums["second"][i]
    BY <1>2, <1>5 DEF f, h
  <2> DEFINE a == SumBefore(i).time
             b == sums["first"][i].time
  <2>3. (SumBefore(i).time)' = a /\ (sums["first"][i].time)' = b
    BY <1>7, <2>2
  <2>4. Basic!ValuesBetween(SumBefore(i).time, sums["first"][i].time)' = Basic!ValuesBetween(a, b)
    <3> HIDE DEF a, b
    <3>1. QED
      BY <1>2, <2>3 DEF Basic!ValuesBetween, Basic!Between
  <2>5. (Basic!Resets)' = Basic!Resets
    BY <1>2, SameGenerators
  <2>6. QED
    BY <1>7, <2>1, <2>2, <2>4, <2>5 DEF SumIs
<1>10. SumIs(n + 1)'
  <2>1. sums'["first"][n + 1] = x /\ sums'["second"][n + 1] = y
    BY <1>2, <1>5
  <2>2. now \in Basic!Resets /\ LastSum.time < now
    BY DEF AllReset, PhaseIs
  <2>3. acc["first"].value = Basic!ValuesBetween(LastSum.time, now) /\ acc["second"].value = LastSum.value
    BY DEF ValuesAre
  <2> DEFINE a == LastSum.time
  <2>4. (SumBefore(n + 1).time)' = a /\ (sums["first"][n + 1].time)' = now
    BY <1>4, <1>8, <2>1
  <2>5. Basic!ValuesBetween(SumBefore(n + 1).time, sums["first"][n + 1].time)' = Basic!ValuesBetween(a, now)
    <3> HIDE DEF a
    <3>1. QED
      BY <1>2, <2>4 DEF Basic!ValuesBetween, Basic!Between
  <2>6. (Basic!Resets)' = Basic!Resets
    BY <1>2, SameGenerators
  <2>7. y = [time |-> now, value |-> LastSum.value]
    BY <2>3 DEF y
  <2>8. QED
    BY <1>4, <1>8, <2>1, <2>2, <2>3, <2>5, <2>6, <2>7 DEF SumIs
<1>11. \A i \in 1 .. n + 1 : i \in 1 .. n \/ i = n + 1
  BY <1>5
<1>12. SumsAre'
  BY <1>2, <1>5, <1>9, <1>10, <1>11 DEF SumsAre
<1>13. QED
  BY <1>0, <1>2, <1>4, <1>5, <1>6, <1>12 DEF f, x

LEMMA ResetKeeps ==
  ASSUME BasicTypes, SumsAre, NEW now \in Nat, ClockIs(now), PhaseIs(now), ValuesAre(now),
         AllReset(now, now), ResetEffect(now)
  PROVE  SumsAre' /\ ClockIs(now)' /\ PhaseIs(now)' /\ ValuesAre(now)'
<1>1. PICK n \in Nat : n = Len(sums["first"])
  BY SumsTyped
<1>2. /\ SumsAre' /\ LastSum' = [time |-> now, value |-> acc["first"].value]
      /\ Len(sums'["first"]) = n + 1
      /\ \A i \in 1 .. n : sums'["first"][i] = sums["first"][i]
      /\ sums'["first"][n + 1].time = now
  BY <1>1, ResetSums
<1>3. /\ gen' = gen /\ filter' = filter + 1 /\ passed' = passed /\ last'["filter"] = now
      /\ acc'["first"].value = 0 /\ acc'["first"].on_reset = FALSE
      /\ acc'["second"].value = acc["first"].value /\ acc'["second"].on_reset = FALSE
  BY DEF ResetEffect, AccIs
<1>4. ClockIs(now)'
  BY <1>3, ClockStays DEF ResetEffect
<1>5. (LastSum').time = now /\ (LastSum').value = acc["first"].value
  BY <1>2
<1>6. PhaseIs(now)'
  <2>1. filter \in Nat /\ filter # 1
    BY DEF BasicTypes, PhaseIs, AllReset
  <2>2. filter = n + Len(passed) /\ Len(passed) = IF filter > 1 THEN 1 ELSE 0
    BY <1>1 DEF PhaseIs
  <2>3. filter' = Len(sums'["first"]) + Len(passed')
    <3> DEFINE l == Len(passed)
    <3>1. l \in Nat /\ filter = n + l
      BY <2>2
    <3>2. filter' = filter + 1 /\ Len(sums'["first"]) = n + 1 /\ Len(passed') = l
      BY <1>2, <1>3
    <3> HIDE DEF l
    <3>3. (n + l) + 1 = (n + 1) + l
      BY <3>1
    <3>4. QED
      BY <3>1, <3>2, <3>3
  <2>4. Len(passed') = IF filter' > 1 THEN 1 ELSE 0
    BY <1>3, <2>1, <2>2
  <2>5. passed' # <<>> => passed'[1] = sums'["first"][1].time
    <3>1. SUFFICES ASSUME passed # <<>>
                   PROVE  passed[1] = sums'["first"][1].time
      BY <1>3
    <3>2. passed \in Seq(Nat)
      BY DEF BasicTypes
    <3>3. Len(passed) # 0
      BY <3>1, <3>2, EmptySeq
    <3>4. filter > 1 /\ Len(passed) = 1
      BY <2>2, <3>3
    <3>5. 1 \in 1 .. n
      <4>1. filter = n + 1
        BY <2>2, <3>4
      <4>2. n >= 1
        BY <3>4, <4>1
      <4>3. QED
        BY <4>2
    <3>6. sums'["first"][1] = sums["first"][1]
      BY <1>2, <3>5
    <3>7. QED
      BY <3>1, <3>6 DEF PhaseIs
  <2>6. filter' = 1 => last'["filter"] = now /\ (LastSum').time = now
    BY <1>3, <1>5
  <2>7. acc'["first"].on_reset = acc'["second"].on_reset /\ ~acc'["first"].on_reset
    BY <1>3
  <2>8. QED
    BY <2>3, <2>4, <2>5, <2>6, <2>7 DEF PhaseIs
<1>7. ValuesAre(now)'
  <2>1. (LastSum.time)' = now
    BY <1>5
  <2>2. Basic!ValuesBetween(LastSum.time, now)' = Basic!ValuesBetween(now, now)
    BY <1>3, <2>1 DEF Basic!ValuesBetween, Basic!Between
  <2>3. Basic!ValuesBetween(now, now) = 0
    BY NothingYet
  <2>4. acc'["first"].value = Basic!ValuesBetween(LastSum.time, now)'
    BY <1>3, <2>2, <2>3
  <2>5. (Basic!Resets)' = Basic!Resets
    BY <1>3, SameGenerators
  <2>6. ASSUME NEW k \in Basic!Resets, k < now \/ k = now
        PROVE  \E i \in 1 .. n + 1 : sums'["first"][i].time = k
    <3>1. CASE k = now
      <4>1. n + 1 \in 1 .. n + 1
        BY <1>1
      <4>2. QED
        BY <1>2, <3>1, <4>1
    <3>2. CASE k < now
      <4>1. PICK i \in 1 .. n : sums["first"][i].time = k
        BY <1>1, <3>2 DEF ValuesAre
      <4>2. i \in 1 .. n + 1 /\ sums'["first"][i].time = k
        BY <1>1, <1>2, <4>1
      <4>3. QED
        BY <4>2
    <3>3. QED
      BY <2>6, <3>1, <3>2
  <2>7. (LastSum').time <= now
    BY <1>5
  <2>8. acc'["second"].value = (LastSum').value
    BY <1>3, <1>5
  <2>9. \A k \in (Basic!Resets)' : k < now \/ (k = now /\ ~acc'["first"].on_reset) =>
          \E i \in 1 .. Len(sums'["first"]) : sums'["first"][i].time = k
    BY <1>2, <2>5, <2>6
  <2>10. QED
    BY <2>4, <2>7, <2>8, <2>9 DEF ValuesAre
<1>8. QED
  BY <1>2, <1>4, <1>6, <1>7

LEMMA BasicRoundKeeps ==
  ASSUME BasicInv, Basic!Round
  PROVE  BasicInv'
<1>1. BasicTypes /\ SumsAre
  BY DEF BasicInv
<1>2. PICK now \in Nat : ClockIs(now) /\ PhaseIs(now) /\ ValuesAre(now)
  BY DEF BasicInv
<1>3. PICK t \in Nat : RoundIs(t)
  BY <1>1, RoundAt
<1>4. AllReset(now, t) \/ Filtered(now, t) \/ Generated(now, t)
  BY <1>1, <1>2, <1>3, WhoIsDue
<1>5. CASE AllReset(now, t)
  <2>1. t = now
    BY <1>5 DEF AllReset
  <2>2. ResetEffect(now) /\ acc' \in [Basic!Accumulator -> [value : Nat, on_reset : BOOLEAN]]
    BY <1>1, <1>2, <1>3, <1>5, <2>1, AllResetDoes
  <2>3. BasicTypes'
    BY <1>1, <1>3, <2>2, BasicTypesStay DEF ResetEffect
  <2>4. SumsAre' /\ ClockIs(now)' /\ PhaseIs(now)' /\ ValuesAre(now)'
    BY <1>1, <1>2, <1>5, <2>1, <2>2, ResetKeeps
  <2>5. QED
    BY <2>3, <2>4 DEF BasicInv
<1>6. CASE Filtered(now, t)
  <2>1. t = now
    BY <1>6 DEF Filtered
  <2>2. FilterEffect(now) /\ acc' \in [Basic!Accumulator -> [value : Nat, on_reset : BOOLEAN]]
    BY <1>1, <1>2, <1>3, <1>6, <2>1, FilteredDoes
  <2>3. BasicTypes'
    BY <1>1, <1>3, <2>2, BasicTypesStay DEF FilterEffect
  <2>4. SumsAre' /\ ClockIs(now)' /\ PhaseIs(now)' /\ ValuesAre(now)'
    BY <1>1, <1>2, <1>6, <2>1, <2>2, FilterKeeps
  <2>5. QED
    BY <2>3, <2>4 DEF BasicInv
<1>7. CASE Generated(now, t)
  <2>1. GeneratedEffect(t) /\ acc' \in [Basic!Accumulator -> [value : Nat, on_reset : BOOLEAN]]
    BY <1>1, <1>2, <1>3, <1>7, GeneratedDoes
  <2>2. BasicTypes'
    BY <1>1, <1>3, <2>1, BasicTypesStay DEF GeneratedEffect
  <2>3. SumsAre'
    BY <1>1, <2>1, SumsStay DEF GeneratedEffect, HistoriesStay
  <2>4. ClockIs(t)'
    BY <1>1, <1>2, <1>3, <1>7, <2>1, ClockGoesOn
  <2>5. PhaseIs(t)'
    BY <1>1, <1>2, <1>3, <1>7, <2>1, PhaseGoesOn
  <2>6. ValuesAre(t)'
    BY <1>1, <1>2, <1>3, <1>7, <2>1, ValuesGenerated
  <2>7. QED
    BY <2>2, <2>3, <2>4, <2>5, <2>6 DEF BasicInv
<1>8. QED
  BY <1>4, <1>5, <1>6, <1>7

LEMMA BasicStart ==
  ASSUME Basic!Init
  PROVE  BasicInv
<1>1. gen \in [Basic!Generator -> [period : 1 .. Infinity - 1, output : Nat]]
  <2>1. /\ Basic!IntGeneratorOneSec \in [period : 1 .. Infinity - 1, output : Nat]
        /\ Basic!ResetGeneratorFiveSec \in [period : 1 .. Infinity - 1, output : Nat]
        /\ Basic!Overriding(Value) \subseteq [period : 1 .. Infinity - 1, output : Nat]
        /\ Basic!Overriding({0}) \subseteq [period : 1 .. Infinity - 1, output : Nat]
    <3>1. 1 \in 1 .. Infinity - 1 /\ 5 \in 1 .. Infinity - 1
      BY BasicConstants
    <3>2. /\ Basic!IntGeneratorOneSec \in [period : 1 .. Infinity - 1, output : Nat]
          /\ Basic!ResetGeneratorFiveSec \in [period : 1 .. Infinity - 1, output : Nat]
      BY <3>1 DEF Basic!IntGeneratorOneSec, Basic!ResetGeneratorFiveSec
    <3>3. \A values \in SUBSET Nat : Basic!Overriding(values) \subseteq [period : 1 .. Infinity - 1, output : Nat]
      BY BasicConstants DEF Basic!Overriding
    <3>4. Value \in SUBSET Nat /\ {0} \in SUBSET Nat
      BY BasicConstants
    <3>5. QED
      BY <3>2, <3>3, <3>4
  <2>2. PICK x \in [Adders -> {Basic!IntGeneratorOneSec} \cup Basic!Overriding(Value)],
             y \in [Resetters -> {Basic!ResetGeneratorFiveSec} \cup Basic!Overriding({0})] :
          gen = [g \in Basic!Generator |-> IF g \in Adders THEN x[g] ELSE y[g]]
    BY DEF Basic!Init
  <2>3. \A g \in Adders : x[g] \in [period : 1 .. Infinity - 1, output : Nat]
    BY <2>1, <2>2
  <2>4. \A g \in Resetters : y[g] \in [period : 1 .. Infinity - 1, output : Nat]
    BY <2>1, <2>2
  <2>5. \A g \in Basic!Generator : g \in Adders \/ g \in Resetters
    BY DEF Basic!Generator
  <2>6. QED
    BY <2>2, <2>3, <2>4, <2>5
<1>2. /\ last = [m \in Basic!Model |-> 0]
      /\ acc = [a \in Basic!Accumulator |-> [value |-> 0, on_reset |-> FALSE]]
      /\ filter = 0 /\ thrown = FALSE
      /\ sums = [a \in Basic!Accumulator |-> <<>>]
      /\ passed = <<>>
  BY DEF Basic!Init
<1>3. BasicTypes
  BY <1>1, <1>2 DEF BasicTypes
<1>4. Len(sums["first"]) = 0 /\ Len(sums["second"]) = 0 /\ Len(passed) = 0
  BY <1>2, BasicConstants
<1>5. SumsAre
  <2>1. 1 .. 0 = {}
    OBVIOUS
  <2>2. QED
    BY <1>4, <2>1 DEF SumsAre
<1>6. LastSum = [time |-> 0, value |-> 0]
  BY <1>4 DEF LastSum
<1>7. ClockIs(0)
  <2>1. ASSUME NEW g \in Basic!Generator
        PROVE  (0 \div gen[g].period) * gen[g].period = 0
    <3> DEFINE p == gen[g].period
    <3>1. p \in Nat \ {0}
      BY <1>1, BasicConstants
    <3> HIDE DEF p
    <3>2. (0 \div p) * p \in Nat /\ (0 \div p) * p <= 0
      BY <3>1, DivBounds
    <3>3. QED
      BY <3>2 DEF p
  <2>2. \A g \in Basic!Generator : last[g] = 0
    BY <1>2 DEF Basic!Model
  <2>3. \A m \in Basic!Model : last[m] = 0
    BY <1>2
  <2>4. QED
    BY <2>1, <2>2, <2>3, BasicConstants DEF ClockIs
<1>8. PhaseIs(0)
  <2>1. acc["first"].on_reset = FALSE /\ acc["second"].on_reset = FALSE
    BY <1>2, BasicConstants
  <2>2. filter = 0 /\ passed = <<>>
    BY <1>2
  <2>3. filter = Len(sums["first"]) + Len(passed) /\ Len(passed) = IF filter > 1 THEN 1 ELSE 0
    BY <1>4, <2>2
  <2>4. acc["first"].on_reset = acc["second"].on_reset /\ ~acc["first"].on_reset /\ filter # 1
    <3>1. acc["first"].on_reset = acc["second"].on_reset /\ ~acc["first"].on_reset
      BY <2>1
    <3>2. filter # 1
      BY <2>2
    <3>3. QED
      BY <3>1, <3>2
  <2>5. ~(passed # <<>>)
    BY <2>2
  <2>6. QED
    BY <2>3, <2>4, <2>5 DEF PhaseIs
<1>9. ValuesAre(0)
  <2>1. Basic!ValuesBetween(0, 0) = 0
    BY <1>3, NothingYet
  <2>2. acc["first"].value = 0 /\ acc["second"].value = 0
    BY <1>2, BasicConstants
  <2>3. \A k \in Basic!Resets : ~(k < 0) /\ k # 0
    BY DEF Basic!Resets
  <2>4. QED
    BY <1>6, <2>1, <2>2, <2>3 DEF ValuesAre
<1>10. QED
  BY <1>3, <1>5, <1>7, <1>8, <1>9 DEF BasicInv

LEMMA BasicStays ==
  ASSUME BasicInv, UNCHANGED b_vars
  PROVE  BasicInv'
<1>1. /\ gen' = gen /\ last' = last /\ acc' = acc /\ filter' = filter /\ thrown' = thrown
      /\ sums' = sums /\ passed' = passed
  BY DEF b_vars
<1>2. BasicTypes /\ SumsAre
  BY DEF BasicInv
<1>3. PICK now \in Nat : ClockIs(now) /\ PhaseIs(now) /\ ValuesAre(now)
  BY DEF BasicInv
<1>4. BasicTypes'
  BY <1>1, <1>2 DEF BasicTypes, Basic!Model, Basic!Generator, Basic!Accumulator
<1>5. SumsAre' /\ LastSum' = LastSum
  BY <1>1, <1>2, SumsStay
<1>6. ClockIs(now)'
  BY <1>1, <1>2, <1>3, ClockStays
<1>7. (Basic!Resets)' = Basic!Resets
  BY <1>1, SameGenerators
<1>8. PhaseIs(now)'
  BY <1>1, <1>3, <1>5, <1>7 DEF PhaseIs
<1>9. ValuesAre(now)'
  <2> DEFINE lt == LastSum.time
  <2>1. (LastSum.time)' = lt
    BY <1>5
  <2>2. Basic!ValuesBetween(LastSum.time, now)' = Basic!ValuesBetween(lt, now)
    <3> HIDE DEF lt
    <3>1. QED
      BY <1>1, <2>1 DEF Basic!ValuesBetween, Basic!Between
  <2>3. QED
    BY <1>1, <1>3, <1>5, <1>7, <2>2 DEF ValuesAre
<1>10. QED
  BY <1>4, <1>5, <1>6, <1>8, <1>9 DEF BasicInv

LEMMA SumsOK ==
  ASSUME BasicInv
  PROVE  Basic!SumsAreExact /\ Basic!NothingThrown /\ Basic!FirstPasses
<1>1. BasicTypes /\ SumsAre
  BY DEF BasicInv
<1>2. PICK now \in Nat : ClockIs(now) /\ PhaseIs(now) /\ ValuesAre(now)
  BY DEF BasicInv
<1>3. PICK n \in Nat : n = Len(sums["first"])
  BY <1>1, SumsTyped
<1> DEFINE f == sums["first"]
           h == sums["second"]
<1>4. f \in Seq(Sums) /\ h \in Seq(Sums)
  BY <1>1, BasicConstants DEF BasicTypes
<1>5. DOMAIN f = 1 .. n /\ DOMAIN h = 1 .. n
  <2>1. Len(h) = n
    BY <1>1, <1>3 DEF SumsAre
  <2>2. QED
    BY <1>3, <1>4, <2>1, LenProperties
<1>6. Basic!Max(Basic!Range(last)) = now
  <2> DEFINE S == Basic!Range(last)
  <2>1. now \in S /\ \A x \in S : x \in Nat /\ x <= now
    BY <1>1, <1>2 DEF BasicTypes, ClockIs, Basic!Range
  <2> HIDE DEF S
  <2>2. \E x \in S : \A y \in S : x >= y
    BY <2>1
  <2>3. Basic!Max(S) \in S /\ \A y \in S : Basic!Max(S) >= y
    BY <2>2 DEF Basic!Max
  <2>4. Basic!Max(S) \in Nat /\ now \in Nat /\ Basic!Max(S) <= now /\ Basic!Max(S) >= now
    BY <2>1, <2>3
  <2>5. Basic!Max(S) = now
    <3> DEFINE x == Basic!Max(S)
    <3>1. x \in Nat /\ now \in Nat /\ x <= now /\ x >= now
      BY <2>4
    <3> HIDE DEF x
    <3>2. x = now
      BY <3>1
    <3>3. QED
      BY <3>2 DEF x
  <2>6. QED
    BY <2>5 DEF S
<1>7. ASSUME NEW i \in 1 .. n
      PROVE  /\ f[i].time \in Basic!Resets
             /\ (IF i = 1 THEN 0 ELSE f[i - 1].time) < f[i].time
             /\ f[i].value = Basic!ValuesBetween(IF i = 1 THEN 0 ELSE f[i - 1].time, f[i].time)
             /\ h[i] = [time |-> f[i].time, value |-> IF i = 1 THEN 0 ELSE f[i - 1].value]
  <2>1. SumIs(i)
    BY <1>1, <1>3 DEF SumsAre
  <2>2. SumBefore(i).time = (IF i = 1 THEN 0 ELSE f[i - 1].time)
        /\ SumBefore(i).value = (IF i = 1 THEN 0 ELSE f[i - 1].value)
    BY DEF SumBefore
  <2>3. QED
    BY <2>1, <2>2 DEF SumIs
<1>8. \A k \in Basic!Resets : k < now => \E i \in 1 .. n : f[i].time = k
  BY <1>2, <1>3 DEF ValuesAre
<1>9. h = [i \in 1 .. n |-> [time |-> f[i].time, value |-> IF i = 1 THEN 0 ELSE f[i - 1].value]]
  <2>1. h = [i \in 1 .. n |-> h[i]]
    BY <1>4, <1>5, LenProperties
  <2> HIDE DEF f, h
  <2>2. QED
    BY <1>7, <2>1
<1>10. Basic!SumsAreExact
  BY <1>5, <1>6, <1>7, <1>8, <1>9 DEF Basic!SumsAreExact
<1>11. Basic!NothingThrown
  BY <1>1 DEF BasicTypes, Basic!NothingThrown
<1>12. Basic!FirstPasses
  <2>1. /\ filter = n + Len(passed) /\ Len(passed) = IF filter > 1 THEN 1 ELSE 0
        /\ passed # <<>> => passed[1] = sums["first"][1].time
    BY <1>2, <1>3 DEF PhaseIs
  <2>2. passed \in Seq(Nat)
    BY <1>1 DEF BasicTypes
  <2>3. Len(passed) = 0 <=> passed = <<>>
    BY <2>2, EmptySeq
  <2>4. Len(passed) <= 1
    BY <2>1
  <2>5. passed # <<>> => n >= 1
    BY <2>1, <2>3
  <2>6. n >= 2 => passed # <<>>
    BY <2>1, <2>3
  <2>7. n >= 1 => sums["first"] # <<>>
    BY <1>3
  <2>8. QED
    BY <1>3, <2>1, <2>4, <2>5, <2>6, <2>7 DEF Basic!FirstPasses
<1>13. QED
  BY <1>10, <1>11, <1>12

(* In the static engine, which joins what several links bring to one port:    *)
(* every sum is exactly that of the values of all generators since the last   *)
(* one, there is one for each reset, nothing throws, and the filter passes    *)
(* the first sum only: Models!SumsAreExact.                                   *)
THEOREM SumsAreExactAlways == ModelsSpec => []SumsAreExact
<1> DEFINE Inv == part = "basic" => BasicInv
<1>1. ModelsInit => Inv
  BY BasicStart DEF ModelsInit
<1>2. Inv /\ [ModelsNext]_<<part, vars, g_vars, b_vars, s_vars, c_vars>> => Inv'
  BY BasicRoundKeeps, BasicStays DEF ModelsNext, Basic!Next
<1>3. Inv => SumsAreExact
  BY SumsOK DEF SumsAreExact
<1>4. QED
  BY <1>1, <1>2, <1>3, PTL DEF ModelsSpec

-----------------------------------------------------------------------------
(***************************************************************************)
(* Lattices.  First the way along one dimension of n cells.                *)
(***************************************************************************)
Along(diff, n, w) ==
  IF w /\ Grid!Abs(diff) > n \div 2 THEN IF diff < 0 THEN diff + n ELSE diff - n ELSE diff

LEMMA Half ==
  ASSUME NEW n \in Nat \ {0}
  PROVE  n \div 2 \in Nat /\ 2 * (n \div 2) <= n /\ n <= 2 * (n \div 2) + 1
OBVIOUS

LEMMA AbsIs ==
  ASSUME NEW d \in Int
  PROVE  Grid!Abs(d) \in Nat /\ (Grid!Abs(d) = d \/ Grid!Abs(d) = -d) /\ Grid!Abs(-d) = Grid!Abs(d)
BY DEF Grid!Abs

LEMMA AlongBack ==
  ASSUME NEW n \in Nat \ {0}, NEW w \in BOOLEAN, NEW d \in Int
  PROVE  Along(d, n, w) \in Int /\ Along(-d, n, w) = -Along(d, n, w)
<1> DEFINE h == n \div 2
<1>1. h \in Nat
  BY Half
<1> HIDE DEF h
<1>2. QED
  BY <1>1 DEF Along, Grid!Abs, h

(* The way along is the shorter one.                                          *)
LEMMA AlongShort ==
  ASSUME NEW n \in Nat \ {0}, NEW w \in BOOLEAN, NEW d \in (1 - n) .. (n - 1)
  PROVE  /\ Along(d, n, w) \in Int /\ Grid!Abs(Along(d, n, w)) <= Grid!Abs(d)
         /\ Along(d, n, TRUE) <= n \div 2 /\ -Along(d, n, TRUE) <= n \div 2
         /\ d < 0 => Grid!Abs(Along(d, n, TRUE)) <= Grid!Abs(d + n)
         /\ d > 0 => Grid!Abs(Along(d, n, TRUE)) <= Grid!Abs(d - n)
<1> DEFINE h == n \div 2
<1>1. h \in Nat /\ 2 * h <= n /\ n <= 2 * h + 1
  BY Half
<1> HIDE DEF h
<1>2. QED
  BY <1>1 DEF Along, Grid!Abs, h

LEMMA AlongTriangle ==
  ASSUME NEW n \in Nat \ {0}, NEW w \in BOOLEAN,
         NEW a \in 0 .. n - 1, NEW b \in 0 .. n - 1, NEW c \in 0 .. n - 1
  PROVE  Grid!Abs(Along(c - a, n, w)) <= Grid!Abs(Along(b - a, n, w)) + Grid!Abs(Along(c - b, n, w))
<1> DEFINE h == n \div 2
<1>1. h \in Nat /\ 2 * h <= n /\ n <= 2 * h + 1
  BY Half
<1> HIDE DEF h
<1>2. CASE w
  BY <1>1, <1>2 DEF Along, Grid!Abs, h
<1>3. CASE ~w
  BY <1>3 DEF Along, Grid!Abs
<1>4. QED
  BY <1>2, <1>3

(* Where one arrives after going v from a.                                    *)
Arrive(a, v, n, w) == IF w THEN (a + v + n) % n ELSE a + v

LEMMA Remainder ==
  ASSUME NEW n \in Nat \ {0}, NEW x \in 0 .. 3 * n - 1
  PROVE  x % n \in 0 .. n - 1 /\ (x % n = x \/ x % n = x - n \/ x % n = x - 2 * n)
<1> DEFINE q == x \div n
           r == x % n
<1>1. r \in 0 .. n - 1 /\ q \in Int /\ x = n * q + r
  OBVIOUS
<1> HIDE DEF q, r
<1>2. q >= 0
  <2>1. SUFFICES ASSUME q <= -1 PROVE FALSE
    BY <1>1
  <2>2. n * q <= n * (-1)
    BY <1>1, <2>1
  <2>3. QED
    BY <1>1, <2>2
<1>3. q <= 2
  <2>1. SUFFICES ASSUME q >= 3 PROVE FALSE
    BY <1>1
  <2>2. n * q >= n * 3
    BY <1>1, <2>1
  <2>3. QED
    BY <1>1, <2>2
<1>4. q = 0 \/ q = 1 \/ q = 2
  BY <1>1, <1>2, <1>3
<1>5. QED
  BY <1>1, <1>4 DEF r

LEMMA ArriveIs ==
  ASSUME NEW n \in Nat \ {0}, NEW w \in BOOLEAN, NEW a \in 0 .. n - 1, NEW v \in (1 - n) .. (n - 1)
  PROVE  /\ Arrive(a, v, n, w) \in Int
         /\ w => Arrive(a, v, n, w) \in 0 .. n - 1
         /\ \/ Arrive(a, v, n, w) = a + v
            \/ w /\ v < 0 /\ Arrive(a, v, n, w) = a + v + n
            \/ w /\ v > 0 /\ Arrive(a, v, n, w) = a + v - n
<1>1. CASE ~w
  BY <1>1 DEF Arrive
<1>2. CASE w
  <2> DEFINE x == a + v + n
  <2>1. x \in 0 .. 3 * n - 1
    OBVIOUS
  <2> HIDE DEF x
  <2>2. x % n \in 0 .. n - 1 /\ (x % n = x \/ x % n = x - n \/ x % n = x - 2 * n)
    BY <2>1, Remainder
  <2> DEFINE y == x % n
  <2>3. Arrive(a, v, n, w) = y
    BY <1>2 DEF Arrive, x
  <2>4. y \in 0 .. n - 1 /\ (y = x \/ y = x - n \/ y = x - 2 * n)
    BY <2>2
  <2> HIDE DEF y
  <2>5. y = a + v \/ (v < 0 /\ y = a + v + n) \/ (v > 0 /\ y = a + v - n)
    BY <2>4 DEF x
  <2>6. y \in Int
    BY <2>4
  <2>7. QED
    BY ONLY <1>2, <2>3, <2>4, <2>5, <2>6, w \in BOOLEAN
<1>3. QED
  BY <1>1, <1>2

(* One arrives where the way along leads, going no further than one must.     *)
LEMMA AlongArrives ==
  ASSUME NEW n \in Nat \ {0}, NEW w \in BOOLEAN, NEW a \in 0 .. n - 1, NEW b \in 0 .. n - 1
  PROVE  /\ Along(b - a, n, w) \in (1 - n) .. (n - 1)
         /\ Arrive(a, Along(b - a, n, w), n, w) = b
<1> DEFINE h == n \div 2
           v == Along(b - a, n, w)
<1>1. h \in Nat /\ 2 * h <= n /\ n <= 2 * h + 1
  BY Half
<1> HIDE DEF h
<1>2. v \in (1 - n) .. (n - 1) /\ (v = b - a \/ (w /\ v = b - a + n) \/ (w /\ v = b - a - n))
  BY <1>1 DEF Along, Grid!Abs, h
<1> HIDE DEF v
<1>3. \/ Arrive(a, v, n, w) = a + v
      \/ w /\ v < 0 /\ Arrive(a, v, n, w) = a + v + n
      \/ w /\ v > 0 /\ Arrive(a, v, n, w) = a + v - n
  BY <1>2, ArriveIs
<1>4. w => Arrive(a, v, n, w) \in 0 .. n - 1
  BY <1>2, ArriveIs
<1> DEFINE y == Arrive(a, v, n, w)
<1>5. /\ y = a + v \/ (w /\ v < 0 /\ y = a + v + n) \/ (w /\ v > 0 /\ y = a + v - n)
      /\ w => y \in 0 .. n - 1
  BY <1>3, <1>4
<1> HIDE DEF y
<1>6. y = b
  BY <1>2, <1>5
<1>7. QED
  BY <1>2, <1>6 DEF v, y

LEMMA ArriveAlong ==
  ASSUME NEW n \in Nat \ {0}, NEW w \in BOOLEAN, NEW a \in 0 .. n - 1,
         NEW v \in (1 - n) .. (n - 1), NEW b \in 0 .. n - 1, b = Arrive(a, v, n, w)
  PROVE  /\ Grid!Abs(Along(b - a, n, w)) <= Grid!Abs(v)
         /\ 2 * Grid!Abs(v) < n => Along(b - a, n, w) = v
<1> DEFINE h == n \div 2
<1>1. h \in Nat /\ 2 * h <= n /\ n <= 2 * h + 1
  BY Half
<1>2. b = a + v \/ (w /\ v < 0 /\ b = a + v + n) \/ (w /\ v > 0 /\ b = a + v - n)
  BY ArriveIs
<1> HIDE DEF h
<1>3. QED
  BY <1>1, <1>2 DEF Along, Grid!Abs, h

-----------------------------------------------------------------------------
LEMMA ValuesFinite ==
  ASSUME NEW D, IsFiniteSet(D), NEW f
  PROVE  IsFiniteSet({f[i] : i \in D})
<1> DEFINE T == {f[i] : i \in D}
           g == [i \in D |-> f[i]]
<1>1. g \in Surjection(D, T)
  BY DEF Surjection
<1> HIDE DEF T, g
<1>2. IsFiniteSet(T)
  BY <1>1, FS_Surjection
<1>3. QED
  BY <1>2 DEF T

(* The greatest and the least of a set.                                       *)
LEMMA GreatestOf ==
  ASSUME NEW S, IsFiniteSet(S), S # {}, S \subseteq Int
  PROVE  Grid!Max(S) \in S /\ \A y \in S : y <= Grid!Max(S)
<1> DEFINE B == {r \in SUBSET S : r = {} \/ \E x \in r : \A y \in r : y <= x}
<1>1. {} \in B
  OBVIOUS
<1>2. ASSUME NEW r \in SUBSET S, NEW z \in S \ r, r \in B
      PROVE  r \cup {z} \in B
  <2>1. CASE r = {}
    <3>1. \A y \in {z} : y <= z
      OBVIOUS
    <3>2. QED
      BY <2>1, <3>1
  <2>2. CASE r # {}
    <3>1. PICK x \in r : \A y \in r : y <= x
      BY <1>2, <2>2
    <3>2. x \in Int /\ z \in Int /\ \A y \in r : y \in Int
      OBVIOUS
    <3>3. CASE z <= x
      BY <3>1, <3>2, <3>3
    <3>4. CASE ~(z <= x)
      <4>1. \A y \in r \cup {z} : y <= z
        BY <3>1, <3>2, <3>4
      <4>2. QED
        BY <4>1
    <3>5. QED
      BY <3>3, <3>4
  <2>3. QED
    BY <2>1, <2>2
<1>3. S \in B
  <2> HIDE DEF B
  <2>1. QED
    BY <1>1, <1>2, SetInduction
<1>4. \E x \in S : \A y \in S : x >= y
  BY <1>3
<1>5. QED
  BY <1>4 DEF Grid!Max

LEMMA LeastOf ==
  ASSUME NEW S \in SUBSET Nat, S # {}
  PROVE  Grid!Min(S) \in S /\ \A y \in S : Grid!Min(S) <= y
<1>1. \E x \in S : \A y \in S : x <= y
  BY LeastNat
<1>2. QED
  BY <1>1 DEF Grid!Min

-----------------------------------------------------------------------------
(* The cells of a shape.                                                      *)
Shaped(sh) == sh \in Seq(Nat \ {0}) \ {<<>>}

CellsOf(sh) == {c \in [DOMAIN sh -> Int] : Grid!CellInScenario(c, sh)}

LEMMA ShapeIs ==
  ASSUME NEW sh, Shaped(sh)
  PROVE  /\ Len(sh) \in Nat \ {0} /\ DOMAIN sh = 1 .. Len(sh) /\ IsFiniteSet(DOMAIN sh)
         /\ DOMAIN sh # {} /\ DOMAIN sh \in SUBSET Nat
         /\ \A i \in DOMAIN sh : sh[i] \in Nat \ {0} /\ i \in Nat
<1>1. sh \in Seq(Nat \ {0}) /\ sh # <<>>
  BY DEF Shaped
<1>2. Len(sh) \in Nat \ {0} /\ DOMAIN sh = 1 .. Len(sh) /\ \A i \in DOMAIN sh : sh[i] \in Nat \ {0}
  BY <1>1, EmptySeq
<1>3. IsFiniteSet(DOMAIN sh)
  BY <1>2, FS_Interval
<1>4. QED
  BY <1>2, <1>3

LEMMA CellIs ==
  ASSUME NEW sh, Shaped(sh), NEW c \in CellsOf(sh)
  PROVE  /\ DOMAIN c = DOMAIN sh /\ c \in [DOMAIN sh -> Nat] /\ c # Grid!Overflow
         /\ \A i \in DOMAIN sh : c[i] \in Nat /\ c[i] \in 0 .. sh[i] - 1
<1>1. DOMAIN c = DOMAIN sh /\ c \in [DOMAIN sh -> Int]
  BY DEF CellsOf
<1>2. \A i \in DOMAIN sh : c[i] \in Nat /\ c[i] \in 0 .. sh[i] - 1
  BY <1>1, ShapeIs DEF CellsOf, Grid!CellInScenario
<1>3. c # Grid!Overflow
  BY <1>1, ShapeIs DEF Grid!Overflow
<1>4. QED
  BY <1>1, <1>2, <1>3

LEMMA IsCell ==
  ASSUME NEW sh, Shaped(sh), NEW c, DOMAIN c = DOMAIN sh, c \in [DOMAIN sh -> Int],
         \A i \in DOMAIN sh : c[i] \in 0 .. sh[i] - 1
  PROVE  c \in CellsOf(sh)
BY ShapeIs DEF CellsOf, Grid!CellInScenario

LEMMA PositionsAre ==
  ASSUME Shaped(file.shape)
  PROVE  Grid!Positions = CellsOf(file.shape)
<1> DEFINE sh == file.shape
           R  == Grid!Range(sh)
           M  == Grid!Max(R)
<1>1. R = {sh[i] : i \in DOMAIN sh}
  BY DEF Grid!Range
<1>2. IsFiniteSet(R) /\ R # {} /\ R \subseteq Int
  <2>1. IsFiniteSet(DOMAIN sh) /\ DOMAIN sh # {} /\ \A i \in DOMAIN sh : sh[i] \in Int
    BY ShapeIs
  <2> HIDE DEF sh, R
  <2>2. IsFiniteSet({sh[i] : i \in DOMAIN sh})
    BY <2>1, ValuesFinite
  <2>3. QED
    BY <1>1, <2>1, <2>2
<1>3. M \in R /\ \A y \in R : y <= M
  BY <1>2, GreatestOf
<1>4. M \in Int /\ \A i \in DOMAIN sh : sh[i] <= M /\ sh[i] \in Nat
  BY <1>1, <1>2, <1>3, ShapeIs
<1>5. Grid!Positions = {c \in [DOMAIN sh -> 0 .. M - 1] : Grid!CellInScenario(c, sh)}
  BY DEF Grid!Positions, Grid!shape
<1> HIDE DEF M, R, sh
<1>6. ASSUME NEW c \in CellsOf(sh)
      PROVE  c \in [DOMAIN sh -> 0 .. M - 1]
  <2>1. c \in [DOMAIN sh -> Nat] /\ \A i \in DOMAIN sh : c[i] \in 0 .. sh[i] - 1
    BY CellIs DEF sh
  <2>2. \A i \in DOMAIN sh : c[i] \in 0 .. M - 1
    BY <1>4, <2>1
  <2>3. QED
    BY <2>1, <2>2
<1>7. \A c : c \in [DOMAIN sh -> 0 .. M - 1] => c \in [DOMAIN sh -> Int]
  BY <1>4
<1>8. QED
  BY <1>5, <1>6, <1>7 DEF CellsOf, sh

(* The order in which they are gone through: by the last index that differs.  *)
Before(c, d) == \E i \in DOMAIN c : c[i] < d[i] /\ \A j \in DOMAIN c : j > i => c[j] = d[j]

LEMMA BeforeTotal ==
  ASSUME NEW sh, Shaped(sh), NEW c \in CellsOf(sh), NEW d \in CellsOf(sh)
  PROVE  c = d \/ Before(c, d) \/ Before(d, c)
<1> DEFINE D == {i \in DOMAIN sh : c[i] # d[i]}
<1>1. /\ DOMAIN c = DOMAIN sh /\ DOMAIN d = DOMAIN sh /\ c \in [DOMAIN sh -> Nat] /\ d \in [DOMAIN sh -> Nat]
      /\ IsFiniteSet(DOMAIN sh) /\ DOMAIN sh \in SUBSET Nat
  BY CellIs, ShapeIs
<1>2. CASE D = {}
  BY <1>1, <1>2
<1>3. CASE D # {}
  <2>1. IsFiniteSet(D) /\ D \subseteq Int
    BY <1>1, FS_Subset
  <2> DEFINE m == Grid!Max(D)
  <2>2. m \in D /\ \A y \in D : y <= m
    BY <1>3, <2>1, GreatestOf
  <2> HIDE DEF m
  <2>3. m \in DOMAIN sh /\ c[m] # d[m] /\ c[m] \in Nat /\ d[m] \in Nat
    BY <1>1, <2>2
  <2>4. \A j \in DOMAIN sh : j > m => c[j] = d[j] /\ d[j] = c[j]
    BY <1>1, <2>2
  <2>5. c[m] < d[m] \/ d[m] < c[m]
    BY <2>3
  <2>6. QED
    BY <1>1, <2>3, <2>4, <2>5 DEF Before
<1>4. QED
  BY <1>2, <1>3

LEMMA NotBeforeItself ==
  ASSUME NEW sh, Shaped(sh), NEW c \in CellsOf(sh)
  PROVE  ~Before(c, c)
<1>1. \A i \in DOMAIN c : c[i] \in Nat
  BY CellIs
<1>2. QED
  BY <1>1 DEF Before

(* next_cell: the cells before the next one are those before and this one.    *)
LEMMA NextIs ==
  ASSUME NEW sh, Shaped(sh), NEW c \in CellsOf(sh)
  PROVE  \/ /\ Grid!NextCell(c, sh) = Grid!Overflow
            /\ \A d \in CellsOf(sh) : d = c \/ Before(d, c)
         \/ /\ Grid!NextCell(c, sh) \in CellsOf(sh)
            /\ \A d \in CellsOf(sh) : Before(d, Grid!NextCell(c, sh)) <=> d = c \/ Before(d, c)
<1> DEFINE free == {i \in DOMAIN sh : c[i] < sh[i] - 1}
           m == Grid!Min(free)
           next == [i \in DOMAIN c |-> IF i < m THEN 0 ELSE IF i = m THEN c[i] + 1 ELSE c[i]]
<1>1. /\ DOMAIN c = DOMAIN sh /\ c \in [DOMAIN sh -> Nat] /\ DOMAIN sh \in SUBSET Nat
      /\ \A i \in DOMAIN sh : c[i] \in 0 .. sh[i] - 1 /\ sh[i] \in Nat \ {0} /\ c[i] \in Nat
  BY CellIs, ShapeIs
<1>2. ASSUME NEW d \in CellsOf(sh)
      PROVE  /\ DOMAIN d = DOMAIN sh /\ \A i \in DOMAIN sh : d[i] \in 0 .. sh[i] - 1 /\ d[i] \in Nat
             /\ d = c \/ Before(d, c) \/ Before(c, d)
  BY CellIs, BeforeTotal
<1>3. CASE free = {}
  <2>1. Grid!NextCell(c, sh) = Grid!Overflow
    BY <1>3 DEF Grid!NextCell
  <2>2. \A i \in DOMAIN sh : c[i] = sh[i] - 1
    BY <1>1, <1>3
  <2>3. ASSUME NEW d \in CellsOf(sh)
        PROVE  ~Before(c, d)
    <3>1. \A i \in DOMAIN c : ~(c[i] < d[i])
      BY <1>1, <1>2, <2>2
    <3>2. QED
      BY <3>1 DEF Before
  <2>4. QED
    BY <1>2, <2>1, <2>3
<1>4. CASE free # {}
  <2>1. m \in free /\ \A y \in free : m <= y
    BY <1>1, <1>4, LeastOf
  <2>2. Grid!NextCell(c, sh) = next
    BY <1>4 DEF Grid!NextCell
  <2> HIDE DEF m
  <2>3. m \in DOMAIN sh /\ c[m] < sh[m] - 1 /\ m \in Nat
    BY <1>1, <2>1
  <2>4. \A i \in DOMAIN sh : i < m => c[i] = sh[i] - 1
    BY <1>1, <2>1, <2>3
  <2>5. /\ DOMAIN next = DOMAIN sh /\ next[m] = c[m] + 1
        /\ \A i \in DOMAIN sh : (i < m => next[i] = 0) /\ (i > m => next[i] = c[i])
    BY <1>1, <2>3
  <2>6. \A i \in DOMAIN sh : next[i] \in 0 .. sh[i] - 1
    BY <1>1, <2>3
  <2>7. next \in [DOMAIN sh -> Int]
    BY <1>1, <2>3
  <2>8. next \in CellsOf(sh)
    <3> HIDE DEF next
    <3>1. QED
      BY <2>5, <2>6, <2>7, IsCell
  <2> HIDE DEF next, free
  <2>9. ASSUME NEW d \in CellsOf(sh), d = c \/ Before(d, c)
        PROVE  Before(d, next)
    <3>1. CASE d = c
      <4>1. c[m] < next[m] /\ \A j \in DOMAIN sh : j > m => c[j] = next[j]
        BY <1>1, <2>3, <2>5
      <4>2. QED
        BY <1>1, <2>3, <3>1, <4>1 DEF Before
    <3>2. CASE Before(d, c)
      <4>1. PICK i \in DOMAIN sh : d[i] < c[i] /\ \A j \in DOMAIN sh : j > i => d[j] = c[j]
        BY <1>2, <3>2 DEF Before
      <4>2. i \in Nat /\ \A j \in DOMAIN sh : j \in Nat
        BY <1>1
      <4>3. CASE i <= m
        <5>1. d[m] <= c[m]
          BY <1>1, <1>2, <2>3, <4>1, <4>2, <4>3
        <5>2. d[m] < next[m]
          BY <1>1, <1>2, <2>3, <2>5, <5>1
        <5>3. \A j \in DOMAIN sh : j > m => d[j] = next[j]
          BY <2>3, <2>5, <4>1, <4>2, <4>3
        <5>4. QED
          BY <1>2, <2>3, <5>2, <5>3 DEF Before
      <4>4. CASE i > m
        <5>1. d[i] < next[i] /\ \A j \in DOMAIN sh : j > i => d[j] = next[j]
          BY <2>3, <2>5, <4>1, <4>2, <4>4
        <5>2. QED
          BY <1>2, <5>1 DEF Before
      <4>5. QED
        BY <2>3, <4>2, <4>3, <4>4
    <3>3. QED
      BY <2>9, <3>1, <3>2
  <2>10. ASSUME NEW d \in CellsOf(sh), Before(d, next), Before(c, d)
         PROVE  FALSE
    <3>1. PICK i \in DOMAIN sh : d[i] < next[i] /\ \A j \in DOMAIN sh : j > i => d[j] = next[j]
      BY <1>2, <2>10 DEF Before
    <3>2. PICK k \in DOMAIN sh : c[k] < d[k] /\ \A j \in DOMAIN sh : j > k => c[j] = d[j]
      BY <1>1, <2>10 DEF Before
    <3>3. i \in Nat /\ k \in Nat /\ m \in Nat /\ d[i] \in Nat /\ d[k] \in Nat
      BY <1>1, <1>2, <2>3
    <3>4. i >= m
      BY <1>2, <2>5, <3>1, <3>3
    <3>5. k >= m
      <4>1. c[k] # sh[k] - 1
        BY <1>1, <1>2, <3>2, <3>3
      <4>2. QED
        BY <2>4, <3>3, <4>1
    <3>6. CASE k > m
      <4>1. d[k] # c[k]
        BY <1>1, <3>2, <3>3
      <4>2. k <= i
        BY <2>5, <3>1, <3>3, <3>6, <4>1
      <4>3. i > m /\ d[i] < c[i]
        BY <2>5, <3>1, <3>3, <3>6, <4>2
      <4>4. i # k /\ d[i] # c[i]
        BY <1>1, <3>2, <3>3, <4>3
      <4>5. QED
        BY <3>2, <3>3, <4>2, <4>4
    <3>7. CASE k = m
      <4>1. c[m] < d[m]
        BY <3>2, <3>7
      <4>2. i = m
        <5>1. CASE i > m
          <6>1. d[i] < c[i] /\ c[i] = d[i]
            BY <2>5, <3>1, <3>2, <3>7, <5>1
          <6>2. QED
            BY <1>1, <3>3, <6>1
        <5>2. QED
          BY <3>3, <3>4, <5>1
      <4>3. d[m] < c[m] + 1
        BY <2>5, <3>1, <4>2
      <4>4. d[m] \in Nat /\ c[m] \in Nat
        BY <1>1, <3>3, <3>7
      <4>5. QED
        BY <4>1, <4>3, <4>4
    <3>8. QED
      BY <3>3, <3>5, <3>6, <3>7
  <2>11. \A d \in CellsOf(sh) : Before(d, next) <=> d = c \/ Before(d, c)
    BY <1>2, <2>9, <2>10
  <2>12. QED
    BY <2>2, <2>8, <2>11
<1>5. QED
  BY <1>3, <1>4

-----------------------------------------------------------------------------
(* Distances.                                                                 *)
LEMMA VectorIs ==
  ASSUME NEW sh, Shaped(sh), NEW w \in BOOLEAN, NEW a \in CellsOf(sh), NEW b \in CellsOf(sh)
  PROVE  /\ DOMAIN Grid!DistanceVector(a, b, sh, w) = DOMAIN sh
         /\ Grid!DistanceVector(a, b, sh, w) = [i \in DOMAIN sh |-> Along(b[i] - a[i], sh[i], w)]
         /\ \A i \in DOMAIN sh :
              Grid!DistanceVector(a, b, sh, w)[i] \in (1 - sh[i]) .. (sh[i] - 1)
<1> DEFINE v == Grid!DistanceVector(a, b, sh, w)
<1>1. DOMAIN a = DOMAIN sh
  BY CellIs
<1>2. v = [i \in DOMAIN sh |-> Along(b[i] - a[i], sh[i], w)]
  BY <1>1 DEF Grid!DistanceVector, Along
<1>3. ASSUME NEW i \in DOMAIN sh
      PROVE  Along(b[i] - a[i], sh[i], w) \in (1 - sh[i]) .. (sh[i] - 1)
  <2>1. sh[i] \in Nat \ {0} /\ a[i] \in 0 .. sh[i] - 1 /\ b[i] \in 0 .. sh[i] - 1
    BY CellIs, ShapeIs
  <2>2. QED
    BY <2>1, AlongArrives
<1> HIDE DEF v
<1>4. QED
  BY <1>2, <1>3 DEF v

LEMMA DestinationIs ==
  ASSUME NEW sh, Shaped(sh), NEW w \in BOOLEAN, NEW a \in CellsOf(sh), NEW v,
         \A i \in DOMAIN sh : v[i] \in (1 - sh[i]) .. (sh[i] - 1)
  PROVE  LET d == Grid!DestinationCell(a, v, sh, w)
             x == [i \in DOMAIN sh |-> Arrive(a[i], v[i], sh[i], w)]
         IN  \/ d = Grid!Overflow /\ x \notin CellsOf(sh)
             \/ d = x /\ x \in CellsOf(sh)
<1> DEFINE x == [i \in DOMAIN sh |-> Arrive(a[i], v[i], sh[i], w)]
<1>1. DOMAIN a = DOMAIN sh
  BY CellIs
<1>2. Grid!DestinationCell(a, v, sh, w)
        = IF Grid!CellInScenario(x, sh) THEN x ELSE Grid!Overflow
  BY <1>1 DEF Grid!DestinationCell, Arrive
<1>3. \A i \in DOMAIN sh : Arrive(a[i], v[i], sh[i], w) \in Int
  <2>1. ASSUME NEW i \in DOMAIN sh
        PROVE  Arrive(a[i], v[i], sh[i], w) \in Int
    <3>1. sh[i] \in Nat \ {0} /\ a[i] \in 0 .. sh[i] - 1
      BY CellIs, ShapeIs
    <3>2. QED
      BY <3>1, ArriveIs
  <2>2. QED
    BY <2>1
<1>4. x \in [DOMAIN sh -> Int]
  BY <1>3
<1> HIDE DEF x
<1>5. x \in CellsOf(sh) <=> Grid!CellInScenario(x, sh)
  BY <1>4 DEF CellsOf
<1>6. QED
  BY <1>2, <1>5 DEF x

(* The cell at the distance vector of another one is that one.                *)
LEMMA DestinationBack ==
  ASSUME NEW sh, Shaped(sh), NEW w \in BOOLEAN, NEW a \in CellsOf(sh), NEW b \in CellsOf(sh)
  PROVE  Grid!DestinationCell(a, Grid!DistanceVector(a, b, sh, w), sh, w) = b
<1> DEFINE v == Grid!DistanceVector(a, b, sh, w)
           x == [i \in DOMAIN sh |-> Arrive(a[i], v[i], sh[i], w)]
<1>1. v = [i \in DOMAIN sh |-> Along(b[i] - a[i], sh[i], w)]
  BY VectorIs
<1>2. \A i \in DOMAIN sh : v[i] \in (1 - sh[i]) .. (sh[i] - 1)
  BY VectorIs
<1> HIDE DEF v
<1>3. ASSUME NEW i \in DOMAIN sh
      PROVE  x[i] = b[i]
  <2>1. sh[i] \in Nat \ {0} /\ a[i] \in 0 .. sh[i] - 1 /\ b[i] \in 0 .. sh[i] - 1
    BY CellIs, ShapeIs
  <2>2. Arrive(a[i], Along(b[i] - a[i], sh[i], w), sh[i], w) = b[i]
    BY ZenonT(40), <2>1, AlongArrives
  <2>3. QED
    BY <1>1, <2>2
<1>4. DOMAIN b = DOMAIN sh /\ b \in [DOMAIN sh -> Nat]
  BY CellIs
<1>5. x = b
  BY <1>3, <1>4
<1>6. x \in CellsOf(sh)
  BY <1>5
<1>7. Grid!DestinationCell(a, v, sh, w) = x
  BY <1>2, <1>6, DestinationIs
<1>8. QED
  BY <1>5, <1>7 DEF v

(* How far two cells are from each other in each dimension.                   *)
Sizes(a, b, sh, w) == [i \in DOMAIN sh |-> Grid!Abs(Along(b[i] - a[i], sh[i], w))]

LEMMA SizesAre ==
  ASSUME NEW sh, Shaped(sh), NEW w \in BOOLEAN, NEW a \in CellsOf(sh), NEW b \in CellsOf(sh)
  PROVE  /\ \A i \in DOMAIN sh : Sizes(a, b, sh, w)[i] \in Nat
         /\ Sizes(b, a, sh, w) = Sizes(a, b, sh, w)
<1>1. ASSUME NEW i \in DOMAIN sh
      PROVE  /\ Grid!Abs(Along(b[i] - a[i], sh[i], w)) \in Nat
             /\ Grid!Abs(Along(a[i] - b[i], sh[i], w)) = Grid!Abs(Along(b[i] - a[i], sh[i], w))
  <2> DEFINE d == b[i] - a[i]
  <2>1. sh[i] \in Nat \ {0} /\ a[i] \in Nat /\ b[i] \in Nat
    BY CellIs, ShapeIs
  <2>2. d \in Int /\ a[i] - b[i] = -d
    BY <2>1
  <2> HIDE DEF d
  <2>3. Along(d, sh[i], w) \in Int /\ Along(-d, sh[i], w) = -Along(d, sh[i], w)
    BY <2>1, <2>2, AlongBack
  <2>4. QED
    BY <2>2, <2>3, AbsIs DEF d
<1>2. QED
  BY <1>1 DEF Sizes

LEMMA SizesTriangle ==
  ASSUME NEW sh, Shaped(sh), NEW w \in BOOLEAN,
         NEW a \in CellsOf(sh), NEW b \in CellsOf(sh), NEW c \in CellsOf(sh), NEW i \in DOMAIN sh
  PROVE  Sizes(a, c, sh, w)[i] <= Sizes(a, b, sh, w)[i] + Sizes(b, c, sh, w)[i]
<1>1. /\ sh[i] \in Nat \ {0} /\ a[i] \in 0 .. sh[i] - 1
      /\ b[i] \in 0 .. sh[i] - 1 /\ c[i] \in 0 .. sh[i] - 1
  BY CellIs, ShapeIs
<1>2. Grid!Abs(Along(c[i] - a[i], sh[i], w))
        <= Grid!Abs(Along(b[i] - a[i], sh[i], w)) + Grid!Abs(Along(c[i] - b[i], sh[i], w))
  BY <1>1, AlongTriangle
<1>3. QED
  BY <1>2 DEF Sizes

LEMMA GridSum ==
  ASSUME NEW f
  PROVE  Grid!SumFunction(f) = SumFunctionOnSet(f, DOMAIN f)
BY DEF Grid!SumFunction, Grid!SumFunctionOnSet, SumFunctionOnSet, Grid!FoldFunctionOnSet,
       FoldFunctionOnSet, Grid!MapThenFoldSet, MapThenFoldSet

LEMMA ManhattanIs ==
  ASSUME NEW sh, Shaped(sh), NEW w \in BOOLEAN, NEW a \in CellsOf(sh), NEW b \in CellsOf(sh)
  PROVE  /\ Grid!ManhattanDistance(a, b, sh, w) = SumFunctionOnSet(Sizes(a, b, sh, w), DOMAIN sh)
         /\ SumFunctionOnSet(Sizes(a, b, sh, w), DOMAIN sh) \in Nat
<1> DEFINE v == Grid!DistanceVector(a, b, sh, w)
           f == [i \in DOMAIN v |-> Grid!Abs(v[i])]
<1>1. f = Sizes(a, b, sh, w)
  BY VectorIs DEF Sizes
<1>2. DOMAIN f = DOMAIN sh
  BY VectorIs
<1>3. Grid!ManhattanDistance(a, b, sh, w) = Grid!SumFunction(f)
  BY DEF Grid!ManhattanDistance
<1> HIDE DEF f
<1>4. Grid!SumFunction(f) = SumFunctionOnSet(f, DOMAIN f)
  BY GridSum
<1>5. IsFiniteSet(DOMAIN sh) /\ \A i \in DOMAIN sh : Sizes(a, b, sh, w)[i] \in Nat
  BY ShapeIs, SizesAre
<1>6. SumFunctionOnSet(Sizes(a, b, sh, w), DOMAIN sh) \in Nat
  BY <1>5, SumNat
<1>7. QED
  BY <1>1, <1>2, <1>3, <1>4, <1>6

LEMMA GreatestIs ==
  ASSUME NEW D, IsFiniteSet(D), NEW f, \A i \in D : f[i] \in Nat
  PROVE  LET k == Grid!Max({0} \cup {f[i] : i \in D})
         IN  /\ k \in Nat /\ \A i \in D : f[i] <= k
             /\ k = 0 \/ \E i \in D : k = f[i]
<1> DEFINE S == {f[i] : i \in D}
           T == {0} \cup S
<1>1. IsFiniteSet(S)
  BY ValuesFinite
<1>2. IsFiniteSet(T)
  BY <1>1, FS_Union, FS_Singleton
<1>3. T # {} /\ T \subseteq Int /\ T \subseteq Nat
  OBVIOUS
<1>4. Grid!Max(T) \in T /\ \A y \in T : y <= Grid!Max(T)
  <2> HIDE DEF T
  <2>1. QED
    BY <1>2, <1>3, GreatestOf
<1>5. QED
  BY <1>3, <1>4

LEMMA ChebyshevMax ==
  ASSUME NEW sh, Shaped(sh), NEW w \in BOOLEAN, NEW a \in CellsOf(sh), NEW b \in CellsOf(sh)
  PROVE  Grid!ChebyshevDistance(a, b, sh, w)
           = Grid!Max({0} \cup {Sizes(a, b, sh, w)[i] : i \in DOMAIN sh})
<1> DEFINE v == Grid!DistanceVector(a, b, sh, w)
           f == Sizes(a, b, sh, w)
           k == Grid!ChebyshevDistance(a, b, sh, w)
<1>1. DOMAIN v = DOMAIN sh /\ \A i \in DOMAIN sh : Grid!Abs(v[i]) = f[i]
  BY VectorIs DEF Sizes
<1>2. k = Grid!Max({0} \cup {Grid!Abs(v[i]) : i \in DOMAIN v})
  BY DEF Grid!ChebyshevDistance
<1> HIDE DEF v
<1>3. {Grid!Abs(v[i]) : i \in DOMAIN v} = {f[i] : i \in DOMAIN sh}
  BY <1>1
<1>4. k = Grid!Max({0} \cup {f[i] : i \in DOMAIN sh})
  BY <1>2, <1>3
<1>5. QED
  BY <1>4

LEMMA ChebyshevIs ==
  ASSUME NEW sh, Shaped(sh), NEW w \in BOOLEAN, NEW a \in CellsOf(sh), NEW b \in CellsOf(sh)
  PROVE  LET k == Grid!ChebyshevDistance(a, b, sh, w)
         IN  /\ k \in Nat /\ \A i \in DOMAIN sh : Sizes(a, b, sh, w)[i] <= k
             /\ k = 0 \/ \E i \in DOMAIN sh : k = Sizes(a, b, sh, w)[i]
<1> DEFINE f == Sizes(a, b, sh, w)
           k == Grid!ChebyshevDistance(a, b, sh, w)
<1>1. k = Grid!Max({0} \cup {f[i] : i \in DOMAIN sh})
  BY ChebyshevMax
<1>2. IsFiniteSet(DOMAIN sh) /\ \A i \in DOMAIN sh : f[i] \in Nat
  BY ShapeIs, SizesAre
<1> HIDE DEF f, k
<1>3. /\ k \in Nat /\ \A i \in DOMAIN sh : f[i] <= k
      /\ k = 0 \/ \E i \in DOMAIN sh : k = f[i]
  BY <1>1, <1>2, GreatestIs
<1>4. QED
  BY <1>3 DEF k, f

LEMMA PowerTwo ==
  ASSUME NEW x \in Nat
  PROVE  Grid!Power(x, 2) = x * x
<1> DEFINE Step(f) == [k \in 0 .. 2 |-> IF k = 0 THEN 1 ELSE x * f[k - 1]]
           p == CHOOSE f : f = Step(f)
           q == [k \in 0 .. 2 |-> IF k = 0 THEN 1 ELSE IF k = 1 THEN x ELSE x * x]
<1>1. Grid!Power(x, 2) = p[2]
  BY DEF Grid!Power
<1>2. q = Step(q)
  <2>1. \A k \in 0 .. 2 : q[k] = IF k = 0 THEN 1 ELSE x * q[k - 1]
    <3>1. 0 .. 2 = {0, 1, 2}
      OBVIOUS
    <3>2. q[0] = 1 /\ q[1] = x /\ q[2] = x * x
      OBVIOUS
    <3>3. x * 1 = x
      OBVIOUS
    <3> HIDE DEF q
    <3>4. QED
      BY <3>1, <3>2, <3>3
  <2>2. QED
    BY <2>1
<1>3. p = Step(p)
  BY <1>2
<1> HIDE DEF p
<1>4. p[0] = 1
  BY <1>3
<1>5. p[1] = x * p[0]
  BY <1>3
<1>6. p[2] = x * p[1]
  BY <1>3
<1>7. x * 1 = x
  OBVIOUS
<1>8. QED
  BY <1>1, <1>4, <1>5, <1>6, <1>7

LEMMA EuclideanIs ==
  ASSUME NEW sh, Shaped(sh), NEW w \in BOOLEAN, NEW a \in CellsOf(sh), NEW b \in CellsOf(sh)
  PROVE  Grid!EuclideanDistance(a, b, sh, w)
           = SumFunctionOnSet([i \in DOMAIN sh |-> Sizes(a, b, sh, w)[i] * Sizes(a, b, sh, w)[i]],
                              DOMAIN sh)
<1> DEFINE v == Grid!DistanceVector(a, b, sh, w)
           f == Sizes(a, b, sh, w)
           g == [i \in DOMAIN v |-> Grid!Power(Grid!Abs(v[i]), 2)]
           h == [i \in DOMAIN sh |-> f[i] * f[i]]
<1>1. DOMAIN v = DOMAIN sh /\ \A i \in DOMAIN sh : Grid!Abs(v[i]) = f[i] /\ f[i] \in Nat
  BY VectorIs, SizesAre DEF Sizes
<1>2. Grid!EuclideanDistance(a, b, sh, w) = Grid!SumFunction(g)
  BY DEF Grid!EuclideanDistance, Grid!NNormDistance
<1> HIDE DEF v, f
<1>3. \A i \in DOMAIN sh : Grid!Power(Grid!Abs(v[i]), 2) = f[i] * f[i]
  BY <1>1, PowerTwo
<1>4. g = h /\ DOMAIN g = DOMAIN sh
  BY <1>1, <1>3
<1> HIDE DEF g, h
<1>5. Grid!SumFunction(g) = SumFunctionOnSet(g, DOMAIN g)
  BY GridSum
<1>6. QED
  BY <1>2, <1>4, <1>5 DEF h, f

-----------------------------------------------------------------------------
(* The sum of squares is between the square of the greatest and the square of *)
(* the sum.                                                                   *)
LEMMA SquareOfSum ==
  ASSUME NEW x \in Nat, NEW y \in Nat, NEW e \in Nat, e <= y * y
  PROVE  x * x + e <= (x + y) * (x + y)
<1>1. (x + y) * (x + y) = x * x + 2 * (x * y) + y * y
  OBVIOUS
<1>2. x * x \in Nat /\ x * y \in Nat /\ y * y \in Nat
  OBVIOUS
<1> DEFINE xx == x * x
           xy == x * y
           yy == y * y
           z  == (x + y) * (x + y)
<1>3. z = xx + 2 * xy + yy /\ xx \in Nat /\ xy \in Nat /\ yy \in Nat /\ e <= yy
  BY <1>1, <1>2
<1> HIDE DEF xx, xy, yy, z
<1>4. xx + e <= z
  BY <1>3
<1>5. QED
  BY <1>4 DEF xx, z

LEMMA SquaresBelow ==
  ASSUME NEW D, IsFiniteSet(D), NEW f, NEW g,
         \A i \in D : f[i] \in Nat /\ g[i] \in Nat /\ g[i] = f[i] * f[i]
  PROVE  /\ SumFunctionOnSet(g, D) <= SumFunctionOnSet(f, D) * SumFunctionOnSet(f, D)
         /\ \A i \in D : f[i] * f[i] <= SumFunctionOnSet(g, D)
         /\ SumFunctionOnSet(g, D) \in Nat
<1> DEFINE B == {r \in SUBSET D :
                   SumFunctionOnSet(g, r) <= SumFunctionOnSet(f, r) * SumFunctionOnSet(f, r)}
<1>1. {} \in B
  BY SumEmpty
<1>2. ASSUME NEW r \in SUBSET D, NEW x \in D \ r, r \in B
      PROVE  r \cup {x} \in B
  <2>1. IsFiniteSet(r)
    BY FS_Subset
  <2>2. (\A i \in r : f[i] \in Nat /\ g[i] \in Nat) /\ x \notin r
    OBVIOUS
  <2>3. /\ SumFunctionOnSet(f, r \cup {x}) = f[x] + SumFunctionOnSet(f, r)
        /\ SumFunctionOnSet(g, r \cup {x}) = g[x] + SumFunctionOnSet(g, r)
    BY <2>1, <2>2, SumAdd
  <2>4. SumFunctionOnSet(f, r) \in Nat /\ SumFunctionOnSet(g, r) \in Nat
    BY <2>1, <2>2, SumNat
  <2>5. SumFunctionOnSet(g, r) <= SumFunctionOnSet(f, r) * SumFunctionOnSet(f, r)
    BY <1>2
  <2>6. f[x] \in Nat /\ g[x] = f[x] * f[x]
    OBVIOUS
  <2> DEFINE u == f[x]
             y == SumFunctionOnSet(f, r)
             e == SumFunctionOnSet(g, r)
  <2> HIDE DEF u, y, e
  <2>7. u \in Nat /\ y \in Nat /\ e \in Nat /\ e <= y * y
    BY <2>4, <2>5, <2>6 DEF u, y, e
  <2>8. u * u + e <= (u + y) * (u + y)
    BY <2>7, SquareOfSum
  <2>9. SumFunctionOnSet(g, r \cup {x})
          <= SumFunctionOnSet(f, r \cup {x}) * SumFunctionOnSet(f, r \cup {x})
    BY <2>3, <2>6, <2>8 DEF u, y, e
  <2>10. QED
    BY <2>9
<1>3. D \in B
  <2> HIDE DEF B
  <2>1. QED
    BY <1>1, <1>2, SetInduction
<1>4. ASSUME NEW i \in D
      PROVE  f[i] * f[i] <= SumFunctionOnSet(g, D)
  <2> DEFINE r == D \ {i}
  <2>1. IsFiniteSet(r) /\ r \in SUBSET D /\ D \in SUBSET D
    BY FS_Subset
  <2>2. SumFunctionOnSet(g, D) = g[i] + SumFunctionOnSet(g, r)
    <3>1. (\A x \in D : g[x] \in Nat) /\ D \in SUBSET D /\ i \in D
      OBVIOUS
    <3>2. QED
      BY ONLY <3>1, SumRemove, IsFiniteSet(D)
  <2> HIDE DEF r
  <2>3. SumFunctionOnSet(g, r) \in Nat
    BY <2>1, SumNat
  <2>4. g[i] \in Nat /\ g[i] = f[i] * f[i]
    OBVIOUS
  <2>5. g[i] <= SumFunctionOnSet(g, D)
    BY <2>2, <2>3, <2>4
  <2>6. QED
    BY <2>4, <2>5
<1>5. SumFunctionOnSet(g, D) \in Nat
  BY SumNat
<1>6. QED
  BY <1>3, <1>4, <1>5

LEMMA ManhattanTriangle ==
  ASSUME NEW sh, Shaped(sh), NEW w \in BOOLEAN,
         NEW a \in CellsOf(sh), NEW b \in CellsOf(sh), NEW c \in CellsOf(sh)
  PROVE  Grid!ManhattanDistance(a, c, sh, w)
           <= Grid!ManhattanDistance(a, b, sh, w) + Grid!ManhattanDistance(b, c, sh, w)
<1> DEFINE D == DOMAIN sh
           f == Sizes(a, b, sh, w)
           g == Sizes(b, c, sh, w)
           e == Sizes(a, c, sh, w)
           h == [i \in D |-> f[i] + g[i]]
<1>1. IsFiniteSet(D)
  BY ShapeIs
<1>2. \A i \in D : f[i] \in Nat /\ g[i] \in Nat /\ e[i] \in Nat
  BY SizesAre
<1>3. \A i \in D : e[i] <= f[i] + g[i]
  BY SizesTriangle
<1> HIDE DEF f, g, e, D
<1>4. \A i \in D : e[i] \in Nat /\ h[i] \in Nat /\ e[i] <= h[i] /\ h[i] = f[i] + g[i]
  BY <1>2, <1>3
<1> HIDE DEF h
<1>5. SumFunctionOnSet(e, D) <= SumFunctionOnSet(h, D)
  BY <1>1, <1>4, SumBelow
<1>6. SumFunctionOnSet(h, D) = SumFunctionOnSet(f, D) + SumFunctionOnSet(g, D)
  BY <1>1, <1>2, <1>4, SumPlus
<1>7. SumFunctionOnSet(e, D) <= SumFunctionOnSet(f, D) + SumFunctionOnSet(g, D)
  BY <1>5, <1>6
<1>8. QED
  BY <1>7, ManhattanIs DEF e, f, g, D

LEMMA ChebyshevTriangle ==
  ASSUME NEW sh, Shaped(sh), NEW w \in BOOLEAN,
         NEW a \in CellsOf(sh), NEW b \in CellsOf(sh), NEW c \in CellsOf(sh)
  PROVE  Grid!ChebyshevDistance(a, c, sh, w)
           <= Grid!ChebyshevDistance(a, b, sh, w) + Grid!ChebyshevDistance(b, c, sh, w)
<1> DEFINE k == Grid!ChebyshevDistance(a, c, sh, w)
           l == Grid!ChebyshevDistance(a, b, sh, w)
           m == Grid!ChebyshevDistance(b, c, sh, w)
           f == Sizes(a, b, sh, w)
           g == Sizes(b, c, sh, w)
           e == Sizes(a, c, sh, w)
<1>1. k \in Nat /\ (k = 0 \/ \E i \in DOMAIN sh : k = e[i])
  BY ChebyshevIs
<1>2. l \in Nat /\ \A i \in DOMAIN sh : f[i] <= l
  BY ChebyshevIs
<1>3. m \in Nat /\ \A i \in DOMAIN sh : g[i] <= m
  BY ChebyshevIs
<1>4. \A i \in DOMAIN sh : f[i] \in Nat /\ g[i] \in Nat /\ e[i] <= f[i] + g[i] /\ e[i] \in Nat
  BY SizesAre, SizesTriangle
<1> HIDE DEF k, l, m, f, g, e
<1>5. k <= l + m
  <2>1. CASE k = 0
    BY <1>2, <1>3, <2>1
  <2>2. CASE k # 0
    <3>1. PICK i \in DOMAIN sh : k = e[i]
      BY <1>1, <2>2
    <3>2. f[i] \in Nat /\ g[i] \in Nat /\ e[i] <= f[i] + g[i] /\ f[i] <= l /\ g[i] <= m
      BY <1>2, <1>3, <1>4
    <3>3. QED
      BY <1>1, <1>2, <1>3, <3>1, <3>2
  <2>3. QED
    BY <2>1, <2>2
<1>6. QED
  BY <1>5 DEF k, l, m

LEMMA Norms ==
  ASSUME NEW sh, Shaped(sh), NEW w \in BOOLEAN, NEW a \in CellsOf(sh), NEW b \in CellsOf(sh)
  PROVE  LET m == Grid!ManhattanDistance(a, b, sh, w)
             k == Grid!ChebyshevDistance(a, b, sh, w)
             e == Grid!EuclideanDistance(a, b, sh, w)
         IN  k * k <= e /\ e <= m * m
<1> DEFINE D == DOMAIN sh
           f == Sizes(a, b, sh, w)
           g == [i \in D |-> f[i] * f[i]]
           k == Grid!ChebyshevDistance(a, b, sh, w)
           e == SumFunctionOnSet(g, D)
           m == SumFunctionOnSet(f, D)
<1>1. IsFiniteSet(D) /\ \A i \in D : f[i] \in Nat
  BY ShapeIs, SizesAre
<1>2. k = 0 \/ \E i \in D : k = f[i]
  BY ChebyshevIs
<1>3. Grid!ManhattanDistance(a, b, sh, w) = m /\ Grid!EuclideanDistance(a, b, sh, w) = e
  BY ManhattanIs, EuclideanIs
<1> HIDE DEF f, D
<1>4. \A i \in D : f[i] \in Nat /\ g[i] \in Nat /\ g[i] = f[i] * f[i]
  BY <1>1
<1> HIDE DEF g, k
<1>5. e <= m * m /\ (\A i \in D : f[i] * f[i] <= e) /\ e \in Nat
  BY <1>1, <1>4, SquaresBelow
<1> HIDE DEF e, m
<1>6. k * k <= e
  <2>1. CASE k = 0
    BY <1>5, <2>1
  <2>2. CASE k # 0
    BY <1>2, <1>5, <2>2
  <2>3. QED
    BY <2>1, <2>2
<1>7. QED
  BY <1>3, <1>5, <1>6 DEF k

LEMMA MetricsOK ==
  ASSUME Shaped(file.shape), file.wrapped \in BOOLEAN
  PROVE  Grid!DistancesAreMetrics
<1> DEFINE sh == file.shape
           w == file.wrapped
           M(a, b) == Grid!ManhattanDistance(a, b, sh, w)
           K(a, b) == Grid!ChebyshevDistance(a, b, sh, w)
           E(a, b) == Grid!EuclideanDistance(a, b, sh, w)
<1>1. ASSUME NEW a \in CellsOf(sh), NEW b \in CellsOf(sh)
      PROVE  /\ Grid!DestinationCell(a, Grid!DistanceVector(a, b, sh, w), sh, w) = b
             /\ M(a, b) = M(b, a) /\ K(a, b) = K(b, a)
             /\ K(a, b) * K(a, b) <= E(a, b) /\ E(a, b) <= M(a, b) * M(a, b)
             /\ \A c \in CellsOf(sh) : /\ M(a, c) <= M(a, b) + M(b, c)
                                       /\ K(a, c) <= K(a, b) + K(b, c)
  <2>1. Grid!DestinationCell(a, Grid!DistanceVector(a, b, sh, w), sh, w) = b
    BY DestinationBack
  <2>2. Sizes(b, a, sh, w) = Sizes(a, b, sh, w)
    BY SizesAre
  <2>3. M(a, b) = M(b, a)
    BY <2>2, ManhattanIs
  <2>4. K(a, b) = K(b, a)
    <3>1. /\ K(a, b) = Grid!Max({0} \cup {Sizes(a, b, sh, w)[i] : i \in DOMAIN sh})
          /\ K(b, a) = Grid!Max({0} \cup {Sizes(b, a, sh, w)[i] : i \in DOMAIN sh})
      BY ChebyshevMax
    <3>2. QED
      BY <2>2, <3>1
  <2>5. K(a, b) * K(a, b) <= E(a, b) /\ E(a, b) <= M(a, b) * M(a, b)
    BY Norms
  <2>6. \A c \in CellsOf(sh) : M(a, c) <= M(a, b) + M(b, c) /\ K(a, c) <= K(a, b) + K(b, c)
    BY ManhattanTriangle, ChebyshevTriangle
  <2>7. QED
    BY <2>1, <2>3, <2>4, <2>5, <2>6
<1>2. Grid!Positions = CellsOf(sh) /\ Grid!shape = sh /\ Grid!wrapped = w
  BY PositionsAre DEF Grid!shape, Grid!wrapped
<1> HIDE DEF sh, w
<1>3. QED
  BY <1>1, <1>2 DEF Grid!DistancesAreMetrics

-----------------------------------------------------------------------------
(* Going from cell to cell.                                                   *)
LEMMA OriginIs ==
  ASSUME NEW sh, Shaped(sh)
  PROVE  Grid!Origin(sh) \in CellsOf(sh) /\ \A d \in CellsOf(sh) : ~Before(d, Grid!Origin(sh))
<1> DEFINE o == Grid!Origin(sh)
<1>1. o = [i \in DOMAIN sh |-> 0]
  BY DEF Grid!Origin
<1>2. \A i \in DOMAIN sh : o[i] \in 0 .. sh[i] - 1
  BY <1>1, ShapeIs
<1>3. DOMAIN o = DOMAIN sh /\ o \in [DOMAIN sh -> Int]
  BY <1>1
<1>4. o \in CellsOf(sh)
  <2> HIDE DEF o
  <2>1. QED
    BY <1>2, <1>3, IsCell
<1>5. ASSUME NEW d \in CellsOf(sh)
      PROVE  ~Before(d, o)
  <2>1. DOMAIN d = DOMAIN sh /\ \A i \in DOMAIN sh : d[i] \in Nat
    BY CellIs
  <2>2. \A i \in DOMAIN d : ~(d[i] < o[i])
    BY <1>1, <2>1
  <2> HIDE DEF o
  <2>3. QED
    BY <2>2 DEF Before
<1>6. QED
  BY <1>4, <1>5

Going(cur, sh, N) ==
  /\ cur[0] = Grid!Origin(sh)
  /\ \A k \in 1 .. N : cur[k] = Grid!NextUnlessOver(cur[k - 1], sh)
  /\ \A k \in 0 .. N : cur[k] \in CellsOf(sh) \cup {Grid!Overflow}

LEMMA GoesOn ==
  ASSUME NEW sh, Shaped(sh), NEW c \in CellsOf(sh) \cup {Grid!Overflow}
  PROVE  Grid!NextUnlessOver(c, sh) \in CellsOf(sh) \cup {Grid!Overflow}
<1>1. CASE c = Grid!Overflow
  BY <1>1 DEF Grid!NextUnlessOver
<1>2. CASE c # Grid!Overflow
  <2>1. c \in CellsOf(sh)
    BY <1>2
  <2>2. Grid!NextCell(c, sh) \in CellsOf(sh) \cup {Grid!Overflow}
    BY <2>1, NextIs
  <2>3. QED
    BY <1>2, <2>2 DEF Grid!NextUnlessOver
<1>3. QED
  BY <1>1, <1>2

(* As long as there are cells, each is gone through after all before it.      *)
LEMMA GoneThrough ==
  ASSUME NEW sh, Shaped(sh), NEW N \in Nat, NEW cur, Going(cur, sh, N),
         \A k \in 0 .. N : cur[k] # Grid!Overflow
  PROVE  \A k \in 0 .. N : /\ cur[k] \in CellsOf(sh)
                           /\ \A d \in CellsOf(sh) :
                                Before(d, cur[k]) <=> \E j \in 0 .. k - 1 : d = cur[j]
<1> DEFINE B == {k \in 0 .. N : \A d \in CellsOf(sh) :
                   Before(d, cur[k]) <=> \E j \in 0 .. k - 1 : d = cur[j]}
<1>1. \A k \in 0 .. N : cur[k] \in CellsOf(sh)
  BY DEF Going
<1>2. 0 \in B
  <2>1. cur[0] = Grid!Origin(sh) /\ 0 \in 0 .. N /\ 0 .. (0 - 1) = {}
    BY DEF Going
  <2>2. QED
    BY <2>1, OriginIs
<1>3. ASSUME NEW k \in 1 .. N, k - 1 \in B
      PROVE  k \in B
  <2>1. k \in 0 .. N /\ k - 1 \in 0 .. N /\ k \in Nat
    OBVIOUS
  <2>2. cur[k - 1] # Grid!Overflow /\ cur[k] # Grid!Overflow /\ cur[k - 1] \in CellsOf(sh)
    BY <1>1, <2>1
  <2>3. cur[k] = Grid!NextCell(cur[k - 1], sh)
    BY <2>2 DEF Going, Grid!NextUnlessOver
  <2> DEFINE c == cur[k - 1]
             e == cur[k]
  <2>4. \A d \in CellsOf(sh) : Before(d, c) <=> \E j \in 0 .. (k - 1) - 1 : d = cur[j]
    BY <1>3
  <2>5. c \in CellsOf(sh) /\ e = Grid!NextCell(c, sh) /\ e # Grid!Overflow
    BY <2>2, <2>3
  <2> HIDE DEF c, e
  <2>6. \A d \in CellsOf(sh) : Before(d, e) <=> d = c \/ Before(d, c)
    BY <2>5, NextIs
  <2>7. \A j : j \in 0 .. k - 1 <=> j = k - 1 \/ j \in 0 .. (k - 1) - 1
    BY <2>1
  <2>8. \A d \in CellsOf(sh) : Before(d, e) <=> \E j \in 0 .. k - 1 : d = cur[j]
    BY <2>4, <2>6, <2>7 DEF c
  <2>9. QED
    BY <2>1, <2>8 DEF e
<1>4. \A k \in 0 .. N : k \in B
  <2> HIDE DEF B
  <2>1. QED
    BY <1>2, <1>3, UpTo
<1>5. QED
  BY <1>1, <1>4

(* There are no more steps than cells: the last step is over the end.         *)
LEMMA GoesOver ==
  ASSUME NEW sh, Shaped(sh), IsFiniteSet(CellsOf(sh)), NEW N \in Nat, N = Cardinality(CellsOf(sh)),
         NEW cur, Going(cur, sh, N)
  PROVE  \E k \in 0 .. N : cur[k] = Grid!Overflow
<1> SUFFICES ASSUME \A k \in 0 .. N : cur[k] # Grid!Overflow
             PROVE  FALSE
  OBVIOUS
<1> DEFINE f == [k \in 0 .. N |-> cur[k]]
<1>1. \A k \in 0 .. N : /\ cur[k] \in CellsOf(sh)
                        /\ \A d \in CellsOf(sh) :
                             Before(d, cur[k]) <=> \E j \in 0 .. k - 1 : d = cur[j]
  BY GoneThrough
<1>2. ASSUME NEW j \in 0 .. N, NEW k \in 0 .. N, j < k
      PROVE  cur[j] # cur[k]
  <2>1. j \in 0 .. k - 1
    BY <1>2
  <2>2. Before(cur[j], cur[k])
    BY <1>1, <2>1
  <2>3. QED
    BY <1>1, <2>2, NotBeforeItself
<1>3. \A j, k \in 0 .. N : f[j] = f[k] => j = k
  <2>1. ASSUME NEW j \in 0 .. N, NEW k \in 0 .. N, f[j] = f[k], j # k
        PROVE  FALSE
    <3>1. j < k \/ k < j
      BY <2>1
    <3>2. QED
      BY <1>2, <2>1, <3>1
  <2>2. QED
    BY <2>1
<1>4. f \in [0 .. N -> CellsOf(sh)]
  BY <1>1
<1> HIDE DEF f
<1>5. f \in Injection(0 .. N, CellsOf(sh))
  BY <1>3, <1>4 DEF Injection, IsInjective
<1>6. Cardinality(0 .. N) <= Cardinality(CellsOf(sh))
  BY <1>5, FS_Injection
<1>7. Cardinality(0 .. N) = N + 1
  BY FS_Interval
<1>8. QED
  BY <1>6, <1>7

LEMMA AllGoneThrough ==
  ASSUME NEW sh, Shaped(sh), IsFiniteSet(CellsOf(sh)), NEW N \in Nat, N = Cardinality(CellsOf(sh)),
         NEW cur, Going(cur, sh, N)
  PROVE  {cur[k] : k \in 0 .. N} \ {Grid!Overflow} = CellsOf(sh)
<1> DEFINE over == {k \in 0 .. N : cur[k] = Grid!Overflow}
<1>1. over \in SUBSET Nat /\ over # {}
  BY GoesOver
<1>2. PICK n \in over : \A k \in over : n <= k
  BY <1>1, LeastNat
<1>3. n \in 1 .. N /\ n - 1 \in Nat /\ n - 1 \in 0 .. N /\ cur[n] = Grid!Overflow
  <2>1. cur[0] # Grid!Overflow
    BY OriginIs, CellIs DEF Going
  <2>2. QED
    BY <1>2, <2>1
<1>4. \A k \in 0 .. n - 1 : k \in 0 .. N /\ k \notin over
  BY <1>2, <1>3
<1>5. \A k \in 0 .. n - 1 : cur[k] # Grid!Overflow
  BY <1>4
<1>6. Going(cur, sh, n - 1)
  <2>1. \A k \in 1 .. n - 1 : k \in 1 .. N
    BY <1>3
  <2>2. QED
    BY <1>4, <2>1 DEF Going
<1> DEFINE c == cur[n - 1]
<1> HIDE DEF over
<1>7. n - 1 \in 0 .. n - 1
  BY <1>3
<1>8. \A k \in 0 .. n - 1 : /\ cur[k] \in CellsOf(sh)
                            /\ \A d \in CellsOf(sh) :
                                 Before(d, cur[k]) <=> \E j \in 0 .. k - 1 : d = cur[j]
  BY <1>3, <1>5, <1>6, GoneThrough
<1>9. c \in CellsOf(sh) /\ \A d \in CellsOf(sh) : Before(d, c) <=> \E j \in 0 .. (n - 1) - 1 : d = cur[j]
  BY <1>7, <1>8
<1>10. Grid!NextCell(c, sh) = Grid!Overflow
  BY <1>3, <1>5, <1>7 DEF Going, Grid!NextUnlessOver
<1>11. \A d \in CellsOf(sh) : d = c \/ Before(d, c)
  <2> HIDE DEF c
  <2>1. Grid!NextCell(c, sh) \notin CellsOf(sh)
    BY <1>10, CellIs
  <2>2. QED
    BY <1>9, <2>1, NextIs
<1>12. \A j \in 0 .. (n - 1) - 1 : j \in 0 .. N
  BY <1>3
<1>13. CellsOf(sh) \subseteq {cur[k] : k \in 0 .. N}
  BY <1>3, <1>9, <1>11, <1>12
<1>14. \A d \in CellsOf(sh) : d # Grid!Overflow
  BY CellIs
<1>15. {cur[k] : k \in 0 .. N} \subseteq CellsOf(sh) \cup {Grid!Overflow}
  BY DEF Going
<1>16. QED
  BY <1>13, <1>14, <1>15

-----------------------------------------------------------------------------
(* Neighborhoods.                                                             *)
LEMMA FunctionsFinite ==
  ASSUME NEW S, NEW T, IsFiniteSet(S), IsFiniteSet(T)
  PROVE  IsFiniteSet([S -> T])
<1> DEFINE P == SUBSET (S \X T)
           graph(f) == {<<x, f[x]>> : x \in S}
           g == [f \in [S -> T] |-> graph(f)]
<1>1. IsFiniteSet(P)
  BY FS_Product, FS_SUBSET
<1>2. g \in [[S -> T] -> P]
  OBVIOUS
<1>3. ASSUME NEW f \in [S -> T], NEW h \in [S -> T], g[f] = g[h]
      PROVE  f = h
  <2>1. ASSUME NEW x \in S
        PROVE  f[x] = h[x]
    <3>1. <<x, f[x]>> \in graph(h)
      BY <1>3
    <3>2. PICK y \in S : <<x, f[x]>> = <<y, h[y]>>
      BY <3>1
    <3>3. QED
      BY <3>2
  <2>2. QED
    BY <2>1
<1> HIDE DEF g, P
<1>4. g \in Injection([S -> T], P)
  BY <1>2, <1>3 DEF Injection, IsInjective
<1>5. QED
  BY <1>1, <1>4, FS_Injection

LEMMA BoxIs ==
  ASSUME NEW d \in Nat \ {0}, NEW r \in Nat
  PROVE  LET box == Grid!BoxShape(d, r)
         IN  /\ Shaped(box) /\ DOMAIN box = 1 .. d /\ \A i \in 1 .. d : box[i] = 2 * r + 1
             /\ CellsOf(box) = [1 .. d -> 0 .. 2 * r] /\ IsFiniteSet(CellsOf(box))
<1> DEFINE box == Grid!BoxShape(d, r)
<1>1. box = [i \in 1 .. d |-> 2 * r + 1]
  BY DEF Grid!BoxShape
<1>2. box \in Seq(Nat \ {0}) /\ DOMAIN box = 1 .. d /\ Len(box) = d /\ \A i \in 1 .. d : box[i] = 2 * r + 1
  <2>1. 2 * r + 1 \in Nat \ {0}
    OBVIOUS
  <2>2. QED
    BY <1>1, <2>1
<1>3. Shaped(box)
  BY <1>2 DEF Shaped
<1> HIDE DEF box
<1>4. CellsOf(box) = [1 .. d -> 0 .. 2 * r]
  <2>1. ASSUME NEW c \in [1 .. d -> Int]
        PROVE  Grid!CellInScenario(c, box) <=> c \in [1 .. d -> 0 .. 2 * r]
    <3>1. Grid!CellInScenario(c, box) <=> \A i \in 1 .. d : 0 <= c[i] /\ c[i] < 2 * r + 1
      BY <1>2 DEF Grid!CellInScenario
    <3>2. \A i \in 1 .. d : c[i] \in Int
      OBVIOUS
    <3>3. \A i \in 1 .. d : c[i] \in 0 .. 2 * r <=> 0 <= c[i] /\ c[i] < 2 * r + 1
      BY <3>2
    <3>4. QED
      BY <3>1, <3>3
  <2>2. \A c \in [1 .. d -> 0 .. 2 * r] : c \in [1 .. d -> Int]
    OBVIOUS
  <2>3. CellsOf(box) = {c \in [1 .. d -> Int] : Grid!CellInScenario(c, box)}
    BY <1>2 DEF CellsOf
  <2>4. QED
    BY <2>1, <2>2, <2>3
<1>5. IsFiniteSet(1 .. d) /\ IsFiniteSet(0 .. 2 * r)
  BY FS_Interval
<1>6. IsFiniteSet([1 .. d -> 0 .. 2 * r])
  BY <1>5, FunctionsFinite
<1>7. QED
  BY <1>2, <1>3, <1>4, <1>6 DEF box

LEMMA BiassedMooreIs ==
  ASSUME NEW d \in Nat \ {0}, NEW r \in Nat
  PROVE  Grid!BiassedMooreNeighborhood(d, r) = CellsOf(Grid!BoxShape(d, r))
<1> DEFINE sh == Grid!BoxShape(d, r)
           N == Cardinality([1 .. d -> 0 .. 2 * r])
           S == CellsOf(sh) \cup {Grid!Overflow}
           F == [k \in 1 .. N |-> [y \in S |-> Grid!NextUnlessOver(y, sh)]]
           Step(f) == [k \in 0 .. N |-> IF k = 0 THEN Grid!Origin(sh)
                                        ELSE Grid!NextUnlessOver(f[k - 1], sh)]
           visited == CHOOSE f : f = Step(f)
<1>1. Shaped(sh) /\ CellsOf(sh) = [1 .. d -> 0 .. 2 * r] /\ IsFiniteSet(CellsOf(sh))
  BY BoxIs
<1>2. N \in Nat /\ N = Cardinality(CellsOf(sh))
  BY <1>1, FS_CardinalityType
<1>3. Grid!BiassedMooreNeighborhood(d, r) = {visited[k] : k \in 0 .. N} \ {Grid!Overflow}
  BY DEF Grid!BiassedMooreNeighborhood, Grid!Cardinality, Cardinality
<1> HIDE DEF sh
<1>4. Grid!Origin(sh) \in S /\ \A y \in S : Grid!NextUnlessOver(y, sh) \in S
  BY <1>1, OriginIs, GoesOn
<1>5. F \in [1 .. N -> [S -> S]]
  BY <1>4
<1> HIDE DEF N, S
<1>6. \E f : f = Step(f)
  <2>1. PICK x \in [0 .. N -> S] : Steps(x, Grid!Origin(sh), F, N)
    <3> HIDE DEF F
    <3>1. QED
      BY <1>2, <1>4, <1>5, RecursionExists
  <2>2. ASSUME NEW k \in 0 .. N
        PROVE  x[k] = Step(x)[k]
    <3>1. CASE k = 0
      BY <2>1, <3>1 DEF Steps
    <3>2. CASE k # 0
      <4>1. k \in 1 .. N /\ k - 1 \in 0 .. N
        BY <1>2, <3>2
      <4>2. x[k] = F[k][x[k - 1]] /\ x[k - 1] \in S
        BY <2>1, <4>1 DEF Steps
      <4>3. QED
        BY <3>2, <4>1, <4>2
    <3>3. QED
      BY <3>1, <3>2
  <2>3. x = Step(x)
    BY <2>1, <2>2
  <2>4. QED
    BY <2>3
<1>7. visited = Step(visited)
  BY <1>6
<1> HIDE DEF visited
<1>8. visited[0] = Grid!Origin(sh)
      /\ \A k \in 1 .. N : visited[k] = Grid!NextUnlessOver(visited[k - 1], sh)
  <2>1. 0 \in 0 .. N /\ \A k \in 1 .. N : k \in 0 .. N /\ k # 0
    BY <1>2
  <2>2. QED
    BY <1>7, <2>1
<1>9. \A k \in 0 .. N : visited[k] \in S
  <2>1. visited[0] \in S /\ \A k \in 1 .. N : visited[k - 1] \in S => visited[k] \in S
    BY <1>4, <1>8
  <2>2. QED
    BY <1>2, <2>1, StaysIn
<1>10. Going(visited, sh, N)
  BY <1>8, <1>9 DEF Going, S
<1>11. {visited[k] : k \in 0 .. N} \ {Grid!Overflow} = CellsOf(sh)
  <2>1. Shaped(sh) /\ IsFiniteSet(CellsOf(sh))
    BY <1>1
  <2>2. QED
    BY ONLY <1>2, <1>10, <2>1, AllGoneThrough
<1>12. QED
  BY <1>3, <1>11 DEF sh

(* The neighborhoods are those vectors that the names promise.                *)
LEMMA MooreIs ==
  ASSUME NEW d \in Nat \ {0}, NEW r \in Nat, NEW v
  PROVE  v \in Grid!MooreNeighborhood(d, r)
           <=> v \in [1 .. d -> Int] /\ \A i \in 1 .. d : Grid!Abs(v[i]) <= r
<1> DEFINE box == Grid!BoxShape(d, r)
           middle == Grid!Middle(d, r)
<1>1. middle = [i \in 1 .. d |-> r]
  BY DEF Grid!Middle
<1>2. v \in Grid!MooreNeighborhood(d, r)
        <=> \E c \in [1 .. d -> 0 .. 2 * r] : v = [i \in 1 .. d |-> c[i] - r]
  <2>1. Grid!MooreNeighborhood(d, r)
          = {[i \in DOMAIN middle |-> c[i] - middle[i]] : c \in Grid!BiassedMooreNeighborhood(d, r)}
    BY DEF Grid!MooreNeighborhood, Grid!UnbiasNeighborhood
  <2>2. Grid!BiassedMooreNeighborhood(d, r) = [1 .. d -> 0 .. 2 * r]
    BY BiassedMooreIs, BoxIs
  <2> HIDE DEF middle
  <2>3. DOMAIN middle = 1 .. d /\ \A i \in 1 .. d : middle[i] = r
    BY <1>1
  <2>4. \A c : [i \in DOMAIN middle |-> c[i] - middle[i]] = [i \in 1 .. d |-> c[i] - r]
    BY <2>3
  <2>5. QED
    BY ZenonT(40), <2>1, <2>2, <2>4
<1>3. ASSUME NEW c \in [1 .. d -> 0 .. 2 * r], v = [i \in 1 .. d |-> c[i] - r]
      PROVE  v \in [1 .. d -> Int] /\ \A i \in 1 .. d : Grid!Abs(v[i]) <= r
  <2>1. ASSUME NEW i \in 1 .. d
        PROVE  v[i] \in Int /\ Grid!Abs(v[i]) <= r
    <3>1. c[i] \in 0 .. 2 * r /\ v[i] = c[i] - r
      BY <1>3
    <3>2. QED
      BY <3>1 DEF Grid!Abs
  <2>2. QED
    BY <1>3, <2>1
<1>4. ASSUME v \in [1 .. d -> Int], \A i \in 1 .. d : Grid!Abs(v[i]) <= r
      PROVE  \E c \in [1 .. d -> 0 .. 2 * r] : v = [i \in 1 .. d |-> c[i] - r]
  <2> DEFINE c == [i \in 1 .. d |-> v[i] + r]
  <2>1. ASSUME NEW i \in 1 .. d
        PROVE  v[i] + r \in 0 .. 2 * r /\ (v[i] + r) - r = v[i]
    <3>1. v[i] \in Int /\ Grid!Abs(v[i]) <= r
      BY <1>4
    <3>2. QED
      BY <3>1 DEF Grid!Abs
  <2>2. c \in [1 .. d -> 0 .. 2 * r]
    BY <2>1
  <2>3. v = [i \in 1 .. d |-> c[i] - r]
    BY <1>4, <2>1
  <2>4. QED
    BY <2>2, <2>3
<1>5. QED
  BY <1>2, <1>3, <1>4

LEMMA SumAtLeast ==
  ASSUME NEW D, IsFiniteSet(D), NEW f, \A i \in D : f[i] \in Nat
  PROVE  \A i \in D : f[i] <= SumFunctionOnSet(f, D)
<1>1. ASSUME NEW i \in D
      PROVE  f[i] <= SumFunctionOnSet(f, D)
  <2> DEFINE t == D \ {i}
  <2>1. D \in SUBSET D /\ t \in SUBSET D
    OBVIOUS
  <2>2. SumFunctionOnSet(f, D) = f[i] + SumFunctionOnSet(f, t)
    BY <2>1, SumRemove
  <2> HIDE DEF t
  <2>3. SumFunctionOnSet(f, t) \in Nat /\ f[i] \in Nat
    BY <2>1, SumNat
  <2>4. QED
    BY <2>2, <2>3
<1>2. QED
  BY <1>1

(* The size of a vector.                                                      *)
SizeOf(v, D) == SumFunctionOnSet([i \in D |-> Grid!Abs(v[i])], D)

LEMMA VonNeumannIs ==
  ASSUME NEW d \in Nat \ {0}, NEW r \in Nat, NEW v
  PROVE  v \in Grid!VonNeumannNeighborhood(d, r) <=> v \in [1 .. d -> Int] /\ SizeOf(v, 1 .. d) <= r
<1> DEFINE box == Grid!BoxShape(d, r)
           middle == Grid!Middle(d, r)
           shifted(c) == [i \in 1 .. d |-> c[i] - r]
           Near == {c \in CellsOf(box) : Grid!ManhattanDistance(middle, c, box, FALSE) <= r}
<1>1. middle = [i \in 1 .. d |-> r]
  BY DEF Grid!Middle
<1>2. Grid!VonNeumannNeighborhood(d, r) = {shifted(c) : c \in Near}
  BY ZenonT(40), <1>1, BiassedMooreIs
     DEF Grid!VonNeumannNeighborhood, Grid!UnbiasNeighborhood, Grid!BiassedVonNeumannNeighborhood
<1>3. /\ Shaped(box) /\ CellsOf(box) = [1 .. d -> 0 .. 2 * r] /\ DOMAIN box = 1 .. d
      /\ \A i \in 1 .. d : box[i] = 2 * r + 1
  BY BoxIs
<1> HIDE DEF box
<1>4. middle \in CellsOf(box)
  BY <1>1, <1>3
<1> HIDE DEF middle
<1>5. ASSUME NEW c \in CellsOf(box)
      PROVE  Grid!ManhattanDistance(middle, c, box, FALSE) = SizeOf(shifted(c), 1 .. d)
  <2> DEFINE f == Sizes(middle, c, box, FALSE)
             g == [i \in 1 .. d |-> Grid!Abs(shifted(c)[i])]
  <2>1. Grid!ManhattanDistance(middle, c, box, FALSE) = SumFunctionOnSet(f, DOMAIN box)
    BY <1>3, <1>4, ManhattanIs
  <2>2. f = g
    BY <1>1, <1>3 DEF Sizes, Along
  <2>3. SumFunctionOnSet(g, 1 .. d) = SizeOf(shifted(c), 1 .. d)
    BY DEF SizeOf
  <2>4. QED
    BY <1>3, <2>1, <2>2, <2>3
<1>6. ASSUME NEW c \in CellsOf(box), v = shifted(c)
      PROVE  v \in [1 .. d -> Int]
  <2>1. \A i \in 1 .. d : c[i] \in 0 .. 2 * r
    BY <1>3
  <2>2. \A i \in 1 .. d : c[i] - r \in Int
    BY <2>1
  <2>3. QED
    BY <1>6, <2>2
<1>7. ASSUME v \in [1 .. d -> Int], SizeOf(v, 1 .. d) <= r
      PROVE  \E c \in CellsOf(box) : v = shifted(c)
  <2> DEFINE c == [i \in 1 .. d |-> v[i] + r]
             f == [i \in 1 .. d |-> Grid!Abs(v[i])]
  <2>1. IsFiniteSet(1 .. d) /\ \A i \in 1 .. d : f[i] \in Nat /\ v[i] \in Int
    <3>1. IsFiniteSet(1 .. d)
      BY FS_Interval
    <3>2. \A i \in 1 .. d : v[i] \in Int
      BY <1>7
    <3>3. QED
      BY <3>1, <3>2, AbsIs
  <2>2. \A i \in 1 .. d : f[i] <= SumFunctionOnSet(f, 1 .. d)
    <3> HIDE DEF f
    <3>1. QED
      BY <2>1, SumAtLeast
  <2>3. SumFunctionOnSet(f, 1 .. d) \in Nat
    <3> HIDE DEF f
    <3>1. QED
      BY <2>1, SumNat
  <2>4. SumFunctionOnSet(f, 1 .. d) <= r
    BY <1>7 DEF SizeOf
  <2>5. ASSUME NEW i \in 1 .. d
        PROVE  v[i] + r \in 0 .. 2 * r /\ (v[i] + r) - r = v[i]
    <3> DEFINE total == SumFunctionOnSet(f, 1 .. d)
    <3>1. f[i] <= total /\ total <= r /\ total \in Nat /\ f[i] \in Nat /\ v[i] \in Int
      BY <2>1, <2>2, <2>3, <2>4
    <3>2. f[i] = Grid!Abs(v[i])
      OBVIOUS
    <3> HIDE DEF total, f
    <3>3. Grid!Abs(v[i]) <= r
      BY <3>1, <3>2
    <3>4. QED
      BY <3>1, <3>3 DEF Grid!Abs
  <2>6. c \in CellsOf(box)
    BY <1>3, <2>5
  <2>7. v = shifted(c)
    BY <1>7, <2>5
  <2>8. QED
    BY <2>6, <2>7
<1>8. v \in Grid!VonNeumannNeighborhood(d, r)
        <=> \E c \in CellsOf(box) : v = shifted(c) /\ SizeOf(v, 1 .. d) <= r
  <2> HIDE DEF shifted
  <2>1. v \in Grid!VonNeumannNeighborhood(d, r) <=> \E c \in Near : v = shifted(c)
    BY <1>2
  <2>2. QED
    BY <1>5, <2>1
<1> HIDE DEF shifted
<1>9. QED
  BY <1>6, <1>7, <1>8

-----------------------------------------------------------------------------
(* The neighborhood that a list means: each position has the vicinity of the  *)
(* last entry that names it.                                                  *)
Names(list, k, d) == Grid!EntryNeighbors(list[k], d)

NamedUpTo(hood, list, m, d) ==
  /\ \A n : n \in DOMAIN hood <=> \E k \in 1 .. m : n \in Names(list, k, d)
  /\ \A n \in DOMAIN hood : \E k \in 1 .. m :
       /\ n \in Names(list, k, d) /\ hood[n] = list[k].vicinity
       /\ \A j \in 1 .. m : n \in Names(list, j, d) => j <= k

LEMMA PutOne ==
  ASSUME NEW list, NEW d, NEW m \in Nat \ {0}, NEW hood, NamedUpTo(hood, list, m - 1, d)
  PROVE  NamedUpTo(Grid!PutEntry(hood, list[m], d), list, m, d)
<1> DEFINE near == Names(list, m, d)
           new == Grid!PutEntry(hood, list[m], d)
<1>1. new = [n \in DOMAIN hood \cup near |-> IF n \in near THEN list[m].vicinity ELSE hood[n]]
  BY DEF Grid!PutEntry, Names
<1> HIDE DEF new
<1>2. DOMAIN new = DOMAIN hood \cup near
  BY <1>1
<1>3. \A k : k \in 1 .. m <=> k = m \/ k \in 1 .. m - 1
  OBVIOUS
<1>4. ASSUME NEW n
      PROVE  n \in DOMAIN new <=> \E k \in 1 .. m : n \in Names(list, k, d)
  BY <1>2, <1>3 DEF NamedUpTo
<1>5. ASSUME NEW n \in DOMAIN new
      PROVE  \E k \in 1 .. m : /\ n \in Names(list, k, d) /\ new[n] = list[k].vicinity
                               /\ \A j \in 1 .. m : n \in Names(list, j, d) => j <= k
  <2>1. CASE n \in near
    <3>1. new[n] = list[m].vicinity /\ m \in 1 .. m /\ \A j \in 1 .. m : j <= m
      BY <1>1, <1>2, <2>1
    <3>2. QED
      BY <2>1, <3>1
  <2>2. CASE n \notin near
    <3>1. n \in DOMAIN hood /\ new[n] = hood[n]
      BY <1>1, <1>2, <2>2
    <3>2. PICK k \in 1 .. m - 1 : /\ n \in Names(list, k, d) /\ hood[n] = list[k].vicinity
                                  /\ \A j \in 1 .. m - 1 : n \in Names(list, j, d) => j <= k
      BY <3>1 DEF NamedUpTo
    <3>3. k \in 1 .. m /\ \A j \in 1 .. m : n \in Names(list, j, d) => j <= k
      BY <1>3, <2>2, <3>2
    <3>4. QED
      BY <3>1, <3>2, <3>3
  <2>3. QED
    BY <2>1, <2>2
<1>6. QED
  BY <1>4, <1>5 DEF NamedUpTo, new

LEMMA ParseIs ==
  ASSUME NEW list, Len(list) \in Nat, NEW d
  PROVE  NamedUpTo(Grid!ParseNeighborhood(list, d), list, Len(list), d)
<1> DEFINE N == Len(list)
           A == UNION {Names(list, k, d) : k \in 1 .. N}
           V == {list[k].vicinity : k \in 1 .. N}
           S == UNION {[D -> V] : D \in SUBSET A}
           F == [k \in 1 .. N |-> [h \in S |-> Grid!PutEntry(h, list[k], d)]]
           Step(f) == [k \in 0 .. N |-> IF k = 0 THEN <<>> ELSE Grid!PutEntry(f[k - 1], list[k], d)]
           hood == CHOOSE f : f = Step(f)
<1>1. Grid!ParseNeighborhood(list, d) = hood[N]
  BY DEF Grid!ParseNeighborhood
<1>2. N \in Nat
  OBVIOUS
<1>3. <<>> \in S
  <2>1. <<>> \in [{} -> V] /\ {} \in SUBSET A
    OBVIOUS
  <2>2. QED
    BY <2>1
<1>4. ASSUME NEW k \in 1 .. N, NEW h \in S
      PROVE  Grid!PutEntry(h, list[k], d) \in S
  <2>1. PICK D \in SUBSET A : h \in [D -> V]
    OBVIOUS
  <2>2. Names(list, k, d) \subseteq A /\ list[k].vicinity \in V
    OBVIOUS
  <2> DEFINE E == D \cup Names(list, k, d)
             new == [n \in E |-> IF n \in Names(list, k, d) THEN list[k].vicinity ELSE h[n]]
  <2>3. Grid!PutEntry(h, list[k], d) = new
    BY <2>1 DEF Grid!PutEntry, Names
  <2> HIDE DEF A, V
  <2>4. new \in [E -> V] /\ E \in SUBSET A
    BY <2>1, <2>2
  <2>5. QED
    BY <2>3, <2>4
<1>5. F \in [1 .. N -> [S -> S]]
  BY <1>4
<1> HIDE DEF N, S
<1>6. \E f : f = Step(f)
  <2>1. PICK x \in [0 .. N -> S] : Steps(x, <<>>, F, N)
    <3> HIDE DEF F
    <3>1. QED
      BY <1>2, <1>3, <1>5, RecursionExists
  <2>2. ASSUME NEW k \in 0 .. N
        PROVE  x[k] = Step(x)[k]
    <3>1. CASE k = 0
      BY <2>1, <3>1 DEF Steps
    <3>2. CASE k # 0
      <4>1. k \in 1 .. N /\ k - 1 \in 0 .. N
        BY <1>2, <3>2
      <4>2. x[k] = F[k][x[k - 1]] /\ x[k - 1] \in S
        BY <2>1, <4>1 DEF Steps
      <4>3. QED
        BY <3>2, <4>1, <4>2
    <3>3. QED
      BY <3>1, <3>2
  <2>3. x = Step(x)
    BY <2>1, <2>2
  <2>4. QED
    BY <2>3
<1>7. hood = Step(hood)
  BY <1>6
<1> HIDE DEF hood
<1>8. hood[0] = <<>> /\ \A k \in 1 .. N : hood[k] = Grid!PutEntry(hood[k - 1], list[k], d)
  <2>1. 0 \in 0 .. N /\ \A k \in 1 .. N : k \in 0 .. N /\ k # 0
    BY <1>2
  <2>2. QED
    BY <1>7, <2>1
<1> DEFINE B == {k \in 0 .. N : NamedUpTo(hood[k], list, k, d)}
<1>9. 0 \in B
  <2>1. DOMAIN hood[0] = {} /\ 1 .. 0 = {} /\ 0 \in 0 .. N
    BY <1>2, <1>8
  <2>2. QED
    BY <2>1 DEF NamedUpTo
<1>10. ASSUME NEW k \in 1 .. N, k - 1 \in B
       PROVE  k \in B
  <2>1. k \in Nat \ {0} /\ k \in 0 .. N
    BY <1>2
  <2>2. NamedUpTo(Grid!PutEntry(hood[k - 1], list[k], d), list, k, d)
    BY <1>10, <2>1, PutOne
  <2>3. QED
    BY <1>8, <2>1, <2>2
<1>11. \A k \in 0 .. N : k \in B
  <2> HIDE DEF B
  <2>1. QED
    BY <1>2, <1>9, <1>10, UpTo
<1>12. N \in 0 .. N
  BY <1>2
<1>13. NamedUpTo(hood[N], list, N, d)
  BY <1>11, <1>12
<1>14. QED
  BY <1>1, <1>13 DEF N

-----------------------------------------------------------------------------
(* A scenario.                                                                *)
FileOK ==
  /\ Shaped(file.shape) /\ file.wrapped \in BOOLEAN
  /\ Len(file.list) \in Nat /\ DOMAIN file.list = 1 .. Len(file.list)
  /\ \A k \in 1 .. Len(file.list) : Grid!EntryAssumption(file.list[k])

DefaultOK ==
  /\ default = Grid!DefaultConfig
  /\ Grid!Fits(default.neighborhood)

Vectors == [DOMAIN file.shape -> Int]

(* What is in an entry of a list, for vectors.                                *)
LEMMA NamesAre ==
  ASSUME FileOK, NEW k \in 1 .. Len(file.list), NEW v
  PROVE  LET e == file.list[k]
             named == v \in Names(file.list, k, Len(file.shape))
         IN  /\ e.type = "relative" => (named <=> v \in e.neighbors) /\ (named => v \in Seq(Int))
             /\ e.type = "moore" =>
                  (named <=> v \in Vectors /\ \A i \in DOMAIN file.shape : Grid!Abs(v[i]) <= e.range)
             /\ e.type = "von_neumann" =>
                  (named <=> v \in Vectors /\ SizeOf(v, DOMAIN file.shape) <= e.range)
             /\ e.type \in {"relative", "moore", "von_neumann"}
             /\ e.type # "relative" => e.range \in Nat
<1> DEFINE e == file.list[k]
           D == Len(file.shape)
<1>1. /\ D \in Nat \ {0} /\ DOMAIN file.shape = 1 .. D
      /\ Grid!EntryAssumption(e)
  BY ShapeIs DEF FileOK
<1> HIDE DEF D, e
<1>2. CASE e.type = "relative"
  <2>1. Grid!EntryNeighbors(e, D) = e.neighbors /\ e.neighbors \subseteq Seq(Int)
    BY <1>1, <1>2 DEF Grid!EntryNeighbors, Grid!EntryAssumption
  <2>2. QED
    BY <1>2, <2>1 DEF Names, e, D
<1>3. CASE e.type = "moore"
  <2>1. Grid!EntryNeighbors(e, D) = Grid!MooreNeighborhood(D, e.range) /\ e.range \in Nat
    BY <1>1, <1>3 DEF Grid!EntryNeighbors, Grid!EntryAssumption
  <2>2. v \in Grid!EntryNeighbors(e, D) <=> v \in [1 .. D -> Int] /\ \A i \in 1 .. D : Grid!Abs(v[i]) <= e.range
    BY <1>1, <2>1, MooreIs
  <2>3. QED
    BY <1>1, <1>3, <2>1, <2>2 DEF Names, Vectors, e, D
<1>4. CASE e.type = "von_neumann"
  <2>1. Grid!EntryNeighbors(e, D) = Grid!VonNeumannNeighborhood(D, e.range) /\ e.range \in Nat
    BY <1>1, <1>4 DEF Grid!EntryNeighbors, Grid!EntryAssumption
  <2>2. v \in Grid!EntryNeighbors(e, D) <=> v \in [1 .. D -> Int] /\ SizeOf(v, 1 .. D) <= e.range
    BY <1>1, <2>1, VonNeumannIs
  <2>3. QED
    BY <1>1, <1>4, <2>1, <2>2 DEF Names, Vectors, e, D
<1>5. e.type \in {"relative", "moore", "von_neumann"}
  BY <1>1 DEF Grid!EntryAssumption
<1>6. QED
  BY <1>2, <1>3, <1>4, <1>5

(* The default neighborhood.                                                  *)
LEMMA HoodIs ==
  ASSUME FileOK, DefaultOK
  PROVE  /\ NamedUpTo(default.neighborhood, file.list, Len(file.list), Len(file.shape))
         /\ \A v \in DOMAIN default.neighborhood :
              /\ v \in Vectors
              /\ \A i \in DOMAIN file.shape : v[i] \in (1 - file.shape[i]) .. (file.shape[i] - 1)
<1> DEFINE hood == default.neighborhood
           D == Len(file.shape)
<1>1. hood = Grid!ParseNeighborhood(file.list, D)
  BY DEF DefaultOK, Grid!DefaultConfig, Grid!Dimension, Grid!shape
<1>2. Grid!Fits(hood)
  BY DEF DefaultOK
<1>3. D \in Nat \ {0} /\ DOMAIN file.shape = 1 .. D /\ \A i \in 1 .. D : file.shape[i] \in Nat \ {0}
  BY ShapeIs DEF FileOK
<1> HIDE DEF hood
<1>4. NamedUpTo(hood, file.list, Len(file.list), D)
  BY <1>1, ParseIs DEF FileOK
<1>5. ASSUME NEW v \in DOMAIN hood
      PROVE  /\ v \in Vectors
             /\ \A i \in DOMAIN file.shape : v[i] \in (1 - file.shape[i]) .. (file.shape[i] - 1)
  <2>1. PICK k \in 1 .. Len(file.list) : v \in Names(file.list, k, D)
    BY <1>4 DEF NamedUpTo
  <2>2. v \in Seq(Int) \/ v \in Vectors
    BY <2>1, NamesAre
  <2>3. Len(v) = D /\ \A i \in 1 .. D : Grid!Abs(v[i]) < file.shape[i]
    BY <1>2, <1>3 DEF Grid!Fits, Grid!shape
  <2>4. v \in Vectors
    <3>1. ASSUME v \in Seq(Int)
          PROVE  v \in Vectors
      <4>1. DOMAIN v = 1 .. D /\ v \in [1 .. Len(v) -> Int]
        BY <2>3, <3>1, LenProperties
      <4>2. QED
        BY <1>3, <2>3, <4>1 DEF Vectors
    <3>2. QED
      BY <2>2, <3>1
  <2>5. ASSUME NEW i \in 1 .. D
        PROVE  v[i] \in (1 - file.shape[i]) .. (file.shape[i] - 1)
    <3> DEFINE n == file.shape[i]
               x == v[i]
    <3>1. n \in Nat \ {0} /\ x \in Int /\ Grid!Abs(x) < n
      BY <1>3, <2>3, <2>4 DEF Vectors
    <3> HIDE DEF n, x
    <3>2. x \in (1 - n) .. (n - 1)
      BY <3>1 DEF Grid!Abs
    <3>3. QED
      BY <3>2 DEF n, x
  <2>6. QED
    BY <1>3, <2>4, <2>5
<1>6. QED
  BY <1>4, <1>5 DEF hood

(* Where a vector of the neighborhood leads.                                  *)
LEMMA Leads ==
  ASSUME FileOK, DefaultOK, NEW c \in CellsOf(file.shape), NEW v \in DOMAIN default.neighborhood,
         NEW d \in CellsOf(file.shape),
         d = Grid!DestinationCell(c, v, file.shape, file.wrapped)
  PROVE  /\ \A i \in DOMAIN file.shape :
              Sizes(c, d, file.shape, file.wrapped)[i] <= Grid!Abs(v[i]) /\ Grid!Abs(v[i]) \in Nat
         /\ (\A i \in DOMAIN file.shape : 2 * Grid!Abs(v[i]) < file.shape[i]) =>
              Grid!DistanceVector(c, d, file.shape, file.wrapped) = v
<1> DEFINE sh == file.shape
           w == file.wrapped
<1>1. v \in Vectors /\ \A i \in DOMAIN sh : v[i] \in (1 - sh[i]) .. (sh[i] - 1)
  BY HoodIs
<1>2. Shaped(sh) /\ w \in BOOLEAN
  BY DEF FileOK
<1>3. d # Grid!Overflow
  BY <1>2, CellIs
<1>4. d = [i \in DOMAIN sh |-> Arrive(c[i], v[i], sh[i], w)]
  BY <1>1, <1>2, <1>3, DestinationIs
<1>5. Grid!DistanceVector(c, d, sh, w) = [i \in DOMAIN sh |-> Along(d[i] - c[i], sh[i], w)]
  BY <1>2, VectorIs
<1> HIDE DEF sh, w
<1>6. ASSUME NEW i \in DOMAIN sh
      PROVE  /\ Grid!Abs(Along(d[i] - c[i], sh[i], w)) <= Grid!Abs(v[i]) /\ Grid!Abs(v[i]) \in Nat
             /\ 2 * Grid!Abs(v[i]) < sh[i] => Along(d[i] - c[i], sh[i], w) = v[i]
  <2>1. /\ sh[i] \in Nat \ {0} /\ c[i] \in 0 .. sh[i] - 1 /\ d[i] \in 0 .. sh[i] - 1
    BY <1>2, CellIs, ShapeIs DEF sh
  <2>2. d[i] = Arrive(c[i], v[i], sh[i], w) /\ v[i] \in (1 - sh[i]) .. (sh[i] - 1)
    BY <1>1, <1>4
  <2>3. v[i] \in Int
    BY <2>1, <2>2
  <2>4. QED
    BY <1>2, <2>1, <2>2, <2>3, ArriveAlong, AbsIs
<1>7. \A i \in DOMAIN sh : Sizes(c, d, sh, w)[i] <= Grid!Abs(v[i]) /\ Grid!Abs(v[i]) \in Nat
  BY <1>6 DEF Sizes
<1>8. (\A i \in DOMAIN sh : 2 * Grid!Abs(v[i]) < sh[i]) => Grid!DistanceVector(c, d, sh, w) = v
  BY <1>1, <1>5, <1>6 DEF Vectors, sh
<1>9. QED
  BY <1>7, <1>8 DEF sh, w

-----------------------------------------------------------------------------
(* The invariant of making a lattice.                                         *)
Cells == CellsOf(file.shape)

Filled ==
  IF stage = "fill" THEN current \in Cells /\ DOMAIN configs = {c \in Cells : Before(c, current)}
  ELSE DOMAIN configs = Cells

Configured ==
  /\ specials \subseteq DOMAIN configs
  /\ \A c \in DOMAIN configs \ specials : configs[c] = default

Added ==
  /\ DOMAIN cells \subseteq DOMAIN configs
  /\ \A c \in DOMAIN cells : cells[c].neighborhood \in Grid!CellMaps(c)
  /\ stage \in {"fill", "special"} => DOMAIN cells = {}
  /\ stage = "add" => DOMAIN cells # DOMAIN configs
  /\ stage \in {"couple", "done"} => DOMAIN cells = DOMAIN configs

Coupled == stage = "done" => links = Grid!Links

GridInv ==
  /\ FileOK /\ DefaultOK /\ stage \in {"fill", "special", "add", "couple", "done"}
  /\ Filled /\ Configured /\ Added /\ Coupled

LEMMA OnceOK ==
  ASSUME GridInv
  PROVE  Grid!EachCellOnce
<1>1. Grid!Positions = Cells
  BY PositionsAre DEF GridInv, FileOK, Cells
<1>2. CASE stage = "fill"
  <2>1. current \in Cells /\ DOMAIN configs = {c \in Cells : Before(c, current)}
    BY <1>2 DEF GridInv, Filled
  <2>2. ~Before(current, current)
    BY <2>1, NotBeforeItself DEF GridInv, FileOK, Cells
  <2>3. QED
    BY <1>1, <1>2, <2>1, <2>2 DEF Grid!EachCellOnce
<1>3. CASE stage # "fill"
  BY <1>1, <1>3 DEF GridInv, Filled, Grid!EachCellOnce
<1>4. QED
  BY <1>2, <1>3

(* Who is a neighbor of a cell that was added.                                *)
LEMMA AddedNeighbors ==
  ASSUME GridInv, NEW c \in DOMAIN cells
  PROVE  LET hood == configs[c].neighborhood
             at(v) == Grid!DestinationCell(c, v, file.shape, file.wrapped)
         IN  /\ \A n : n \in DOMAIN cells[c].neighborhood
                         <=> n # Grid!Overflow /\ \E v \in DOMAIN hood : n = at(v)
             /\ \A n \in DOMAIN cells[c].neighborhood :
                  \E v \in DOMAIN hood : n = at(v) /\ cells[c].neighborhood[n] = hood[v]
<1> DEFINE hood == configs[c].neighborhood
           at(v) == Grid!DestinationCell(c, v, file.shape, file.wrapped)
           near == {at(v) : v \in DOMAIN hood} \ {Grid!Overflow}
           map == cells[c].neighborhood
<1>1. map \in Grid!CellMaps(c)
  BY DEF GridInv, Added
<1>2. Grid!CellMaps(c)
        = {m \in [near -> Grid!Range(hood)] :
             \A a \in near : m[a] \in {hood[v] : v \in {x \in DOMAIN hood : at(x) = a}}}
  BY DEF Grid!CellMaps, Grid!shape, Grid!wrapped
<1> HIDE DEF at, hood, map
<1>3. DOMAIN map = near /\ \A a \in near : map[a] \in {hood[v] : v \in {x \in DOMAIN hood : at(x) = a}}
  BY <1>1, <1>2
<1>4. \A n \in DOMAIN map : \E v \in DOMAIN hood : n = at(v) /\ map[n] = hood[v]
  BY <1>3
<1>5. \A n : n \in DOMAIN map <=> n # Grid!Overflow /\ \E v \in DOMAIN hood : n = at(v)
  BY <1>3
<1>6. QED
  BY <1>4, <1>5 DEF map, hood, at

(* Linked to exactly the cells within the range.                              *)
LEMMA LinkedOK ==
  ASSUME GridInv
  PROVE  Grid!LinkedWithinRange
<1> DEFINE sh == file.shape
           w == file.wrapped
           e == file.list[1]
           hood == default.neighborhood
<1>1. Shaped(sh) /\ w \in BOOLEAN /\ Grid!Positions = Cells /\ FileOK /\ DefaultOK
  BY PositionsAre DEF GridInv, FileOK, Cells
<1> SUFFICES ASSUME stage = "done", Len(file.list) = 1, e.type # "relative",
                    NEW to \in Cells, configs[to].neighborhood = hood
             PROVE  {from \in Cells : <<from, to>> \in links}
                      = {from \in Cells : Grid!DistanceOf(e, to, from) <= e.range}
  BY <1>1 DEF Grid!LinkedWithinRange
<1>2. DOMAIN cells = Cells /\ links = Grid!Links
  BY DEF GridInv, Filled, Added, Coupled
<1>3. \A from \in Cells : <<from, to>> \in links <=> from \in DOMAIN cells[to].neighborhood
  <2>1. links = UNION {{<<from, x>> : from \in DOMAIN cells[x].neighborhood} : x \in Cells}
    BY <1>2 DEF Grid!Links
  <2>2. QED
    BY <2>1
<1>4. \A from \in Cells : from \in DOMAIN cells[to].neighborhood
                            <=> \E v \in DOMAIN hood : from = Grid!DestinationCell(to, v, sh, w)
  <2>1. \A from \in Cells : from # Grid!Overflow
    BY <1>1, CellIs DEF Cells
  <2>2. QED
    BY <1>2, <2>1, AddedNeighbors
<1>5. 1 \in 1 .. Len(file.list) /\ 1 .. Len(file.list) = {1}
  OBVIOUS
<1>6. \A v : v \in DOMAIN hood <=> v \in Names(file.list, 1, Len(sh))
  BY <1>1, <1>5, HoodIs DEF NamedUpTo
<1>7. /\ e.type = "moore" \/ e.type = "von_neumann"
      /\ e.range \in Nat
      /\ e.type = "moore" => \A v : v \in DOMAIN hood <=>
           v \in Vectors /\ \A i \in DOMAIN sh : Grid!Abs(v[i]) <= e.range
      /\ e.type = "von_neumann" => \A v : v \in DOMAIN hood <=>
           v \in Vectors /\ SizeOf(v, DOMAIN sh) <= e.range
  BY <1>1, <1>5, <1>6, NamesAre
<1>8. ASSUME NEW from \in Cells
      PROVE  (\E v \in DOMAIN hood : from = Grid!DestinationCell(to, v, sh, w))
               <=> Grid!DistanceOf(e, to, from) <= e.range
  <2> DEFINE f == Sizes(to, from, sh, w)
             u == Grid!DistanceVector(to, from, sh, w)
  <2>1. to \in CellsOf(sh) /\ from \in CellsOf(sh)
    BY DEF Cells
  <2>2. from = Grid!DestinationCell(to, u, sh, w)
    BY <1>1, <2>1, DestinationBack
  <2>3. u \in Vectors /\ \A i \in DOMAIN sh : Grid!Abs(u[i]) = f[i] /\ f[i] \in Nat
    <3>1. u = [i \in DOMAIN sh |-> Along(from[i] - to[i], sh[i], w)]
      BY <1>1, <2>1, VectorIs
    <3>2. \A i \in DOMAIN sh : u[i] \in (1 - sh[i]) .. (sh[i] - 1) /\ sh[i] \in Nat \ {0}
      BY <1>1, <2>1, VectorIs, ShapeIs
    <3>3. \A i \in DOMAIN sh : f[i] \in Nat
      BY <1>1, <2>1, SizesAre
    <3>4. \A i \in DOMAIN sh : f[i] = Grid!Abs(u[i])
      BY <3>1 DEF Sizes
    <3> HIDE DEF u, f
    <3>5. \A i \in DOMAIN sh : u[i] \in Int
      BY <3>2
    <3>6. u \in Vectors
      BY <3>1, <3>5 DEF Vectors
    <3>7. QED
      BY <3>3, <3>4, <3>6
  <2>4. ASSUME NEW v \in DOMAIN hood, from = Grid!DestinationCell(to, v, sh, w)
        PROVE  \A i \in DOMAIN sh : f[i] <= Grid!Abs(v[i]) /\ Grid!Abs(v[i]) \in Nat
    BY <1>1, <2>1, <2>4, Leads
  <2>5. IsFiniteSet(DOMAIN sh)
    BY <1>1, ShapeIs
  <2>6. CASE e.type = "moore"
    <3> DEFINE k == Grid!ChebyshevDistance(to, from, sh, w)
    <3>1. Grid!DistanceOf(e, to, from) = k
      BY <2>6 DEF Grid!DistanceOf, Grid!shape, Grid!wrapped
    <3>2. k \in Nat /\ (k = 0 \/ \E i \in DOMAIN sh : k = f[i]) /\ \A i \in DOMAIN sh : f[i] <= k
      BY <1>1, <2>1, ChebyshevIs
    <3> HIDE DEF k, f, u, e, hood
    <3>3. ASSUME NEW v \in DOMAIN hood, from = Grid!DestinationCell(to, v, sh, w)
          PROVE  k <= e.range
      <4>1. \A i \in DOMAIN sh : f[i] <= Grid!Abs(v[i]) /\ Grid!Abs(v[i]) \in Nat
                                 /\ Grid!Abs(v[i]) <= e.range /\ f[i] \in Nat
        BY <1>7, <2>3, <2>4, <2>6, <3>3
      <4>2. \A i \in DOMAIN sh : f[i] <= e.range
        BY <1>7, <4>1
      <4>3. QED
        BY <1>7, <3>2, <4>2
    <3>4. ASSUME k <= e.range
          PROVE  u \in DOMAIN hood
      <4>1. \A i \in DOMAIN sh : f[i] <= e.range
        BY <1>7, <2>3, <3>2, <3>4
      <4>2. QED
        BY <1>7, <2>3, <2>6, <4>1
    <3>5. QED
      BY <2>2, <3>1, <3>3, <3>4
  <2>7. CASE e.type = "von_neumann"
    <3> DEFINE m == Grid!ManhattanDistance(to, from, sh, w)
               D == DOMAIN sh
    <3>1. Grid!DistanceOf(e, to, from) = m
      BY <2>7 DEF Grid!DistanceOf, Grid!shape, Grid!wrapped
    <3>2. m = SumFunctionOnSet(f, D) /\ m \in Nat
      BY <1>1, <2>1, ManhattanIs
    <3> HIDE DEF m, f, u, e, hood
    <3>3. ASSUME NEW v \in DOMAIN hood, from = Grid!DestinationCell(to, v, sh, w)
          PROVE  m <= e.range
      <4> DEFINE g == [i \in D |-> Grid!Abs(v[i])]
      <4>1. \A i \in D : f[i] \in Nat /\ g[i] \in Nat /\ f[i] <= g[i]
        BY <2>3, <2>4, <3>3
      <4>2. SizeOf(v, D) = SumFunctionOnSet(g, D) /\ SizeOf(v, D) <= e.range
        BY <1>7, <2>7 DEF SizeOf
      <4> HIDE DEF g, D
      <4>3. SumFunctionOnSet(f, D) <= SumFunctionOnSet(g, D)
        BY <2>5, <4>1, SumBelow DEF D
      <4>4. SumFunctionOnSet(g, D) \in Nat
        BY <2>5, <4>1, SumNat DEF D
      <4>5. QED
        BY <1>7, <3>2, <4>2, <4>3, <4>4
    <3>4. ASSUME m <= e.range
          PROVE  u \in DOMAIN hood
      <4> DEFINE g == [i \in D |-> Grid!Abs(u[i])]
      <4>1. \A i \in D : f[i] \in Nat /\ g[i] = f[i]
        BY <2>3
      <4>2. SizeOf(u, D) = SumFunctionOnSet(g, D)
        BY DEF SizeOf
      <4> HIDE DEF g, D
      <4>3. SumFunctionOnSet(g, D) = SumFunctionOnSet(f, D)
        BY <2>5, <4>1, SumSame DEF D
      <4>4. QED
        BY <1>7, <2>3, <2>7, <3>2, <3>4, <4>2, <4>3 DEF D
    <3>5. QED
      BY <2>2, <3>1, <3>3, <3>4
  <2>8. QED
    BY <1>7, <2>6, <2>7
<1>9. QED
  BY <1>3, <1>4, <1>8

-----------------------------------------------------------------------------
(* The vicinity of the last entry.                                            *)
Covers(entry, v) ==
  IF entry.type = "relative" THEN v \in entry.neighbors
  ELSE IF entry.type = "moore" THEN Grid!Max({Grid!Abs(v[i]) : i \in DOMAIN v}) <= entry.range
       ELSE Grid!SumFunction([i \in DOMAIN v |-> Grid!Abs(v[i])]) <= entry.range

LEMMA CoversIs ==
  ASSUME FileOK, NEW k \in 1 .. Len(file.list), NEW v \in Vectors
  PROVE  Covers(file.list[k], v) <=> v \in Names(file.list, k, Len(file.shape))
<1> DEFINE e == file.list[k]
           D == DOMAIN file.shape
<1>1. /\ e.type = "relative" => (v \in Names(file.list, k, Len(file.shape)) <=> v \in e.neighbors)
      /\ e.type = "moore" => (v \in Names(file.list, k, Len(file.shape))
                                <=> v \in Vectors /\ \A i \in D : Grid!Abs(v[i]) <= e.range)
      /\ e.type = "von_neumann" =>
           (v \in Names(file.list, k, Len(file.shape)) <=> v \in Vectors /\ SizeOf(v, D) <= e.range)
      /\ e.type \in {"relative", "moore", "von_neumann"}
      /\ e.type # "relative" => e.range \in Nat
  BY NamesAre
<1>2. DOMAIN v = D /\ D # {} /\ IsFiniteSet(D) /\ \A i \in D : v[i] \in Int
  BY ShapeIs DEF FileOK, Vectors
<1> HIDE DEF e, D
<1>3. CASE e.type = "relative"
  BY <1>1, <1>3 DEF Covers, e
<1>4. CASE e.type = "moore"
  <2> DEFINE f == [i \in D |-> Grid!Abs(v[i])]
             S == {f[i] : i \in D}
  <2>1. S = {Grid!Abs(v[i]) : i \in DOMAIN v}
    BY <1>2
  <2>2. \A i \in D : f[i] \in Nat /\ f[i] = Grid!Abs(v[i])
    BY <1>2, AbsIs
  <2> HIDE DEF f
  <2>3. IsFiniteSet(S)
    BY <1>2, ValuesFinite
  <2>4. S # {} /\ S \subseteq Int
    BY <1>2, <2>2
  <2>5. Grid!Max(S) \in S /\ \A y \in S : y <= Grid!Max(S)
    <3> HIDE DEF S
    <3>1. QED
      BY <2>3, <2>4, GreatestOf
  <2> DEFINE x == Grid!Max(S)
  <2>6. x \in S /\ \A y \in S : y <= x
    BY <2>5
  <2>7. Covers(e, v) <=> x <= e.range
    BY <1>4, <2>1 DEF Covers
  <2> HIDE DEF x
  <2>8. e.range \in Nat /\ x \in Int
    BY <1>1, <1>4, <2>4, <2>6
  <2>9. x <= e.range <=> \A i \in D : f[i] <= e.range
    <3>1. ASSUME x <= e.range, NEW i \in D
          PROVE  f[i] <= e.range
      <4>1. f[i] \in S
        OBVIOUS
      <4>2. f[i] <= x /\ f[i] \in Nat
        BY <2>2, <2>6, <4>1
      <4>3. QED
        BY <2>8, <3>1, <4>2
    <3>2. ASSUME \A i \in D : f[i] <= e.range
          PROVE  x <= e.range
      BY <2>6, <3>2
    <3>3. QED
      BY <3>1, <3>2
  <2>10. QED
    BY <1>1, <1>4, <2>2, <2>7, <2>9 DEF e
<1>5. CASE e.type = "von_neumann"
  <2> DEFINE f == [i \in DOMAIN v |-> Grid!Abs(v[i])]
  <2>1. f = [i \in D |-> Grid!Abs(v[i])] /\ DOMAIN f = D
    BY <1>2
  <2>2. Covers(e, v) <=> Grid!SumFunction(f) <= e.range
    BY <1>5 DEF Covers
  <2> HIDE DEF f
  <2>3. Grid!SumFunction(f) = SumFunctionOnSet(f, DOMAIN f)
    BY GridSum
  <2>4. Grid!SumFunction(f) = SizeOf(v, D)
    BY <2>1, <2>3 DEF SizeOf
  <2>5. QED
    BY <1>1, <1>5, <2>2, <2>4 DEF e
<1>6. QED
  BY <1>1, <1>3, <1>4, <1>5

LEMMA VicinityOK ==
  ASSUME GridInv
  PROVE  Grid!VicinityOfLast
<1> DEFINE sh == file.shape
           w == file.wrapped
           hood == default.neighborhood
           list == file.list
           Covering(v) == {k \in DOMAIN list : Covers(list[k], v)}
<1>1. Shaped(sh) /\ w \in BOOLEAN /\ Grid!Positions = Cells /\ FileOK /\ DefaultOK
  BY PositionsAre DEF GridInv, FileOK, Cells
<1>2. ASSUME stage = "done", \A v \in DOMAIN hood : \A i \in DOMAIN v : 2 * Grid!Abs(v[i]) < sh[i],
             NEW c \in Cells \ specials, NEW n \in DOMAIN cells[c].neighborhood
      PROVE  LET v == Grid!DistanceVector(c, n, sh, w)
             IN  /\ Covering(v) # {}
                 /\ cells[c].neighborhood[n] = list[Grid!Max(Covering(v))].vicinity
  <2>1. c \in DOMAIN cells /\ configs[c] = default
    BY <1>2 DEF GridInv, Filled, Added, Configured
  <2>2. PICK v \in DOMAIN hood : /\ n = Grid!DestinationCell(c, v, sh, w)
                                 /\ cells[c].neighborhood[n] = hood[v]
    BY <2>1, AddedNeighbors
  <2>3. v \in Vectors /\ \A i \in DOMAIN sh : v[i] \in (1 - sh[i]) .. (sh[i] - 1)
    BY <1>1, HoodIs
  <2>4. n \in CellsOf(sh) /\ c \in CellsOf(sh)
    <3>1. n # Grid!Overflow
      BY <2>1, AddedNeighbors
    <3>2. c \in CellsOf(sh)
      BY DEF Cells
    <3> DEFINE d == Grid!DestinationCell(c, v, sh, w)
               x == [i \in DOMAIN sh |-> Arrive(c[i], v[i], sh[i], w)]
    <3>3. \/ d = Grid!Overflow /\ x \notin CellsOf(sh)
          \/ d = x /\ x \in CellsOf(sh)
      <4>1. Shaped(sh) /\ w \in BOOLEAN /\ \A i \in DOMAIN sh : v[i] \in (1 - sh[i]) .. (sh[i] - 1)
        BY <1>1, <2>3
      <4> HIDE DEF sh, w
      <4>2. QED
        BY ONLY <3>2, <4>1, DestinationIs
    <3>4. QED
      BY <2>2, <3>1, <3>2, <3>3
  <2>5. \A i \in DOMAIN sh : 2 * Grid!Abs(v[i]) < sh[i]
    BY <1>2, <2>3 DEF Vectors
  <2>6. Grid!DistanceVector(c, n, sh, w) = v
    BY <1>1, <2>2, <2>4, <2>5, Leads
  <2>7. DOMAIN list = 1 .. Len(list) /\ Len(list) \in Nat
    BY <1>1 DEF FileOK
  <2>8. PICK k \in 1 .. Len(list) : /\ v \in Names(list, k, Len(sh)) /\ hood[v] = list[k].vicinity
                                    /\ \A j \in 1 .. Len(list) : v \in Names(list, j, Len(sh)) => j <= k
    BY <1>1, HoodIs DEF NamedUpTo
  <2>9. \A j \in 1 .. Len(list) : Covers(list[j], v) <=> v \in Names(list, j, Len(sh))
    BY <1>1, <2>3, CoversIs
  <2> DEFINE S == Covering(v)
  <2>10. k \in S /\ (\A j \in S : j <= k) /\ S \subseteq 1 .. Len(list)
    BY <2>7, <2>8, <2>9
  <2>11. IsFiniteSet(S) /\ S # {} /\ S \subseteq Int
    <3>1. IsFiniteSet(1 .. Len(list)) /\ 1 .. Len(list) \subseteq Int
      BY <2>7, FS_Interval
    <3> HIDE DEF S
    <3>2. QED
      BY <2>10, <3>1, FS_Subset
  <2> HIDE DEF S
  <2>12. Grid!Max(S) = k
    <3>1. Grid!Max(S) \in S /\ \A y \in S : y <= Grid!Max(S)
      BY <2>11, GreatestOf
    <3> DEFINE x == Grid!Max(S)
    <3>2. x \in S /\ k <= x /\ x <= k /\ x \in Int /\ k \in Int
      BY <2>10, <2>11, <3>1
    <3> HIDE DEF x
    <3>3. x = k
      BY <3>2
    <3>4. QED
      BY <3>3 DEF x
  <2>13. QED
    BY <2>2, <2>6, <2>8, <2>10, <2>12 DEF S
<1>3. Grid!VicinityOfLast <=>
        (stage = "done" /\ (\A v \in DOMAIN hood : \A i \in DOMAIN v : 2 * Grid!Abs(v[i]) < sh[i]) =>
          \A c \in Cells \ specials : \A n \in DOMAIN cells[c].neighborhood :
            LET v == Grid!DistanceVector(c, n, sh, w)
            IN  /\ Covering(v) # {}
                /\ cells[c].neighborhood[n] = list[Grid!Max(Covering(v))].vicinity)
  BY <1>1 DEF Grid!VicinityOfLast, Grid!shape, Grid!wrapped, Covers
<1>4. QED
  BY <1>2, <1>3


-----------------------------------------------------------------------------
(* Each step of making a lattice keeps the invariant.                         *)
LEMMA LatticeStarts ==
  ASSUME Grid!Init
  PROVE  GridInv
<1>1. PICK x \in Scenarios, w \in BOOLEAN : file = [shape |-> x.shape, wrapped |-> w, list |-> x.list]
  BY DEF Grid!Init
<1>2. /\ x.shape \in Seq(Nat \ {0}) \ {<<>>} /\ x.list \in Seq(Grid!Range(x.list))
      /\ \A entry \in Grid!Range(x.list) : Grid!EntryAssumption(entry)
  BY ModelsAssumption DEF Grid!GridAssumption
<1>3. file.shape = x.shape /\ file.wrapped = w /\ file.list = x.list
  BY <1>1
<1>4. /\ Len(x.list) \in Nat /\ DOMAIN x.list = 1 .. Len(x.list)
      /\ \A k \in 1 .. Len(x.list) : x.list[k] \in Grid!Range(x.list)
  BY <1>2
<1>5. FileOK
  BY <1>2, <1>3, <1>4 DEF FileOK, Shaped
<1>6. DefaultOK
  BY DEF Grid!Init, DefaultOK
<1>7. stage = "fill" /\ configs = <<>> /\ specials = {} /\ cells = <<>> /\ current = Grid!Origin(file.shape)
  BY DEF Grid!Init, Grid!shape
<1>8. DOMAIN configs = {} /\ DOMAIN cells = {}
  BY <1>7
<1>9. Filled
  <2>1. current \in Cells /\ \A c \in Cells : ~Before(c, current)
    BY <1>5, <1>7, OriginIs DEF FileOK, Cells
  <2>2. QED
    BY <1>7, <1>8, <2>1 DEF Filled
<1>10. Configured /\ Added /\ Coupled
  BY <1>7, <1>8 DEF Configured, Added, Coupled
<1>11. QED
  BY <1>5, <1>6, <1>7, <1>9, <1>10 DEF GridInv

LEMMA FileStays ==
  ASSUME FileOK, DefaultOK, file' = file, default' = default
  PROVE  FileOK' /\ DefaultOK' /\ Cells' = Cells
<1>1. FileOK' /\ Cells' = Cells
  BY DEF FileOK, Cells
<1>2. Grid!DefaultConfig' = Grid!DefaultConfig
  BY DEF Grid!DefaultConfig, Grid!Dimension, Grid!shape
<1>3. Grid!Fits(default.neighborhood)' <=> Grid!Fits(default.neighborhood)
  BY DEF Grid!Fits, Grid!shape
<1>4. QED
  BY <1>1, <1>2, <1>3 DEF DefaultOK

LEMMA FillKeeps ==
  ASSUME GridInv, Grid!SetInitialConfig
  PROVE  GridInv'
<1>1. /\ stage = "fill" /\ stage' = (IF current' = Grid!Overflow THEN "special" ELSE "fill")
      /\ current' = Grid!NextCell(current, file.shape)
      /\ configs' = [c \in DOMAIN configs \cup {current} |-> IF c = current THEN default ELSE configs[c]]
      /\ file' = file /\ default' = default /\ specials' = specials /\ cells' = cells
  BY DEF Grid!SetInitialConfig, Grid!shape
<1>2. FileOK' /\ DefaultOK' /\ Cells' = Cells
  BY <1>1, FileStays DEF GridInv
<1>3. current \in Cells /\ DOMAIN configs = {c \in Cells : Before(c, current)}
  BY <1>1 DEF GridInv, Filled
<1>4. DOMAIN configs' = DOMAIN configs \cup {current}
  BY <1>1
<1>5. Filled'
  <2>1. \/ current' = Grid!Overflow /\ \A d \in Cells : d = current \/ Before(d, current)
        \/ current' \in Cells /\ \A d \in Cells : Before(d, current') <=> d = current \/ Before(d, current)
    BY <1>1, <1>3, NextIs DEF GridInv, FileOK, Cells
  <2>2. current' \in Cells => current' # Grid!Overflow
    BY CellIs DEF GridInv, FileOK, Cells
  <2>3. CASE current' = Grid!Overflow
    BY <1>1, <1>2, <1>3, <1>4, <2>1, <2>2, <2>3 DEF Filled
  <2>4. CASE current' # Grid!Overflow
    <3>1. stage' = "fill" /\ current' \in Cells
      BY <1>1, <2>1, <2>4
    <3>2. DOMAIN configs' = {c \in Cells : Before(c, current')}
      BY <1>3, <1>4, <2>1, <2>4
    <3>3. QED
      BY <1>2, <3>1, <3>2 DEF Filled
  <2>5. QED
    BY <2>3, <2>4
<1>6. Configured'
  <2>1. specials \subseteq DOMAIN configs /\ \A c \in DOMAIN configs \ specials : configs[c] = default
    BY DEF GridInv, Configured
  <2>2. \A c \in DOMAIN configs' \ specials : configs'[c] = default
    BY <1>1, <1>4, <2>1
  <2>3. QED
    BY <1>1, <1>4, <2>1, <2>2 DEF Configured
<1>7. DOMAIN cells' = {}
  BY <1>1 DEF GridInv, Added
<1>8. Added' /\ Coupled'
  BY <1>1, <1>7 DEF Added, Coupled
<1>9. QED
  BY <1>1, <1>2, <1>5, <1>6, <1>8 DEF GridInv

LEMMA SpecialKeeps ==
  ASSUME GridInv, NEW c \in DOMAIN configs, NEW description \in Special,
         Grid!SetSpecialConfig(c, description)
  PROVE  GridInv'
<1> DEFINE new == Grid!CellConfig(description)
<1>1. /\ stage = "special" /\ stage' = "special"
      /\ configs' = [configs EXCEPT ![c] = new] /\ specials' = specials \cup {c}
      /\ file' = file /\ default' = default /\ cells' = cells
  BY DEF Grid!SetSpecialConfig
<1> HIDE DEF new
<1>2. FileOK' /\ DefaultOK' /\ Cells' = Cells
  BY <1>1, FileStays DEF GridInv
<1>3. DOMAIN configs' = DOMAIN configs /\ DOMAIN configs = Cells
  BY <1>1 DEF GridInv, Filled
<1>4. Filled'
  BY <1>1, <1>2, <1>3 DEF Filled
<1>5. Configured'
  <2>1. specials \subseteq DOMAIN configs /\ \A d \in DOMAIN configs \ specials : configs[d] = default
    BY DEF GridInv, Configured
  <2>2. \A d \in DOMAIN configs' \ specials' : configs'[d] = default
    BY <1>1, <1>3, <2>1
  <2>3. QED
    BY <1>1, <1>3, <2>1, <2>2 DEF Configured
<1>6. DOMAIN cells' = {}
  BY <1>1 DEF GridInv, Added
<1>7. Added' /\ Coupled'
  BY <1>1, <1>6 DEF Added, Coupled
<1>8. QED
  BY <1>1, <1>2, <1>4, <1>5, <1>7 DEF GridInv

LEMMA EndKeeps ==
  ASSUME GridInv, Grid!EndSpecials
  PROVE  GridInv'
<1>1. /\ stage = "special" /\ stage' = "add"
      /\ configs' = configs /\ specials' = specials /\ file' = file /\ default' = default /\ cells' = cells
  BY DEF Grid!EndSpecials
<1>2. FileOK' /\ DefaultOK' /\ Cells' = Cells
  BY <1>1, FileStays DEF GridInv
<1>3. DOMAIN configs = Cells /\ DOMAIN cells = {}
  BY <1>1 DEF GridInv, Filled, Added
<1>4. Cells # {}
  BY OriginIs DEF GridInv, FileOK, Cells
<1>5. Filled' /\ Configured'
  BY <1>1, <1>2, <1>3 DEF GridInv, Filled, Configured
<1>6. Added' /\ Coupled'
  BY <1>1, <1>3, <1>4 DEF Added, Coupled
<1>7. QED
  BY <1>1, <1>2, <1>5, <1>6 DEF GridInv

LEMMA MapsStay ==
  ASSUME file' = file, configs' = configs
  PROVE  \A c : Grid!CellMaps(c)' = Grid!CellMaps(c)
BY DEF Grid!CellMaps, Grid!shape, Grid!wrapped

LEMMA AddKeeps ==
  ASSUME GridInv, Grid!AddCell
  PROVE  GridInv'
<1> DEFINE c == CHOOSE d \in DOMAIN configs : d \notin DOMAIN cells
<1>1. PICK map \in Grid!CellMaps(c) :
        cells' = [d \in DOMAIN cells \cup {c} |->
                   IF d = c THEN [state |-> configs[c].state, neighborhood |-> map] ELSE cells[d]]
  BY DEF Grid!AddCell
<1>2. /\ stage = "add" /\ stage' = (IF DOMAIN cells' = DOMAIN configs THEN "couple" ELSE "add")
      /\ configs' = configs /\ specials' = specials /\ file' = file /\ default' = default
  BY DEF Grid!AddCell
<1>3. /\ DOMAIN cells \subseteq DOMAIN configs /\ DOMAIN cells # DOMAIN configs
      /\ \A d \in DOMAIN cells : cells[d].neighborhood \in Grid!CellMaps(d)
  BY <1>2 DEF GridInv, Added
<1>4. c \in DOMAIN configs /\ c \notin DOMAIN cells
  BY <1>3
<1> HIDE DEF c
<1>5. FileOK' /\ DefaultOK' /\ Cells' = Cells
  BY <1>2, FileStays DEF GridInv
<1>6. Filled' /\ Configured'
  BY <1>2, <1>5 DEF GridInv, Filled, Configured
<1>7. DOMAIN cells' = DOMAIN cells \cup {c}
  BY <1>1
<1>8. \A d \in DOMAIN cells' : cells'[d].neighborhood \in Grid!CellMaps(d)
  BY <1>1, <1>3, <1>7
<1>9. \A d \in DOMAIN cells' : cells'[d].neighborhood \in Grid!CellMaps(d)'
  BY <1>2, <1>8, MapsStay
<1>10. Added' /\ Coupled'
  BY <1>2, <1>3, <1>4, <1>7, <1>9 DEF Added, Coupled
<1>11. QED
  BY <1>2, <1>5, <1>6, <1>10 DEF GridInv

LEMMA CoupleKeeps ==
  ASSUME GridInv, Grid!CoupleCells
  PROVE  GridInv'
<1>1. /\ stage = "couple" /\ stage' = "done" /\ links' = Grid!Links
      /\ configs' = configs /\ specials' = specials /\ file' = file /\ default' = default /\ cells' = cells
  BY DEF Grid!CoupleCells
<1>2. FileOK' /\ DefaultOK' /\ Cells' = Cells
  BY <1>1, FileStays DEF GridInv
<1>3. Filled' /\ Configured'
  BY <1>1, <1>2 DEF GridInv, Filled, Configured
<1>4. Added'
  <2>1. \A c : Grid!CellMaps(c)' = Grid!CellMaps(c)
    BY <1>1, MapsStay
  <2>2. QED
    BY <1>1, <2>1 DEF GridInv, Added
<1>5. Coupled'
  <2>1. Grid!Links' = Grid!Links
    BY <1>1 DEF Grid!Links
  <2>2. QED
    BY <1>1, <2>1 DEF Coupled
<1>6. QED
  BY <1>1, <1>2, <1>3, <1>4, <1>5 DEF GridInv

LEMMA LatticeStays ==
  ASSUME GridInv, UNCHANGED g_vars
  PROVE  GridInv'
<1>1. /\ stage' = stage /\ links' = links /\ current' = current /\ configs' = configs
      /\ specials' = specials /\ file' = file /\ default' = default /\ cells' = cells
  BY DEF g_vars
<1>2. FileOK' /\ DefaultOK' /\ Cells' = Cells
  BY <1>1, FileStays DEF GridInv
<1>3. Filled' /\ Configured'
  BY <1>1, <1>2 DEF GridInv, Filled, Configured
<1>4. Added'
  <2>1. \A c : Grid!CellMaps(c)' = Grid!CellMaps(c)
    BY <1>1, MapsStay
  <2>2. QED
    BY <1>1, <2>1 DEF GridInv, Added
<1>5. Coupled'
  <2>1. Grid!Links' = Grid!Links
    BY <1>1 DEF Grid!Links
  <2>2. QED
    BY <1>1, <2>1 DEF GridInv, Coupled
<1>6. QED
  BY <1>1, <1>2, <1>3, <1>4, <1>5 DEF GridInv

LEMMA LatticeKeeps ==
  ASSUME GridInv, Grid!Next
  PROVE  GridInv'
<1>1. CASE Grid!SetInitialConfig
  BY <1>1, FillKeeps
<1>2. CASE Grid!EndSpecials
  BY <1>2, EndKeeps
<1>3. CASE Grid!AddCell
  BY <1>3, AddKeeps
<1>4. CASE Grid!CoupleCells
  BY <1>4, CoupleKeeps
<1>5. CASE \E c \in DOMAIN configs, description \in Special : Grid!SetSpecialConfig(c, description)
  BY <1>5, SpecialKeeps
<1>6. QED
  BY <1>1, <1>2, <1>3, <1>4, <1>5 DEF Grid!Next

(* While a lattice is made, its part's invariant holds.                       *)
LatticePart == part = "grid" => GridInv

LEMMA LatticeStart ==
  ASSUME ModelsInit
  PROVE  LatticePart
BY LatticeStarts DEF ModelsInit, LatticePart

LEMMA LatticeStep ==
  ASSUME LatticePart, [ModelsNext]_<<part, vars, g_vars, b_vars, s_vars, c_vars>>
  PROVE  LatticePart'
<1>1. part' = part /\ (part = "grid" => UNCHANGED g_vars \/ Grid!Next)
  BY DEF ModelsNext
<1>2. QED
  BY <1>1, LatticeKeeps, LatticeStays DEF LatticePart

(* A lattice has each cell of its shape once, and a cell with the default     *)
(* neighborhood is linked from exactly the cells within the range of the      *)
(* file's only entry, around the edges too: Models!LinkedWithinRange.         *)
THEOREM LinkedWithinRangeAlways == ModelsSpec => []LinkedWithinRange
<1>1. ModelsInit => LatticePart
  BY LatticeStart
<1>2. LatticePart /\ [ModelsNext]_<<part, vars, g_vars, b_vars, s_vars, c_vars>> => LatticePart'
  BY LatticeStep
<1>3. LatticePart => LinkedWithinRange
  BY OnceOK, LinkedOK DEF LatticePart, LinkedWithinRange
<1>4. QED
  BY <1>1, <1>2, <1>3, PTL DEF ModelsSpec

(* A neighbor has the vicinity of the last entry of the file's list that      *)
(* covers its position, however the entries overlap: Models!VicinityOfLast.   *)
THEOREM VicinityOfLastAlways == ModelsSpec => []VicinityOfLast
<1>1. ModelsInit => LatticePart
  BY LatticeStart
<1>2. LatticePart /\ [ModelsNext]_<<part, vars, g_vars, b_vars, s_vars, c_vars>> => LatticePart'
  BY LatticeStep
<1>3. LatticePart => VicinityOfLast
  BY VicinityOK DEF LatticePart, VicinityOfLast
<1>4. QED
  BY <1>1, <1>2, <1>3, PTL DEF ModelsSpec

(* On a lattice of any shape, wrapped or not, the distances are symmetric,    *)
(* keep the triangle inequality and the order Chebyshev, Euclid, Manhattan,   *)
(* and the distance vector leads back: Models!DistancesAreMetrics.            *)
THEOREM DistancesAreMetricsAlways == ModelsSpec => []DistancesAreMetrics
<1>1. ModelsInit => LatticePart
  BY LatticeStart
<1>2. LatticePart /\ [ModelsNext]_<<part, vars, g_vars, b_vars, s_vars, c_vars>> => LatticePart'
  BY LatticeStep
<1>3. LatticePart => DistancesAreMetrics
  BY MetricsOK DEF LatticePart, DistancesAreMetrics, GridInv, FileOK
<1>4. QED
  BY <1>1, <1>2, <1>3, PTL DEF ModelsSpec
=============================================================================
