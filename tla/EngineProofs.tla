---------------------------- MODULE EngineProofs ----------------------------
(***************************************************************************)
(* Theorems about the engine, for any tree of models, any couplings and    *)
(* any time advances: no engine is asked for a time beyond its next event, *)
(* the next event is known at every level, no message is left behind, the  *)
(* loops call each engine once, and the engines do what FlatEngine         *)
(* promises: the static one whatever the couplings are, the dynamic one    *)
(* where each port has one link.                                           *)
(***************************************************************************)
EXTENDS Engines, DataLemmas

Stage == {"todo", "running", "done"}
Bag   == [Message -> Nat]
Box   == UNION {[S -> Bag] : S \in SUBSET Port}

LEMMA ChildrenAreModels ==
  /\ Top \in Model
  /\ \A c \in Coupled : c \in Model /\ Children[c] \subseteq Model
<1>1. ASSUME NEW c \in Coupled, NEW s \in Children[c] PROVE s \in Model
  BY DEF Model, Atomic
<1>2. QED
  BY <1>1, TreeAssumption DEF Model

LEMMA LeastIn ==
  ASSUME NEW S \in SUBSET Nat, S # {}
  PROVE  Least(S) \in S /\ \A x \in S : Least(S) <= x
BY LeastNat DEF Least

(* What holds of the topmost model, and of the submodels of each coupled one  *)
(* that it holds of, holds of all models.                                     *)
LEMMA FromTheTop ==
  ASSUME NEW S, Top \in S, \A c \in Coupled \cap S : Children[c] \subseteq S
  PROVE  Model \subseteq S
<1>1. PICK depth \in [Model -> 0 .. Cardinality(Coupled)] :
        \A c \in Coupled : \A s \in Children[c] : depth[c] < depth[s]
  BY TreeAssumption
<1>2. Cardinality(Coupled) \in Nat
  BY TreeAssumption, FS_CardinalityType
<1> DEFINE Rest == {k \in Nat : \E m \in Model \ S : depth[m] = k}
<1>3. ASSUME Rest # {} PROVE FALSE
  <2>1. PICK k \in Rest : \A j \in Rest : k <= j
    BY <1>3, LeastNat
  <2>2. PICK m \in Model \ S : depth[m] = k
    BY <2>1
  <2>3. PICK c \in Coupled : m \in Children[c]
    BY <2>2, TreeAssumption DEF Model, Atomic
  <2>4. c \in Model \ S
    BY <2>2, <2>3, ChildrenAreModels
  <2>5. depth[c] \in Rest /\ depth[c] < k
    BY <1>1, <1>2, <2>2, <2>3, <2>4
  <2>6. QED
    BY <1>2, <2>1, <2>5
<1>4. \A m \in Model : depth[m] \in Nat
  BY <1>1, <1>2
<1>5. QED
  BY <1>3, <1>4

(* What holds of the atomic models, and of each coupled one whose submodels   *)
(* it holds of, holds of all models.                                          *)
LEMMA FromTheBottom ==
  ASSUME NEW S, Atomic \subseteq S,
         \A c \in Coupled : Children[c] \subseteq S => c \in S
  PROVE  Model \subseteq S
<1>1. PICK depth \in [Model -> 0 .. Cardinality(Coupled)] :
        \A c \in Coupled : \A s \in Children[c] : depth[c] < depth[s]
  BY TreeAssumption
<1> DEFINE N == Cardinality(Coupled)
           Rest == {k \in Nat : \E m \in Model \ S : N - depth[m] = k}
<1>2. N \in Nat
  BY TreeAssumption, FS_CardinalityType
<1>3. \A m \in Model : depth[m] \in 0 .. N
  BY <1>1
<1> HIDE DEF N
<1>4. ASSUME Rest # {} PROVE FALSE
  <2>1. PICK k \in Rest : \A j \in Rest : k <= j
    BY <1>4, LeastNat
  <2>2. PICK m \in Model \ S : N - depth[m] = k
    BY <2>1
  <2>3. m \in Coupled
    BY <2>2 DEF Model
  <2>4. PICK s \in Children[m] : s \notin S
    BY <2>2, <2>3
  <2>5. s \in Model \ S /\ depth[m] < depth[s]
    BY <1>1, <2>3, <2>4, ChildrenAreModels
  <2>6. N - depth[s] \in Rest /\ N - depth[s] < k
    BY <1>2, <1>3, <2>2, <2>5
  <2>7. QED
    BY <2>1, <2>6
<1>5. \A m \in Model : N - depth[m] \in Nat
  BY <1>2, <1>3
<1>6. QED
  BY <1>4, <1>5

(* The values of a function on the models that are the least of those below.  *)
LeastBelow(f) == \A c \in Coupled : f[c] = Least({f[s] : s \in Children[c]})

LEMMA LeastBelowIn ==
  ASSUME NEW f \in [Model -> Nat], NEW c \in Coupled
  PROVE  /\ {f[s] : s \in Children[c]} \in SUBSET Nat
         /\ {f[s] : s \in Children[c]} # {}
         /\ Least({f[s] : s \in Children[c]}) \in {f[s] : s \in Children[c]}
         /\ \A s \in Children[c] : Least({f[s_1] : s_1 \in Children[c]}) <= f[s]
<1> DEFINE V == {f[s] : s \in Children[c]}
<1>1. V \in SUBSET Nat /\ V # {}
  BY ChildrenAreModels, TreeAssumption
<1>2. Least(V) \in V /\ \A x \in V : Least(V) <= x
  BY <1>1, LeastIn
<1>3. QED
  BY <1>1, <1>2

(* The topmost model's next event is the least of all.                        *)
LEMMA LeastAtTop ==
  ASSUME NEW f \in [Model -> Nat], LeastBelow(f)
  PROVE  \A m \in Model : f[Top] <= f[m]
<1> DEFINE S == {m \in Model : f[Top] <= f[m]}
<1>1. Top \in S
  BY ChildrenAreModels
<1>2. ASSUME NEW c \in Coupled \cap S PROVE Children[c] \subseteq S
  <2>1. ASSUME NEW s \in Children[c] PROVE s \in S
    <3>1. f[c] <= f[s]
      BY <1>2, LeastBelowIn DEF LeastBelow
    <3>2. f[Top] <= f[c] /\ s \in Model /\ c \in Model
      BY <1>2, ChildrenAreModels
    <3>3. QED
      BY <3>1, <3>2, ChildrenAreModels
  <2>2. QED
    BY <2>1
<1>3. QED
  BY <1>1, <1>2, FromTheTop

(* The recursion that initializes the next events has a value: those of the  *)
(* models are found from the deepest ones up.                                 *)
LEMMA Initialized ==
  ASSUME NEW S \in SUBSET Nat, NEW ta \in [Atomic -> S]
  PROVE  /\ InitSubcoordinators(ta) \in [Model -> S]
         /\ LeastBelow(InitSubcoordinators(ta))
         /\ \A a \in Atomic : InitSubcoordinators(ta)[a] = ta[a]
<1>1. PICK depth \in [Model -> 0 .. Cardinality(Coupled)] :
        \A c \in Coupled : \A s \in Children[c] : depth[c] < depth[s]
  BY TreeAssumption
<1> DEFINE N == Cardinality(Coupled)
           val(f, m)  == IF m \in Atomic THEN ta[m] ELSE MinNextInSubcoordinators(f, m)
           good(f, k) == \A m \in Model : N - k <= depth[m] => f[m] = val(f, m)
           bad == {k \in Nat : ~ \E f : good(f, k)}
<1>2. N \in Nat
  BY TreeAssumption, FS_CardinalityType
<1>3. \A m \in Model : depth[m] \in 0 .. N
  BY <1>1
<1>4. \A m \in Model : m \in Atomic \/ m \in Coupled
  BY DEF Model
<1>5. ASSUME NEW f, NEW g, NEW m \in Model, m \in Coupled => \A s \in Children[m] : f[s] = g[s]
      PROVE  val(f, m) = val(g, m)
  <2>1. CASE m \in Atomic
    BY <2>1
  <2>2. CASE m \notin Atomic
    <3>1. {f[s] : s \in Children[m]} = {g[s] : s \in Children[m]}
      BY <1>4, <1>5, <2>2
    <3>2. QED
      BY <2>2, <3>1 DEF MinNextInSubcoordinators
  <2>3. QED
    BY <2>1, <2>2
<1> HIDE DEF N, val
<1>6. \E f : good(f, 0)
  <2> DEFINE f == [m \in Model |-> ta[m]]
  <2>1. ASSUME NEW m \in Model, N - 0 <= depth[m] PROVE f[m] = val(f, m)
    <3>1. m \in Atomic
      <4>1. ASSUME m \in Coupled PROVE FALSE
        <5>1. PICK s \in Children[m] : TRUE
          BY <4>1, TreeAssumption
        <5>2. s \in Model /\ depth[m] < depth[s]
          BY <1>1, <4>1, <5>1, ChildrenAreModels
        <5>3. QED
          BY <1>2, <1>3, <2>1, <5>2
      <4>2. QED
        BY <1>4, <4>1
    <3>2. QED
      BY <3>1 DEF val
  <2>2. QED
    BY <2>1
<1>7. ASSUME NEW k \in Nat, \E f : good(f, k) PROVE \E f : good(f, k + 1)
  <2>1. PICK f : good(f, k)
    BY <1>7
  <2> DEFINE g == [m \in Model |-> IF N - k <= depth[m] THEN f[m] ELSE val(f, m)]
  <2>2. \A m \in Model : g[m] = IF N - k <= depth[m] THEN f[m] ELSE val(f, m)
    OBVIOUS
  <2> HIDE DEF g
  <2>3. ASSUME NEW m \in Model, N - (k + 1) <= depth[m] PROVE g[m] = val(g, m)
    <3>1. m \in Coupled => \A s \in Children[m] : f[s] = g[s]
      <4>1. ASSUME m \in Coupled, NEW s \in Children[m] PROVE f[s] = g[s]
        <5>1. s \in Model /\ depth[m] < depth[s]
          BY <1>1, <4>1, ChildrenAreModels
        <5>2. N - k <= depth[s]
          BY <1>2, <1>3, <2>3, <5>1
        <5>3. QED
          BY <2>2, <5>1, <5>2
      <4>2. QED
        BY <4>1
    <3>2. val(f, m) = val(g, m)
      BY <1>5, <3>1
    <3>3. QED
      BY <2>1, <2>2, <3>2
  <2>4. QED
    BY <2>3
<1> HIDE DEF good
<1>8. bad = {}
  <2>1. ASSUME bad # {} PROVE FALSE
    <3>1. PICK k \in bad : \A j \in bad : k <= j
      BY <2>1, LeastNat
    <3>2. k # 0
      BY <1>6, <3>1
    <3>3. k - 1 \in Nat /\ k - 1 \notin bad
      BY <3>1, <3>2
    <3>4. \E f : good(f, (k - 1) + 1)
      BY <1>7, <3>3
    <3>5. (k - 1) + 1 = k
      BY <3>1
    <3>6. QED
      BY <3>1, <3>4, <3>5
  <2>2. QED
    BY <2>1
<1>9. PICK f : good(f, N)
  BY <1>2, <1>8
<1>10. \A m \in Model : f[m] = val(f, m)
  BY <1>2, <1>3, <1>9 DEF good
<1> DEFINE step(i) == [m \in Model |-> IF m \in Atomic THEN ta[m] ELSE MinNextInSubcoordinators(i, m)]
           h    == [m \in Model |-> f[m]]
           init == InitSubcoordinators(ta)
<1>11. h = step(h)
  <2>1. ASSUME NEW m \in Model PROVE h[m] = val(h, m)
    <3>1. m \in Coupled => \A s \in Children[m] : f[s] = h[s]
      BY ChildrenAreModels
    <3>2. val(f, m) = val(h, m)
      BY <1>5, <3>1
    <3>3. QED
      BY <1>10, <3>2
  <2>2. QED
    BY <2>1 DEF val
<1>12. init = CHOOSE i : i = step(i)
  BY DEF InitSubcoordinators
<1> HIDE DEF h, init
<1>13. init = step(init)
  BY <1>11, <1>12
<1>14. \A m \in Model : init[m] = IF m \in Atomic THEN ta[m] ELSE MinNextInSubcoordinators(init, m)
  BY <1>13
<1>15. \A c \in Coupled : c \in Model /\ c \notin Atomic
  BY DEF Model, Atomic
<1>16. LeastBelow(init)
  BY <1>14, <1>15 DEF LeastBelow, MinNextInSubcoordinators
<1> DEFINE In == {m \in Model : init[m] \in S}
<1>17. Atomic \subseteq In
  BY <1>14 DEF Model
<1>18. ASSUME NEW c \in Coupled, Children[c] \subseteq In PROVE c \in In
  <2> DEFINE V == {init[s] : s \in Children[c]}
  <2>1. V \in SUBSET S /\ V \in SUBSET Nat
    <3>1. \A s \in Children[c] : init[s] \in S
      BY <1>18
    <3>2. QED
      BY <3>1
  <2>2. V # {}
    <3>1. PICK s \in Children[c] : TRUE
      BY TreeAssumption
    <3>2. init[s] \in V
      BY <3>1
    <3>3. QED
      BY <3>2
  <2>3. init[c] = Least(V)
    BY <1>16 DEF LeastBelow
  <2> HIDE DEF V
  <2>4. Least(V) \in V
    BY <2>1, <2>2, LeastIn
  <2>5. QED
    BY <1>15, <2>1, <2>3, <2>4
<1>19. Model \subseteq In
  BY <1>17, <1>18, FromTheBottom
<1>20. init \in [Model -> S]
  BY <1>13, <1>19
<1>21. \A a \in Atomic : init[a] = ta[a]
  BY <1>14 DEF Model
<1>22. QED
  BY <1>16, <1>20, <1>21 DEF init
-----------------------------------------------------------------------------
(* What an engine knows of time.                                              *)
TypeInv ==
  /\ phase \in {"ready", "collect", "advance", "finished"}
  /\ next_event \in Nat
  /\ above_time \in Nat
  /\ stage \in [Model -> Stage]
  /\ last \in [Model -> Nat]
  /\ next \in [Model -> Nat]

(* A coordinator that is done in this round knows what its submodels will do, *)
(* which do not change any more: they are done as well.                       *)
Final(c, x) == /\ x = MinNextInSubcoordinators(next, c)
               /\ \A s \in Children[c] : stage[s] = "done"
Known(c)    == Final(c, next[c])

InRound == phase \in {"collect", "advance"}

TimeInv ==
  /\ ~failed
  /\ \A m \in Model : last[m] <= above_time
  /\ phase # "advance" => LeastBelow(next)
  /\ phase \in {"ready", "finished"} => next_event = next[Top] /\ above_time <= next_event
  /\ phase = "collect" => above_time = next[Top]
  /\ InRound => above_time < Limit
  /\ phase = "advance" => \A m \in Model : above_time <= next[m]
  /\ phase = "advance" => \A c \in Coupled : stage[c] = "done" => Known(c)

EngineInv == TypeInv /\ TimeInv

LEMMA InitTime == Init => EngineInv
<1> SUFFICES ASSUME Init PROVE EngineInv
  OBVIOUS
<1>1. PICK ta \in [Atomic -> TimeAdvances] : next = InitSubcoordinators(ta)
  BY DEF Init
<1>2. next \in [Model -> TimeAdvances] /\ LeastBelow(next)
  BY <1>1, TimesAssumption, Initialized
<1>3. next \in [Model -> Nat]
  BY <1>2, TimesAssumption
<1>4. TypeInv
  BY <1>3, ChildrenAreModels DEF Init, TypeInv, Stage
<1>5. TimeInv
  BY <1>2, <1>3, ChildrenAreModels DEF Init, TimeInv, InRound
<1>6. QED
  BY <1>4, <1>5 DEF EngineInv

(* In a round no engine is asked for a time before its last transition, or    *)
(* after its next one.                                                        *)
LEMMA InTime ==
  ASSUME EngineInv, InRound, NEW m \in Model
  PROVE  above_time <= next[m] /\ last[m] <= above_time
<1>1. CASE phase = "collect"
  <2>1. above_time = next[Top] /\ next \in [Model -> Nat] /\ LeastBelow(next)
    BY <1>1 DEF EngineInv, TypeInv, TimeInv
  <2>2. next[Top] <= next[m]
    BY <2>1, LeastAtTop
  <2>3. QED
    BY <2>1, <2>2 DEF EngineInv, TimeInv
<1>2. CASE phase = "advance"
  BY <1>2 DEF EngineInv, TimeInv
<1>3. QED
  BY <1>1, <1>2 DEF InRound

LEMMA AfterLater ==
  ASSUME EngineInv, InRound, NEW ta \in TimeAdvances
  PROVE  After(above_time, ta) \in Nat /\ above_time <= After(above_time, ta)
BY TimesAssumption DEF After, EngineInv, TypeInv, TimeInv

(* In the first half of a round only boxes change, and who has been called.   *)
LEMMA CollectTime ==
  ASSUME EngineInv, phase = "collect", stage' \in [Model -> Stage],
         UNCHANGED <<phase, next_event, above_time, last, next, failed>>
  PROVE  EngineInv'
<1>1. TypeInv'
  BY DEF EngineInv, TypeInv
<1>2. LeastBelow(next)'
  BY DEF EngineInv, TimeInv, LeastBelow
<1>3. TimeInv'
  BY <1>2 DEF EngineInv, TimeInv, InRound
<1>4. QED
  BY <1>1, <1>3 DEF EngineInv

LEMMA CollectOutputsTime ==
  ASSUME EngineInv, NEW a \in Atomic, NEW out \in Outputs(a), CollectOutputs(a, out)
  PROVE  EngineInv'
<1>1. a \in Model /\ phase = "collect" /\ InRound
  BY DEF CollectOutputs, Called, InRound, Model
<1>2. ~(next[a] < above_time)
  BY <1>1, InTime DEF EngineInv, TypeInv
<1>3. stage' = [stage EXCEPT ![a] = "done"] /\ UNCHANGED <<phase, next_event, above_time, last, next, failed>>
  BY <1>2 DEF CollectOutputs, StageOf
<1>4. stage' \in [Model -> Stage]
  BY <1>3 DEF EngineInv, TypeInv, Stage
<1>5. QED
  BY <1>1, <1>3, <1>4, CollectTime

LEMMA CoordinateCollectTime ==
  ASSUME EngineInv, NEW c \in Coupled, CoordinateCollect(c)
  PROVE  EngineInv'
<1>1. c \in Model /\ phase = "collect" /\ InRound
  BY DEF CoordinateCollect, Called, InRound, Model
<1>2. ~(next[c] < above_time)
  BY <1>1, InTime DEF EngineInv, TypeInv
<1>3. /\ stage' = [stage EXCEPT ![c] = IF next[c] = above_time THEN "running" ELSE "done"]
      /\ UNCHANGED <<phase, next_event, above_time, last, next, failed>>
  BY <1>2 DEF CoordinateCollect, StageOf
<1>4. stage' \in [Model -> Stage]
  BY <1>3 DEF EngineInv, TypeInv, Stage
<1>5. QED
  BY <1>1, <1>3, <1>4, CollectTime

LEMMA FinishCollectTime ==
  ASSUME EngineInv, NEW c \in Coupled, FinishCollect(c)
  PROVE  EngineInv'
<1>1. /\ phase = "collect"
      /\ stage' = [stage EXCEPT ![c] = "done"]
      /\ UNCHANGED <<phase, next_event, above_time, last, next, failed>>
  BY DEF FinishCollect, StageOf
<1>2. stage' \in [Model -> Stage]
  BY <1>1 DEF EngineInv, TypeInv, Stage
<1>3. QED
  BY <1>1, <1>2, CollectTime

(* In the second half one model m changes, which was not done.  Those that    *)
(* are done, and their submodels, keep what they know.                        *)
LEMMA AdvanceTime ==
  ASSUME EngineInv, phase = "advance", NEW m \in Model, stage[m] # "done",
         NEW s \in Stage, stage' = [stage EXCEPT ![m] = s],
         NEW l \in Nat, last' = [last EXCEPT ![m] = l], l <= above_time,
         NEW x \in Nat, next' = [next EXCEPT ![m] = x], above_time <= x,
         m \notin Coupled \/ s # "done" \/ Final(m, x),
         UNCHANGED <<phase, next_event, above_time, failed>>
  PROVE  EngineInv'
<1>1. TypeInv'
  BY DEF EngineInv, TypeInv
<1>2. \A d \in Model : d # m => next'[d] = next[d] /\ stage'[d] = stage[d] /\ last'[d] = last[d]
  BY DEF EngineInv, TypeInv
<1>3. next'[m] = x /\ stage'[m] = s /\ last'[m] = l
  BY DEF EngineInv, TypeInv
<1>4. ASSUME NEW c \in Coupled, stage'[c] = "done" PROVE Known(c)'
  <2>1. c \in Model /\ Children[c] \subseteq Model
    BY ChildrenAreModels
  <2>2. (\A d \in Children[c] : stage[d] = "done") /\ next'[c] = MinNextInSubcoordinators(next, c)
    <3>1. CASE c = m
      BY <1>3, <1>4, <3>1 DEF Final
    <3>2. CASE c # m
      BY <1>2, <1>4, <2>1, <3>2 DEF EngineInv, TimeInv, Known, Final
    <3>3. QED
      BY <3>1, <3>2
  <2>3. \A d \in Children[c] : d # m /\ next'[d] = next[d] /\ stage'[d] = "done"
    BY <1>2, <2>1, <2>2
  <2>4. {next'[d] : d \in Children[c]} = {next[d] : d \in Children[c]}
    BY <2>3
  <2>5. QED
    BY <2>2, <2>3, <2>4 DEF Known, Final, MinNextInSubcoordinators
<1>5. \A d \in Model : last'[d] <= above_time /\ above_time <= next'[d]
  BY <1>2, <1>3 DEF EngineInv, TimeInv
<1>6. TimeInv'
  BY <1>4, <1>5 DEF EngineInv, TimeInv, InRound
<1>7. QED
  BY <1>1, <1>6 DEF EngineInv

LEMMA CoordinateAdvanceTime ==
  ASSUME EngineInv, NEW c \in Coupled, CoordinateAdvance(c)
  PROVE  EngineInv'
<1>1. c \in Model /\ phase = "advance" /\ stage[c] = "todo" /\ InRound
  BY DEF CoordinateAdvance, Called, InRound, Model
<1>2. above_time <= next[c] /\ last[c] <= above_time /\ next[c] \in Nat /\ last[c] \in Nat /\ above_time \in Nat
  BY <1>1, InTime DEF EngineInv, TypeInv
<1>3. stage' = [stage EXCEPT ![c] = "running"] /\ UNCHANGED <<phase, next_event, above_time, last, next, failed>>
  BY <1>2 DEF CoordinateAdvance, StageOf
<1>4. last' = [last EXCEPT ![c] = last[c]] /\ next' = [next EXCEPT ![c] = next[c]]
  BY <1>1, <1>3 DEF EngineInv, TypeInv
<1>5. QED
  BY <1>1, <1>2, <1>3, <1>4, AdvanceTime DEF Stage

LEMMA AdvanceSimulationTime ==
  ASSUME EngineInv, NEW a \in Atomic, NEW ta \in TimeAdvances, AdvanceSimulation(a, ta)
  PROVE  EngineInv'
<1>1. a \in Model /\ a \notin Coupled /\ phase = "advance" /\ stage[a] = "todo" /\ InRound
  BY DEF AdvanceSimulation, Called, InRound, Model, Atomic
<1>2. above_time <= next[a] /\ last[a] <= above_time /\ next[a] \in Nat /\ last[a] \in Nat /\ above_time \in Nat
  BY <1>1, InTime DEF EngineInv, TypeInv
<1>3. stage' = [stage EXCEPT ![a] = "done"] /\ UNCHANGED <<phase, next_event, above_time, failed>>
  BY <1>2 DEF AdvanceSimulation, StageOf
<1>4. \/ /\ last' = [last EXCEPT ![a] = above_time]
         /\ next' = [next EXCEPT ![a] = After(above_time, ta)]
      \/ UNCHANGED <<last, next>>
  BY <1>2 DEF AdvanceSimulation, Transitioned
<1>5. CASE last' = [last EXCEPT ![a] = above_time] /\ next' = [next EXCEPT ![a] = After(above_time, ta)]
  <2>1. After(above_time, ta) \in Nat /\ above_time <= After(above_time, ta)
    BY <1>1, AfterLater
  <2>2. stage[a] # "done" /\ "done" \in Stage /\ above_time <= above_time
    BY <1>1, <1>2 DEF Stage
  <2>3. QED
    BY <1>1, <1>2, <1>3, <1>5, <2>1, <2>2, AdvanceTime
<1>6. CASE UNCHANGED <<last, next>>
  <2>1. last' = [last EXCEPT ![a] = last[a]] /\ next' = [next EXCEPT ![a] = next[a]]
    BY <1>1, <1>6 DEF EngineInv, TypeInv
  <2>2. QED
    BY <1>1, <1>2, <1>3, <2>1, AdvanceTime DEF Stage
<1>7. QED
  BY <1>4, <1>5, <1>6

LEMMA FinishAdvanceTime ==
  ASSUME EngineInv, NEW c \in Coupled, FinishAdvance(c)
  PROVE  EngineInv'
<1>1. /\ c \in Model /\ phase = "advance" /\ stage[c] = "running"
      /\ \A s \in Children[c] : stage[s] = "done"
      /\ stage' = [stage EXCEPT ![c] = "done"]
      /\ last' = [last EXCEPT ![c] = above_time]
      /\ next' = [next EXCEPT ![c] = MinNextInSubcoordinators(next, c)]
      /\ UNCHANGED <<phase, next_event, above_time, failed>>
  BY DEF FinishAdvance, AllDone, StageOf, Model
<1> DEFINE x == MinNextInSubcoordinators(next, c)
<1>2. next \in [Model -> Nat] /\ above_time \in Nat
  BY DEF EngineInv, TypeInv
<1>3. PICK s \in Children[c] : x = next[s]
  BY <1>2, LeastBelowIn DEF MinNextInSubcoordinators
<1>4. s \in Model
  BY ChildrenAreModels
<1>5. x \in Nat /\ above_time <= x
  BY <1>1, <1>2, <1>3, <1>4 DEF EngineInv, TimeInv
<1> HIDE DEF x
<1>6. next' = [next EXCEPT ![c] = x] /\ Final(c, x)
  BY <1>1 DEF x, Final
<1>7. stage[c] # "done" /\ "done" \in Stage /\ above_time <= above_time
  BY <1>1, <1>2 DEF Stage
<1>8. QED
  BY <1>1, <1>2, <1>5, <1>6, <1>7, AdvanceTime

(* When the topmost coordinator is done all models are.                       *)
LEMMA AllKnown ==
  ASSUME EngineInv, phase = "advance", stage[Top] = "done"
  PROVE  LeastBelow(next) /\ \A m \in Model : stage[m] = "done"
<1> DEFINE S == {m \in Model : stage[m] = "done"}
<1>1. \A c \in Coupled : stage[c] = "done" => Known(c)
  BY DEF EngineInv, TimeInv
<1>2. Top \in S
  BY ChildrenAreModels
<1>3. ASSUME NEW c \in Coupled \cap S PROVE Children[c] \subseteq S
  BY <1>1, <1>3, ChildrenAreModels DEF Known, Final
<1>4. Model \subseteq S
  BY <1>2, <1>3, FromTheTop
<1>5. QED
  BY <1>1, <1>4, ChildrenAreModels DEF Known, Final, LeastBelow, MinNextInSubcoordinators

LEMMA RunnerTime ==
  ASSUME EngineInv, StartRound \/ StartAdvance \/ FinishRound \/ Return
  PROVE  EngineInv'
<1>1. TypeInv /\ TimeInv
  BY DEF EngineInv
<1>2. UNCHANGED <<last, next, failed>> /\ stage' = [m \in Model |-> "todo"]
  BY DEF StartRound, StartAdvance, FinishRound, Return, NewPhase
<1>3. LeastBelow(next)' <=> LeastBelow(next)
  BY <1>2 DEF LeastBelow
<1>4. stage' \in [Model -> Stage] /\ \A m \in Model : stage'[m] = "todo"
  BY <1>2 DEF Stage
<1>5. \A c \in Coupled : stage'[c] # "done"
  BY <1>4, ChildrenAreModels
<1>6. Top \in Model
  BY ChildrenAreModels
<1>7. CASE StartRound
  <2>1. /\ phase = "ready" /\ phase' = "collect" /\ next_event < Limit
        /\ above_time' = next_event /\ next_event' = next_event
    BY <1>7 DEF StartRound, NewPhase
  <2>2. above_time' = next[Top] /\ above_time' \in Nat /\ \A m \in Model : last[m] <= above_time'
    BY <1>1, <1>6, <2>1 DEF TypeInv, TimeInv
  <2>3. TypeInv'
    BY <1>1, <1>2, <1>4, <2>1 DEF TypeInv
  <2>4. TimeInv'
    BY <1>1, <1>2, <1>3, <2>1, <2>2 DEF TimeInv, InRound
  <2>5. QED
    BY <2>3, <2>4 DEF EngineInv
<1>8. CASE StartAdvance
  <2>1. /\ phase = "collect" /\ phase' = "advance" /\ UNCHANGED <<next_event, above_time>>
    BY <1>8 DEF StartAdvance, NewPhase
  <2>2. \A m \in Model : above_time <= next[m]
    BY <2>1, InTime DEF InRound
  <2>3. TypeInv'
    BY <1>1, <1>2, <1>4, <2>1 DEF TypeInv
  <2>4. TimeInv'
    BY <1>1, <1>2, <1>5, <2>1, <2>2 DEF TimeInv, InRound
  <2>5. QED
    BY <2>3, <2>4 DEF EngineInv
<1>9. CASE FinishRound
  <2>1. /\ phase = "advance" /\ phase' = "ready" /\ next_event' = next[Top]
        /\ above_time' = above_time /\ stage[Top] = "done"
    BY <1>9 DEF FinishRound, NewPhase
  <2>2. LeastBelow(next)
    BY <2>1, AllKnown
  <2>3. TypeInv'
    BY <1>1, <1>2, <1>4, <1>6, <2>1 DEF TypeInv
  <2>4. TimeInv'
    BY <1>1, <1>2, <1>3, <1>6, <2>1, <2>2 DEF TimeInv, InRound
  <2>5. QED
    BY <2>3, <2>4 DEF EngineInv
<1>10. CASE Return
  <2>1. /\ phase = "ready" /\ phase' = "finished" /\ UNCHANGED <<next_event, above_time>>
    BY <1>10 DEF Return, NewPhase
  <2>2. TypeInv'
    BY <1>1, <1>2, <1>4, <2>1 DEF TypeInv
  <2>3. TimeInv'
    BY <1>1, <1>2, <1>3, <2>1 DEF TimeInv, InRound
  <2>4. QED
    BY <2>2, <2>3 DEF EngineInv
<1>11. QED
  BY <1>7, <1>8, <1>9, <1>10

LEMMA NextTime == EngineInv /\ [Next]_vars => EngineInv'
<1>1. ASSUME EngineInv, Next PROVE EngineInv'
  BY <1>1, RunnerTime, CoordinateCollectTime, FinishCollectTime, CoordinateAdvanceTime,
     FinishAdvanceTime, CollectOutputsTime, AdvanceSimulationTime DEF Next
<1>2. ASSUME EngineInv, UNCHANGED vars PROVE EngineInv'
  BY <1>2 DEF vars, EngineInv, TypeInv, TimeInv, InRound, LeastBelow, Known, Final, MinNextInSubcoordinators
<1>3. QED
  BY <1>1, <1>2

LEMMA EngineKnows == EngineInv => NextIsLeast /\ NeverThrows
BY DEF EngineInv, TimeInv, LeastBelow, NextIsLeast, NeverThrows
-----------------------------------------------------------------------------
(* The boxes.  A link adds messages to a bag or puts them in a new one, and    *)
(* leaves no bag without any where there was none.                            *)
Filled(box) == \A p \in DOMAIN box : box[p] # NoMessages

LEMMA Boxes ==
  /\ NoMessages \in Bag
  /\ NoBox \in Box /\ Filled(NoBox)
  /\ \A box \in Box : /\ DOMAIN box \subseteq Port
                      /\ \A p \in DOMAIN box : box[p] \in Bag
<1>1. NoMessages \in Bag
  BY DEF NoMessages, Bag
<1>2. NoBox \in [{} -> Bag] /\ Filled(NoBox)
  BY DEF NoBox, Filled
<1>3. NoBox \in Box
  BY <1>2 DEF Box
<1>4. ASSUME NEW box \in Box PROVE DOMAIN box \subseteq Port /\ \A p \in DOMAIN box : box[p] \in Bag
  <2>1. PICK S \in SUBSET Port : box \in [S -> Bag]
    BY DEF Box
  <2>2. QED
    BY <2>1
<1>5. QED
  BY <1>1, <1>2, <1>3, <1>4

LEMMA ABox ==
  ASSUME NEW S \in SUBSET Port, NEW box \in [S -> Bag]
  PROVE  box \in Box
BY DEF Box

LEMMA RouteMessagesBox ==
  ASSUME NEW from \in Box, NEW to \in Box, NEW l, l.in \in Port
  PROVE  /\ RouteMessages(from, to, l) \in Box
         /\ Filled(to) => Filled(RouteMessages(from, to, l))
<1> DEFINE passed == IF l.in \in DOMAIN to THEN PassMessages(from, to, l) ELSE to
<1>1. /\ DOMAIN to \subseteq Port /\ \A p \in DOMAIN to : to[p] \in Bag
      /\ \A p \in DOMAIN from : from[p] \in Bag
  BY Boxes
<1>2. to \in [DOMAIN to -> Bag]
  <2>1. PICK S \in SUBSET Port : to \in [S -> Bag]
    BY DEF Box
  <2>2. QED
    BY <2>1
<1>3. \A b, d \in Bag : Joined(b, d) \in Bag /\ (d = NoMessages => Joined(b, d) = b)
  <2>1. ASSUME NEW b \in Bag, NEW d \in Bag PROVE Joined(b, d) \in Bag /\ (d = NoMessages => Joined(b, d) = b)
    BY DEF Bag, Joined, NoMessages
  <2>2. QED
    BY <2>1
<1>4. CASE l.out \notin DOMAIN from
  BY <1>4 DEF RouteMessages
<1>5. CASE l.out \in DOMAIN from
  <2>1. passed \in [DOMAIN to -> Bag]
    BY <1>1, <1>2, <1>3, <1>5 DEF PassMessages
  <2>2. from[l.out] = NoMessages => passed = to
    <3>1. ASSUME from[l.out] = NoMessages, l.in \in DOMAIN to PROVE PassMessages(from, to, l) = to
      <4>1. Joined(to[l.in], from[l.out]) = to[l.in]
        BY <1>1, <1>3, <1>5, <3>1
      <4>2. PassMessages(from, to, l) = [to EXCEPT ![l.in] = to[l.in]]
        BY <4>1 DEF PassMessages
      <4>3. QED
        BY <1>2, <4>2
    <3>2. QED
      BY <3>1
  <2> HIDE DEF passed
  <2>3. CASE from[l.out] = NoMessages
    <3>1. RouteMessages(from, to, l) = to
      BY <1>5, <2>2, <2>3 DEF RouteMessages, passed
    <3>2. QED
      BY <3>1
  <2>4. CASE from[l.out] # NoMessages
    <3> DEFINE S == DOMAIN to \cup {l.in}
               new == [p \in S |-> IF p = l.in THEN from[l.out] ELSE passed[p]]
    <3>1. DOMAIN passed = DOMAIN to
      BY <2>1
    <3>2. RouteMessages(from, to, l) = PassToNewBag(from, passed, l)
      BY <1>5, <2>4 DEF RouteMessages, passed
    <3>3. PassToNewBag(from, passed, l) = new
      BY <3>1 DEF PassToNewBag
    <3>4. new \in [S -> Bag] /\ S \in SUBSET Port
      BY <1>1, <1>5, <2>1
    <3>5. \A p \in DOMAIN to : p # l.in => passed[p] = to[p]
      BY <1>2 DEF passed, PassMessages
    <3>6. Filled(to) => Filled(new)
      BY <2>4, <3>5 DEF Filled
    <3> HIDE DEF new, S
    <3>7. QED
      BY <3>2, <3>3, <3>4, <3>6, ABox
  <2>5. QED
    BY <2>3, <2>4
<1>6. QED
  BY <1>4, <1>5

(* The links of a coupling, one after the other. *)
Linked(links, from, b, k) ==
  [b EXCEPT ![links[k].to] = RouteMessages(from[links[k].from], b[links[k].to], links[k])]

LEMMA RouteSteps ==
  ASSUME NEW links, Len(links) \in Nat, NEW from, NEW to
  PROVE  \E after : /\ after[0] = to
                    /\ \A k \in 1 .. Len(links) : after[k] = Linked(links, from, after[k - 1], k)
                    /\ Route(links, from, to) = after[Len(links)]
<1> DEFINE N == Len(links)
           val(f, k)    == IF k = 0 THEN to ELSE Linked(links, from, f[k - 1], k)
           good(f, k)   == \A j \in 0 .. N : j <= k => f[j] = val(f, j)
           bad          == {k \in Nat : ~ \E f : good(f, k)}
<1>1. N \in Nat
  OBVIOUS
<1> HIDE DEF N
<1>2. \E f : good(f, 0)
  <2> DEFINE f == [j \in 0 .. N |-> to]
  <2>1. good(f, 0)
    BY <1>1
  <2> HIDE DEF f
  <2>2. QED
    BY <2>1
<1>3. ASSUME NEW k \in Nat, \E f : good(f, k) PROVE \E f : good(f, k + 1)
  <2>1. PICK f : good(f, k)
    BY <1>3
  <2> DEFINE g == [j \in 0 .. N |-> IF j <= k THEN f[j] ELSE Linked(links, from, f[j - 1], j)]
  <2>2. \A j \in 0 .. N : g[j] = IF j <= k THEN f[j] ELSE Linked(links, from, f[j - 1], j)
    OBVIOUS
  <2> HIDE DEF g
  <2>3. ASSUME NEW j \in 0 .. N, j <= k + 1 PROVE g[j] = val(g, j)
    <3>1. CASE j = 0
      BY <1>1, <2>1, <2>2, <3>1
    <3>2. CASE j # 0
      <4>1. j - 1 \in 0 .. N /\ j - 1 <= k
        BY <1>1, <2>3, <3>2
      <4>2. g[j - 1] = f[j - 1]
        BY <2>2, <4>1
      <4>3. g[j] = Linked(links, from, f[j - 1], j)
        <5>1. CASE j <= k
          BY <2>1, <2>2, <3>2, <5>1
        <5>2. CASE ~(j <= k)
          BY <2>2, <5>2
        <5>3. QED
          BY <5>1, <5>2
      <4>4. QED
        BY <3>2, <4>2, <4>3
    <3>3. QED
      BY <3>1, <3>2
  <2>4. good(g, k + 1)
    BY <2>3
  <2>5. QED
    BY <2>4
<1> HIDE DEF good
<1>4. bad = {}
  <2>1. ASSUME bad # {} PROVE FALSE
    <3>1. PICK k \in bad : \A j \in bad : k <= j
      BY <2>1, LeastNat
    <3>2. k # 0
      BY <1>2, <3>1
    <3>3. k - 1 \in Nat /\ k - 1 \notin bad
      BY <3>1, <3>2
    <3>4. \E f : good(f, (k - 1) + 1)
      BY <1>3, <3>3
    <3>5. (k - 1) + 1 = k
      BY <3>1
    <3>6. QED
      BY <3>1, <3>4, <3>5
  <2>2. QED
    BY <2>1
<1>5. PICK f : good(f, N)
  BY <1>1, <1>4
<1> DEFINE step(i) == [k \in 0 .. N |-> val(i, k)]
           h       == [k \in 0 .. N |-> f[k]]
           after   == CHOOSE i : i = step(i)
<1>6. h = step(h)
  <2>1. ASSUME NEW k \in 0 .. N PROVE f[k] = val(h, k)
    <3>1. f[k] = val(f, k)
      BY <1>1, <1>5 DEF good
    <3>2. k # 0 => k - 1 \in 0 .. N
      BY <1>1
    <3>3. QED
      BY <3>1, <3>2
  <2>2. QED
    BY <2>1
<1> HIDE DEF h
<1>7. after = step(after)
  BY <1>6
<1>8. Route(links, from, to) = after[N]
  BY DEF Route, N, Linked
<1> HIDE DEF after
<1>9. \A k \in 0 .. N : after[k] = val(after, k)
  BY <1>7
<1>10. \A k \in 1 .. N : k \in 0 .. N /\ k # 0
  BY <1>1
<1>11. after[0] = to /\ \A k \in 1 .. N : after[k] = Linked(links, from, after[k - 1], k)
  BY <1>1, <1>9, <1>10
<1>12. QED
  BY <1>8, <1>11 DEF N

(* They change only the boxes that they lead to. *)
LEMMA Routed ==
  ASSUME NEW F, NEW T, NEW D, T \subseteq D, NEW links \in Seq(Links(F, T)),
         NEW from, \A m \in F : from[m] \in Box,
         NEW to \in [D -> Box]
  PROVE  /\ Route(links, from, to) \in [D -> Box]
         /\ \A m \in D \ T : Route(links, from, to)[m] = to[m]
         /\ \A m \in D : Filled(to[m]) => Filled(Route(links, from, to)[m])
<1> DEFINE N == Len(links)
<1>1. N \in Nat /\ \A k \in 1 .. N : /\ links[k].from \in F /\ links[k].to \in T
                                     /\ links[k].in \in Port
  <2>1. \A k \in 1 .. N : links[k] \in Links(F, T)
    BY ElementOfSeq
  <2>2. QED
    BY <2>1, LenProperties DEF Links
<1>2. PICK after : /\ after[0] = to
                   /\ \A k \in 1 .. N : after[k] = Linked(links, from, after[k - 1], k)
                   /\ Route(links, from, to) = after[N]
  BY <1>1, RouteSteps
<1> HIDE DEF N
<1> DEFINE kept(b) == /\ b \in [D -> Box]
                      /\ \A m \in D \ T : b[m] = to[m]
                      /\ \A m \in D : Filled(to[m]) => Filled(b[m])
           lost == {k \in 0 .. N : ~kept(after[k])}
<1>3. ASSUME NEW b, kept(b), NEW k \in 1 .. N PROVE kept(Linked(links, from, b, k))
  <2> DEFINE d == links[k].to
             r == RouteMessages(from[links[k].from], b[d], links[k])
  <2>1. d \in T /\ d \in D /\ links[k].in \in Port /\ from[links[k].from] \in Box /\ b[d] \in Box
    BY <1>1, <1>3
  <2>2. r \in Box /\ (Filled(b[d]) => Filled(r))
    BY <2>1, RouteMessagesBox
  <2>3. Linked(links, from, b, k) = [b EXCEPT ![d] = r]
    BY DEF Linked
  <2> HIDE DEF d, r
  <2>4. QED
    BY <1>3, <2>1, <2>2, <2>3
<1> HIDE DEF kept
<1>4. kept(to)
  BY DEF kept
<1>5. ASSUME lost # {} PROVE FALSE
  <2>1. lost \in SUBSET Nat
    BY <1>1
  <2>2. PICK k \in lost : \A j \in lost : k <= j
    BY <1>5, <2>1, LeastNat
  <2>3. k \in 0 .. N /\ ~kept(after[k])
    BY <2>2
  <2>4. k # 0
    <3>1. k = 0 => after[k] = to
      BY <1>2
    <3>2. QED
      BY <1>4, <2>3, <3>1
  <2>5. k - 1 \in 0 .. N /\ k \in 1 .. N /\ ~(k <= k - 1)
    BY <1>1, <2>3, <2>4
  <2>6. kept(after[k - 1])
    BY <2>2, <2>5
  <2>7. after[k] = Linked(links, from, after[k - 1], k)
    BY <1>2, <2>5
  <2>8. QED
    BY <1>3, <2>3, <2>5, <2>6, <2>7
<1>6. N \in 0 .. N
  BY <1>1
<1>7. kept(after[N])
  BY <1>5, <1>6
<1>8. QED
  BY <1>2, <1>7 DEF kept
-----------------------------------------------------------------------------
(* In the second half of a round a model is called after its coordinator. It *)
(* empties its outbox, and its inbox before it is done: its coordinator has   *)
(* routed to it already, so that nothing comes to it any more.                *)
BoxType == inbox \in [Model -> Box] /\ outbox \in [Model -> Box]

Advancing ==
  /\ \A m \in Model : /\ stage[m] # "todo" => outbox[m] = NoBox
                      /\ stage[m] = "done" => inbox[m] = NoBox
  /\ \A c \in Coupled : stage[c] = "todo" => \A s \in Children[c] : stage[s] = "todo"

BoxInv ==
  /\ BoxType
  /\ \A m \in Model : Filled(inbox[m])
  /\ phase # "advance" => \A m \in Model : inbox[m] = NoBox
  /\ ~InRound => \A m \in Model : outbox[m] = NoBox
  /\ phase = "advance" => Advancing

(* The topmost model is below no other: no coupled model is less deep.        *)
LEMMA TopIsNoChild == \A c \in Coupled : Top \notin Children[c]
<1>1. PICK depth \in [Model -> 0 .. Cardinality(Coupled)] :
        \A c \in Coupled : \A s \in Children[c] : depth[c] < depth[s]
  BY TreeAssumption
<1>2. Cardinality(Coupled) \in Nat
  BY TreeAssumption, FS_CardinalityType
<1>3. \A m \in Model : depth[m] \in Nat
  BY <1>1, <1>2
<1> DEFINE Depths == {k \in Nat : \E c \in Coupled : depth[c] = k}
<1>4. Depths # {}
  BY <1>3, TreeAssumption, ChildrenAreModels
<1>5. PICK k \in Depths : \A j \in Depths : k <= j
  BY <1>4, LeastNat
<1>6. PICK d \in Coupled : depth[d] = k
  BY <1>5
<1>7. \A c \in Coupled : d \notin Children[c]
  <2>1. ASSUME NEW c \in Coupled, d \in Children[c] PROVE FALSE
    <3>1. depth[c] < depth[d] /\ depth[c] \in Depths
      BY <1>1, <1>3, <2>1, ChildrenAreModels
    <3>2. depth[d] <= depth[c]
      BY <1>5, <1>6, <3>1
    <3>3. depth[c] \in Nat /\ depth[d] \in Nat
      BY <1>3, <1>6, ChildrenAreModels
    <3>4. QED
      BY <3>1, <3>2, <3>3
  <2>2. QED
    BY <2>1
<1>8. d = Top
  BY <1>6, <1>7, TreeAssumption
<1>9. QED
  BY <1>7, <1>8

(* What a coordinator routes stays within the boxes of its submodels.         *)
LEMMA Collected ==
  ASSUME BoxType, NEW c \in Coupled
  PROVE  CollectMessagesByEoc(c) \in Box
<1> DEFINE to == [d \in {c} |-> NoBox]
<1>1. EOC[c] \in Seq(Links(Children[c], {c}))
  BY CouplingAssumption
<1>2. \A m \in Children[c] : outbox[m] \in Box
  BY ChildrenAreModels DEF BoxType
<1>3. to \in [{c} -> Box]
  BY Boxes
<1> HIDE DEF to
<1>4. {c} \subseteq {c}
  OBVIOUS
<1>5. Route(EOC[c], outbox, to) \in [{c} -> Box]
  BY <1>1, <1>2, <1>3, <1>4, Routed
<1>6. QED
  BY <1>5 DEF CollectMessagesByEoc, to

LEMMA Distributed ==
  ASSUME BoxType, NEW c \in Coupled
  PROVE  LET ins == RouteEIC(c, RouteIC(c, inbox))
         IN  /\ ins \in [Model -> Box]
             /\ \A m \in Model \ Children[c] : ins[m] = inbox[m]
             /\ \A m \in Model : Filled(inbox[m]) => Filled(ins[m])
<1> DEFINE ic  == Route(IC[c], outbox, inbox)
           eic == Route(EIC[c], inbox, ic)
<1>1. /\ IC[c] \in Seq(Links(Children[c], Children[c]))
      /\ EIC[c] \in Seq(Links({c}, Children[c]))
  BY CouplingAssumption
<1>2. Children[c] \subseteq Model /\ c \in Model
  BY ChildrenAreModels
<1>3. \A m \in Children[c] : outbox[m] \in Box
  BY <1>2 DEF BoxType
<1>4. \A m \in {c} : inbox[m] \in Box
  BY <1>2 DEF BoxType
<1>5. inbox \in [Model -> Box]
  BY DEF BoxType
<1>6. /\ ic \in [Model -> Box]
      /\ \A m \in Model \ Children[c] : ic[m] = inbox[m]
      /\ \A m \in Model : Filled(inbox[m]) => Filled(ic[m])
  BY <1>1, <1>2, <1>3, <1>5, Routed
<1> HIDE DEF ic
<1>7. /\ eic \in [Model -> Box]
      /\ \A m \in Model \ Children[c] : eic[m] = ic[m]
      /\ \A m \in Model : Filled(ic[m]) => Filled(eic[m])
  <2> DEFINE F == {c}
  <2>1. EIC[c] \in Seq(Links(F, Children[c])) /\ \A m \in F : inbox[m] \in Box
    BY <1>1, <1>4
  <2>2. ic \in [Model -> Box]
    BY <1>6
  <2> HIDE DEF F
  <2>3. QED
    BY <1>2, <2>1, <2>2, Routed
<1>8. RouteEIC(c, RouteIC(c, inbox)) = eic
  BY DEF RouteEIC, RouteIC, ic
<1> HIDE DEF eic
<1>9. QED
  BY <1>6, <1>7, <1>8

LEMMA InitBoxes == Init => BoxInv
<1> SUFFICES ASSUME Init PROVE BoxInv
  OBVIOUS
<1>1. BoxType
  BY Boxes DEF Init, BoxType
<1>2. QED
  BY <1>1, Boxes DEF Init, BoxInv, InRound

(* Nothing is called in the first half that has an inbox with a bag.          *)
LEMMA CollectBoxes ==
  ASSUME BoxInv, phase = "collect", UNCHANGED <<phase, inbox>>, outbox' \in [Model -> Box]
  PROVE  BoxInv'
BY DEF BoxInv, BoxType, InRound

LEMMA CollectOutputsBoxes ==
  ASSUME EngineInv, BoxInv, NEW a \in Atomic, NEW out \in Outputs(a), CollectOutputs(a, out)
  PROVE  BoxInv'
<1>1. a \in Model /\ phase = "collect" /\ InRound
  BY DEF CollectOutputs, Called, InRound, Model
<1>2. ~(next[a] < above_time)
  BY <1>1, InTime DEF EngineInv, TypeInv
<1>3. UNCHANGED phase /\ inbox' = [inbox EXCEPT ![a] = NoBox]
  BY DEF CollectOutputs
<1>4. inbox \in [Model -> Box] /\ outbox \in [Model -> Box] /\ inbox[a] = NoBox
  BY <1>1 DEF BoxInv, BoxType
<1>5. inbox' = inbox
  BY <1>1, <1>3, <1>4
<1>6. MapFromBags(a, out) \in Box
  <2>1. ASSUME NEW p \in OutPort[a] PROVE Emission(a, out, p) \in Bag
    <3>1. out[p] \in Nat
      BY DEF Outputs
    <3>2. NoMessages \in [Message -> Nat]
      BY DEF NoMessages
    <3> HIDE DEF NoMessages
    <3>3. QED
      BY <3>1, <3>2 DEF Emission, Bag
  <2>2. MapFromBags(a, out) \in [OutPort[a] -> Bag]
    BY <2>1 DEF MapFromBags
  <2>3. OutPort[a] \in SUBSET Port
    BY <1>1 DEF Port
  <2>4. QED
    BY <2>2, <2>3, ABox
<1>7. outbox' = [outbox EXCEPT ![a] = MapFromBags(a, out)] \/ outbox' = [outbox EXCEPT ![a] = NoBox]
  BY <1>2 DEF CollectOutputs
<1>8. outbox' \in [Model -> Box]
  BY <1>4, <1>6, <1>7, Boxes
<1>9. QED
  BY <1>1, <1>3, <1>5, <1>8, CollectBoxes

LEMMA CoordinateCollectBoxes ==
  ASSUME BoxInv, NEW c \in Coupled, CoordinateCollect(c)
  PROVE  BoxInv'
<1>1. phase = "collect" /\ UNCHANGED <<phase, inbox, outbox>>
  BY DEF CoordinateCollect, Called, boxes
<1>2. outbox' \in [Model -> Box]
  BY <1>1 DEF BoxInv, BoxType
<1>3. QED
  BY <1>1, <1>2, CollectBoxes

LEMMA FinishCollectBoxes ==
  ASSUME BoxInv, NEW c \in Coupled, FinishCollect(c)
  PROVE  BoxInv'
<1>1. /\ phase = "collect" /\ UNCHANGED <<phase, inbox>>
      /\ outbox' = [outbox EXCEPT ![c] = CollectMessagesByEoc(c)]
  BY DEF FinishCollect
<1>2. CollectMessagesByEoc(c) \in Box
  BY Collected DEF BoxInv
<1>3. outbox' \in [Model -> Box]
  BY <1>1, <1>2 DEF BoxInv, BoxType
<1>4. QED
  BY <1>1, <1>3, CollectBoxes

(* In the second half a model m moves on, and only the inboxes of submodels   *)
(* that have not been called yet get messages.                                *)
LEMMA AdvanceBoxes ==
  ASSUME BoxInv, phase = "advance", phase' = phase, stage \in [Model -> Stage],
         NEW m \in Model, m # Top => stage[Parent(m)] # "todo",
         NEW s \in {"running", "done"}, stage' = [stage EXCEPT ![m] = s],
         m \in Coupled \/ s = "done",
         s = "done" => inbox'[m] = NoBox,
         outbox' \in [Model -> Box], outbox'[m] = NoBox,
         \A d \in Model : d # m => outbox'[d] = outbox[d],
         inbox' \in [Model -> Box],
         \A d \in Model : Filled(inbox'[d]),
         \A d \in Model : d # m /\ stage[d] = "done" => inbox'[d] = inbox[d]
  PROVE  BoxInv'
<1>1. stage'[m] = s /\ \A d \in Model : d # m => stage'[d] = stage[d]
  OBVIOUS
<1>2. Advancing
  BY DEF BoxInv
<1>3. ASSUME NEW d \in Model PROVE /\ stage'[d] # "todo" => outbox'[d] = NoBox
                                   /\ stage'[d] = "done" => inbox'[d] = NoBox
  BY <1>1, <1>2 DEF Advancing
<1>4. ASSUME NEW c \in Coupled, stage'[c] = "todo", NEW d \in Children[c] PROVE stage'[d] = "todo"
  <2>1. c \in Model /\ d \in Model /\ c # m
    BY <1>1, <1>4, ChildrenAreModels
  <2>2. stage[c] = "todo" /\ stage[d] = "todo"
    BY <1>1, <1>2, <1>4, <2>1 DEF Advancing
  <2>3. d # m
    <3>1. ASSUME d = m PROVE FALSE
      <4>1. Parent(m) = c
        BY <1>4, <3>1, TreeAssumption DEF Parent
      <4>2. m = Top
        BY <2>2, <4>1
      <4>3. QED
        BY <1>4, <3>1, <4>2, TopIsNoChild
    <3>2. QED
      BY <3>1
  <2>4. QED
    BY <1>1, <2>1, <2>2, <2>3
<1>5. Advancing'
  BY <1>3, <1>4 DEF Advancing
<1>6. QED
  BY <1>5 DEF BoxInv, BoxType, InRound

LEMMA CoordinateAdvanceBoxes ==
  ASSUME EngineInv, BoxInv, NEW c \in Coupled, CoordinateAdvance(c)
  PROVE  BoxInv'
<1>1. /\ c \in Model /\ phase = "advance" /\ stage[c] = "todo" /\ InRound
      /\ c # Top => stage[Parent(c)] # "todo"
  BY DEF CoordinateAdvance, Called, InRound, Model
<1>2. ~(next[c] < above_time) /\ ~(above_time < last[c])
  BY <1>1, InTime DEF EngineInv, TypeInv
<1> DEFINE ins == RouteEIC(c, RouteIC(c, inbox))
<1>3. /\ phase' = phase /\ stage' = [stage EXCEPT ![c] = "running"]
      /\ outbox' = [outbox EXCEPT ![c] = NoBox] /\ inbox' = ins
  BY <1>2 DEF CoordinateAdvance, StageOf
<1>4. /\ stage \in [Model -> Stage] /\ outbox \in [Model -> Box]
      /\ \A m \in Model : Filled(inbox[m])
      /\ BoxType /\ Advancing
  BY <1>1 DEF EngineInv, TypeInv, BoxInv, BoxType
<1>5. /\ ins \in [Model -> Box]
      /\ \A m \in Model \ Children[c] : ins[m] = inbox[m]
      /\ \A m \in Model : Filled(inbox[m]) => Filled(ins[m])
  BY <1>4, Distributed
<1> HIDE DEF ins
<1>6. \A d \in Model : stage[d] = "done" => inbox'[d] = inbox[d]
  <2>1. \A d \in Children[c] : stage[d] = "todo"
    BY <1>1, <1>4 DEF Advancing
  <2>2. QED
    BY <1>3, <1>5, <2>1
<1>7. /\ outbox' \in [Model -> Box] /\ outbox'[c] = NoBox
      /\ \A d \in Model : d # c => outbox'[d] = outbox[d]
  BY <1>1, <1>3, <1>4, Boxes
<1>8. inbox' \in [Model -> Box] /\ \A d \in Model : Filled(inbox'[d])
  BY <1>3, <1>4, <1>5
<1>9. "running" \in {"running", "done"} /\ "running" # "done"
  OBVIOUS
<1>10. QED
  BY <1>1, <1>3, <1>4, <1>6, <1>7, <1>8, <1>9, AdvanceBoxes

(* A model that is done has an empty inbox, and its outbox stays empty.        *)
LEMMA DoneBoxes ==
  ASSUME BoxInv, phase = "advance", phase' = phase, stage \in [Model -> Stage],
         NEW m \in Model, m # Top => stage[Parent(m)] # "todo",
         stage' = [stage EXCEPT ![m] = "done"],
         inbox' = [inbox EXCEPT ![m] = NoBox],
         outbox' = [outbox EXCEPT ![m] = NoBox]
  PROVE  BoxInv'
<1>1. inbox \in [Model -> Box] /\ outbox \in [Model -> Box] /\ \A d \in Model : Filled(inbox[d])
  BY DEF BoxInv, BoxType
<1>2. /\ inbox' \in [Model -> Box] /\ inbox'[m] = NoBox
      /\ \A d \in Model : d # m => inbox'[d] = inbox[d]
  BY <1>1, Boxes
<1>3. \A d \in Model : Filled(inbox'[d])
  BY <1>1, <1>2, Boxes
<1>4. /\ outbox' \in [Model -> Box] /\ outbox'[m] = NoBox
      /\ \A d \in Model : d # m => outbox'[d] = outbox[d]
  BY <1>1, Boxes
<1>5. "done" \in {"running", "done"}
  OBVIOUS
<1>6. QED
  BY <1>2, <1>3, <1>4, <1>5, AdvanceBoxes

LEMMA AdvanceSimulationBoxes ==
  ASSUME EngineInv, BoxInv, NEW a \in Atomic, NEW ta \in TimeAdvances, AdvanceSimulation(a, ta)
  PROVE  BoxInv'
<1>1. /\ a \in Model /\ phase = "advance" /\ InRound
      /\ a # Top => stage[Parent(a)] # "todo"
  BY DEF AdvanceSimulation, Called, InRound, Model
<1>2. ~(next[a] < above_time) /\ ~(above_time < last[a])
  BY <1>1, InTime DEF EngineInv, TypeInv
<1>3. /\ phase' = phase /\ stage' = [stage EXCEPT ![a] = "done"]
      /\ outbox' = [outbox EXCEPT ![a] = NoBox]
      /\ inbox' = [inbox EXCEPT ![a] = NoBox] \/ (inbox[a] = NoBox /\ inbox' = inbox)
  BY <1>2 DEF AdvanceSimulation, StageOf
<1>4. stage \in [Model -> Stage] /\ inbox \in [Model -> Box]
  BY DEF EngineInv, TypeInv, BoxInv, BoxType
<1>5. inbox' = [inbox EXCEPT ![a] = NoBox]
  BY <1>1, <1>3, <1>4
<1>6. QED
  BY <1>1, <1>3, <1>4, <1>5, DoneBoxes

LEMMA FinishAdvanceBoxes ==
  ASSUME EngineInv, BoxInv, NEW c \in Coupled, FinishAdvance(c)
  PROVE  BoxInv'
<1>1. /\ c \in Model /\ phase = "advance" /\ stage[c] = "running"
      /\ phase' = phase /\ stage' = [stage EXCEPT ![c] = "done"]
      /\ inbox' = [inbox EXCEPT ![c] = NoBox] /\ outbox' = outbox
  BY DEF FinishAdvance, AllDone, StageOf, Model
<1>2. stage \in [Model -> Stage] /\ outbox \in [Model -> Box] /\ outbox[c] = NoBox /\ Advancing
  BY <1>1 DEF EngineInv, TypeInv, BoxInv, BoxType, Advancing
<1>3. outbox' = [outbox EXCEPT ![c] = NoBox]
  BY <1>1, <1>2
<1>4. c # Top => stage[Parent(c)] # "todo"
  <2>1. ASSUME c # Top PROVE stage[Parent(c)] # "todo"
    <3>1. \E d \in Coupled : c \in Children[d]
      BY <2>1, TreeAssumption
    <3>2. Parent(c) \in Coupled /\ c \in Children[Parent(c)]
      BY <3>1 DEF Parent
    <3>3. QED
      BY <1>1, <1>2, <3>2 DEF Advancing
  <2>2. QED
    BY <2>1
<1>5. QED
  BY <1>1, <1>2, <1>3, <1>4, DoneBoxes

LEMMA RunnerBoxes ==
  ASSUME EngineInv, BoxInv, StartRound \/ StartAdvance \/ FinishRound \/ Return
  PROVE  BoxInv'
<1>1. UNCHANGED <<inbox, outbox>> /\ stage' = [m \in Model |-> "todo"]
  BY DEF StartRound, StartAdvance, FinishRound, Return, NewPhase, boxes
<1>2. \A m \in Model : stage'[m] = "todo"
  BY <1>1
<1>3. BoxType' /\ \A m \in Model : Filled(inbox'[m])
  BY <1>1 DEF BoxInv, BoxType
<1>4. CASE StartRound \/ Return
  BY <1>1, <1>3, <1>4 DEF BoxInv, StartRound, Return, NewPhase, InRound
<1>5. CASE StartAdvance
  <2>1. phase = "collect" /\ phase' = "advance" /\ \A m \in Model : inbox[m] = NoBox
    BY <1>5 DEF StartAdvance, NewPhase, BoxInv
  <2>2. Advancing'
    BY <1>2, ChildrenAreModels DEF Advancing
  <2>3. QED
    BY <1>1, <1>3, <2>1, <2>2 DEF BoxInv, InRound
<1>6. CASE FinishRound
  <2>1. phase = "advance" /\ phase' = "ready" /\ stage[Top] = "done" /\ Advancing
    BY <1>6 DEF FinishRound, NewPhase, BoxInv
  <2>2. \A m \in Model : inbox[m] = NoBox /\ outbox[m] = NoBox
    BY <2>1, AllKnown DEF Advancing
  <2>3. QED
    BY <1>1, <1>3, <2>1, <2>2 DEF BoxInv, InRound
<1>7. QED
  BY <1>4, <1>5, <1>6

LEMMA NextBoxes == EngineInv /\ BoxInv /\ [Next]_vars => BoxInv'
<1>1. ASSUME EngineInv, BoxInv, Next PROVE BoxInv'
  BY <1>1, RunnerBoxes, CoordinateCollectBoxes, FinishCollectBoxes, CoordinateAdvanceBoxes,
     FinishAdvanceBoxes, CollectOutputsBoxes, AdvanceSimulationBoxes DEF Next
<1>2. ASSUME BoxInv, UNCHANGED vars PROVE BoxInv'
  BY <1>2 DEF vars, boxes, BoxInv, BoxType, Advancing, InRound
<1>3. QED
  BY <1>1, <1>2
-----------------------------------------------------------------------------
(* The static engine computes all next events in one recursion.               *)
StaticInv ==
  /\ s_phase \in {"ready", "collect", "advance", "next"}
  /\ s_next_event \in Nat
  /\ s_now \in Nat
  /\ s_last \in [Model -> Nat]
  /\ s_next \in [Model -> Nat]
  /\ ~s_failed
  /\ LeastBelow(s_next)
  /\ \A m \in Model : s_last[m] <= s_now
  /\ s_phase = "ready" => s_next_event = s_next[Top]
  /\ s_phase \in {"collect", "advance"} => s_now < StaticLimit
  /\ s_now <= s_next[Top]

LEMMA SameTree ==
  /\ Static!Coupled = Coupled /\ Static!Atomic = Atomic /\ Static!Model = Model
  /\ \A ta : Static!MinNext(ta) = InitSubcoordinators(ta)
BY DEF Static!Coupled, Static!Atomic, Static!Model, Static!MinNext, Static!Least,
       Coupled, Atomic, Model, InitSubcoordinators, MinNextInSubcoordinators, Least

LEMMA InitStatic == Static!Init => StaticInv
<1> SUFFICES ASSUME Static!Init PROVE StaticInv
  OBVIOUS
<1>1. PICK ta \in [Atomic -> StaticTimeAdvances] : s_next = InitSubcoordinators(ta)
  BY SameTree DEF Static!Init
<1>2. s_next \in [Model -> StaticTimeAdvances] /\ LeastBelow(s_next)
  BY <1>1, StaticTimesAssumption, Initialized
<1>3. s_next \in [Model -> Nat] /\ s_next[Top] \in Nat
  BY <1>2, StaticTimesAssumption, ChildrenAreModels
<1>4. QED
  BY <1>2, <1>3, ChildrenAreModels, SameTree DEF Static!Init, StaticInv

LEMMA CollectStatic ==
  ASSUME StaticInv, Static!CollectOutputs
  PROVE  StaticInv'
<1>1. /\ s_phase = "collect" /\ s_phase' = "advance"
      /\ s_failed' = (\E m \in Static!CollectCalled : s_next[m] < s_now)
      /\ UNCHANGED <<s_next_event, s_now, s_last, s_next>>
  BY DEF Static!CollectOutputs
<1>2. Static!CollectCalled \subseteq Model
  BY SameTree DEF Static!CollectCalled
<1>3. ~s_failed'
  BY <1>1, <1>2, LeastAtTop, ChildrenAreModels DEF StaticInv
<1>4. LeastBelow(s_next)'
  BY <1>1 DEF StaticInv, LeastBelow
<1>5. QED
  BY <1>1, <1>3, <1>4 DEF StaticInv

LEMMA AdvanceStatic ==
  ASSUME StaticInv, Static!AdvanceSimulation
  PROVE  StaticInv'
<1>1. /\ s_phase = "advance" /\ s_phase' = "next"
      /\ s_failed' = (\E m \in Static!Model : s_next[m] < s_now \/ s_now < s_last[m])
      /\ UNCHANGED <<s_next_event, s_now>>
  BY DEF Static!AdvanceSimulation
<1> DEFINE moves == {a \in Atomic : ~Static!AllBagsEmpty(Static!RoutedBoxes[a])}
                    \cup {a \in Atomic : s_next[a] = s_now}
<1>2. PICK ta \in [moves -> StaticTimeAdvances] :
        s_next' = InitSubcoordinators(
             [a \in Atomic |-> IF a \in moves THEN Static!After(s_now, ta[a]) ELSE s_next[a]])
  BY SameTree DEF Static!AdvanceSimulation
<1>2b. s_last' = [m \in Model |-> IF m \in Coupled \cup moves THEN s_now ELSE s_last[m]]
  BY SameTree DEF Static!AdvanceSimulation
<1> HIDE DEF moves
<1> DEFINE times == [a \in Atomic |-> IF a \in moves THEN Static!After(s_now, ta[a]) ELSE s_next[a]]
           later == {k \in Nat : s_now <= k}
<1>3. \A m \in Model : s_now <= s_next[m] /\ s_next[m] \in Nat /\ s_last[m] <= s_now /\ s_last[m] \in Nat
  <2>1. \A m \in Model : s_next[Top] <= s_next[m] /\ s_next[m] \in Nat
    BY LeastAtTop DEF StaticInv
  <2>2. QED
    BY <2>1, ChildrenAreModels DEF StaticInv
<1>4. ~s_failed'
  BY <1>1, <1>3, SameTree DEF StaticInv
<1>5. times \in [Atomic -> later]
  <2>1. ASSUME NEW a \in Atomic PROVE times[a] \in later
    <3>1. a \in Model /\ s_now \in Nat /\ s_now < StaticLimit
      BY <1>1 DEF Model, StaticInv
    <3>2. CASE a \in moves
      <4>1. ta[a] \in Nat
        BY <3>2, StaticTimesAssumption
      <4>2. times[a] = IF ta[a] = Infinity THEN Infinity ELSE s_now + ta[a]
        BY <3>2 DEF Static!After
      <4>3. QED
        BY <3>1, <4>1, <4>2, StaticTimesAssumption, TimesAssumption
    <3>3. CASE a \notin moves
      BY <1>3, <3>1, <3>3
    <3>4. QED
      BY <3>2, <3>3
  <2>2. QED
    BY <2>1
<1>6. s_next' \in [Model -> later] /\ LeastBelow(s_next')
  <2> HIDE DEF times
  <2>1. later \in SUBSET Nat
    OBVIOUS
  <2> HIDE DEF later
  <2>2. InitSubcoordinators(times) \in [Model -> later] /\ LeastBelow(InitSubcoordinators(times))
    BY <1>5, <2>1, Initialized
  <2>3. QED
    BY <1>2, <2>2 DEF times
<1>7. LeastBelow(s_next)'
  BY <1>6 DEF LeastBelow
<1>8. \A m \in Model : s_last'[m] \in Nat /\ s_last'[m] <= s_now
  BY <1>2b, <1>3 DEF StaticInv
<1>9. s_last' \in [Model -> Nat]
  BY <1>2b, <1>8
<1>10. s_next' \in [Model -> Nat] /\ s_now <= s_next'[Top]
  BY <1>6, ChildrenAreModels
<1>11. QED
  BY <1>1, <1>4, <1>7, <1>8, <1>9, <1>10 DEF StaticInv

LEMMA NextStatic == StaticInv /\ [Static!Next]_s_vars => StaticInv'
<1>1. ASSUME StaticInv, Static!StartRound PROVE StaticInv'
  <2>1. /\ s_phase = "ready" /\ s_phase' = "collect" /\ s_now' = s_next_event
        /\ s_next_event < StaticLimit
        /\ UNCHANGED <<s_next_event, s_last, s_next, s_failed>>
    BY <1>1 DEF Static!StartRound
  <2>2. LeastBelow(s_next)'
    BY <1>1, <2>1 DEF StaticInv, LeastBelow
  <2>3. s_now' \in Nat /\ s_now <= s_now' /\ s_now' <= s_next[Top]
    BY <1>1, <2>1, ChildrenAreModels DEF StaticInv
  <2>4. \A m \in Model : s_last[m] <= s_now'
    BY <1>1, <2>3 DEF StaticInv
  <2>5. QED
    BY <1>1, <2>1, <2>2, <2>3, <2>4 DEF StaticInv
<1>2. ASSUME StaticInv, Static!FinishRound PROVE StaticInv'
  <2>1. /\ s_phase' = "ready" /\ s_next_event' = s_next[Top]
        /\ UNCHANGED <<s_now, s_last, s_next, s_failed>>
    BY <1>2 DEF Static!FinishRound
  <2>2. LeastBelow(s_next)'
    BY <1>2, <2>1 DEF StaticInv, LeastBelow
  <2>3. s_next[Top] \in Nat
    BY <1>2, ChildrenAreModels DEF StaticInv
  <2>4. QED
    BY <1>2, <2>1, <2>2, <2>3 DEF StaticInv
<1>3. ASSUME StaticInv, UNCHANGED s_vars PROVE StaticInv'
  BY <1>3 DEF s_vars, StaticInv, LeastBelow
<1>4. QED
  BY <1>1, <1>2, <1>3, CollectStatic, AdvanceStatic DEF Static!Next
-----------------------------------------------------------------------------
(* The pieces of the parallel loop cover its elements and do not overlap, so   *)
(* that it calls the function once for every element.                          *)
Team == 0 .. team - 1

(* Thread t has made its calls for the elements from First(t) up to at[t].    *)
Made(k) == \E t \in Team : Loop!First(t) <= k /\ k < at[t]

LoopType ==
  /\ n \in Nat \ {0}
  /\ thread_number \in Nat \ {0}
  /\ team \in 1 .. thread_number
  /\ at \in [Team -> Nat]
  /\ called \in [0 .. n - 1 -> Nat]

LoopInv ==
  /\ LoopType
  /\ \A t \in Team : Loop!First(t) <= at[t] /\ at[t] <= Loop!End(t)
  /\ \A k \in 0 .. n - 1 : called[k] = IF Made(k) THEN 1 ELSE 0
-----------------------------------------------------------------------------
(* What the proofs need to know of the size of a piece.                       *)
LEMMA Monotone ==
  ASSUME NEW q \in Nat, NEW a \in Nat, NEW b \in Nat, a <= b
  PROVE  q * a \in Nat /\ q * a <= q * b
<1>1. q * (b - a) >= 0 /\ q * b = q * a + q * (b - a)
  OBVIOUS
<1>2. q * a \in Nat
  OBVIOUS
<1>3. QED
  BY <1>1, <1>2

LEMMA Piece ==
  ASSUME NEW a \in Nat, NEW b \in Nat \ {0}
  PROVE  /\ a \div b \in Nat
         /\ (a \div b) * b <= a
         /\ a < (a \div b + 1) * b
<1>1. a = (b * (a \div b)) + (a % b) /\ a % b \in 0 .. b - 1
  OBVIOUS
<1>2. a \div b \in Nat
  OBVIOUS
<1>3. QED
  BY <1>1, <1>2

(* A piece lies among the elements, and ends where the next one begins.       *)
LEMMA Pieces ==
  ASSUME n \in Nat \ {0}, thread_number \in Nat \ {0}, NEW t \in 0 .. thread_number - 1
  PROVE  /\ Loop!First(t) \in Nat /\ Loop!End(t) \in Nat
         /\ Loop!First(t) <= Loop!End(t) /\ Loop!End(t) <= n
         /\ \A u \in 0 .. thread_number - 1 : t < u => Loop!End(t) <= Loop!First(u)
<1> DEFINE q == n \div thread_number
<1>1. q \in Nat /\ q * thread_number <= n
  BY Piece
<1>2. /\ Loop!First(t) = q * t
      /\ Loop!End(t) = IF t = thread_number - 1 THEN n ELSE q * (t + 1)
      /\ \A u \in 0 .. thread_number - 1 : Loop!First(u) = q * u
  BY DEF Loop!First, Loop!End
<1> HIDE DEF q
<1>3. q * t \in Nat /\ q * t <= q * thread_number
  BY <1>1, Monotone
<1>4. q * t <= q * (t + 1) /\ q * (t + 1) \in Nat /\ q * (t + 1) <= q * thread_number
  BY <1>1, Monotone
<1>5. q * thread_number \in Nat
  BY <1>1, Monotone
<1>6. ASSUME NEW u \in 0 .. thread_number - 1, t < u PROVE Loop!End(t) <= Loop!First(u)
  <2>1. q * (t + 1) <= q * u
    BY <1>1, <1>6, Monotone
  <2>2. QED
    BY <1>2, <1>6, <2>1
<1>7. QED
  BY <1>1, <1>2, <1>3, <1>4, <1>5, <1>6

(* Every element is in a piece.                                               *)
LEMMA Covered ==
  ASSUME n \in Nat \ {0}, thread_number \in Nat \ {0}, NEW k \in 0 .. n - 1
  PROVE  \E t \in 0 .. thread_number - 1 : Loop!First(t) <= k /\ k < Loop!End(t)
<1> DEFINE q == n \div thread_number
           lastThread == thread_number - 1
<1>1. q \in Nat
  BY Piece
<1>2. \A t \in 0 .. lastThread : Loop!First(t) = q * t
  BY DEF Loop!First
<1>3. Loop!End(lastThread) = n /\ \A t \in 0 .. lastThread : t # lastThread => Loop!End(t) = q * (t + 1)
  BY DEF Loop!First, Loop!End
<1> HIDE DEF q
<1>4. CASE q * lastThread <= k
  BY <1>2, <1>3, <1>4
<1>5. CASE ~(q * lastThread <= k)
  <2>1. q * lastThread \in Int /\ k < q * lastThread
    BY <1>1, <1>5
  <2>2. q \in Nat \ {0}
    BY <1>1, <2>1
  <2> DEFINE t == k \div q
  <2>3. t \in Nat /\ t * q <= k /\ k < (t + 1) * q
    BY <2>2, Piece
  <2> HIDE DEF t
  <2>4. t * q = q * t /\ (t + 1) * q = q * (t + 1)
    BY <2>2, <2>3
  <2>5. t < lastThread
    <3>1. ASSUME lastThread <= t PROVE FALSE
      <4>1. q * lastThread <= q * t
        BY <1>1, <2>3, <3>1, Monotone
      <4>2. q * t \in Nat
        BY <1>1, <2>3, Monotone
      <4>3. QED
        BY <2>1, <2>3, <2>4, <4>1, <4>2
    <3>2. QED
      BY <2>3, <3>1
  <2>6. t \in 0 .. lastThread
    BY <2>3, <2>5
  <2>7. Loop!First(t) <= k /\ k < Loop!End(t)
    BY <1>2, <1>3, <2>3, <2>4, <2>5, <2>6
  <2>8. QED
    BY <2>6, <2>7
<1>6. QED
  BY <1>4, <1>5
-----------------------------------------------------------------------------
LEMMA InitLoop ==
  ASSUME Loop!Init
  PROVE  LoopInv
<1>1. n \in Nat \ {0} /\ thread_number \in Nat \ {0} /\ team \in 1 .. thread_number
  BY LoopAssumption DEF Loop!Init, Loop!Threads
<1>2. \A t \in Team : t \in 0 .. thread_number - 1
  BY <1>1 DEF Team
<1>3. \A t \in Team : at[t] = Loop!First(t) /\ Loop!First(t) \in Nat /\ Loop!First(t) <= Loop!End(t)
  BY <1>1, <1>2, Pieces DEF Loop!Init, Team
<1>4. at \in [Team -> Nat]
  BY <1>3 DEF Loop!Init, Team
<1>5. called \in [0 .. n - 1 -> Nat] /\ \A k \in 0 .. n - 1 : called[k] = 0
  BY DEF Loop!Init
<1>6. \A k \in 0 .. n - 1 : ~Made(k)
  BY <1>1, <1>3 DEF Made
<1>7. QED
  BY <1>1, <1>3, <1>4, <1>5, <1>6 DEF LoopInv, LoopType

(* The element that a thread calls the function for was not called before:    *)
(* it is past those the thread has made, and in no other piece.               *)
LEMMA CallLoop ==
  ASSUME LoopInv, NEW t \in Team, Loop!Call(t)
  PROVE  LoopInv'
<1>1. /\ n \in Nat \ {0} /\ thread_number \in Nat \ {0} /\ team \in 1 .. thread_number
      /\ at \in [Team -> Nat] /\ called \in [0 .. n - 1 -> Nat]
      /\ Team \subseteq 0 .. thread_number - 1
  BY DEF LoopInv, LoopType, Team
<1>2. /\ n' = n /\ thread_number' = thread_number /\ team' = team
      /\ at[t] < Loop!End(t)
      /\ called' = [called EXCEPT ![at[t]] = called[at[t]] + 1]
      /\ at' = [at EXCEPT ![t] = at[t] + 1]
  BY DEF Loop!Call
<1>3. Team' = Team /\ \A u \in Team : Loop!First(u)' = Loop!First(u) /\ Loop!End(u)' = Loop!End(u)
  BY <1>2 DEF Team, Loop!First, Loop!End
<1>4. \A u \in Team : /\ Loop!First(u) \in Nat /\ Loop!End(u) \in Nat /\ Loop!End(u) <= n
                      /\ Loop!First(u) <= at[u] /\ at[u] <= Loop!End(u)
  BY <1>1, Pieces DEF LoopInv
<1>5. \A u \in Team : u # t => Loop!End(u) <= Loop!First(t) \/ Loop!End(t) <= Loop!First(u)
  <2>1. ASSUME NEW u \in Team, u # t PROVE Loop!End(u) <= Loop!First(t) \/ Loop!End(t) <= Loop!First(u)
    <3>1. u \in 0 .. thread_number - 1 /\ t \in 0 .. thread_number - 1
      BY <1>1
    <3>2. u < t \/ t < u
      BY <2>1, <3>1
    <3>3. QED
      BY <1>1, <3>1, <3>2, Pieces
  <2>2. QED
    BY <2>1
<1>6. at[t] \in 0 .. n - 1
  BY <1>1, <1>2, <1>4
<1>7. ~Made(at[t])
  <2>1. ASSUME NEW u \in Team, Loop!First(u) <= at[t], at[t] < at[u] PROVE FALSE
    <3>1. at[t] \in Nat /\ at[u] \in Nat
      BY <1>1
    <3>2. u # t
      BY <2>1, <3>1
    <3>3. QED
      BY <1>2, <1>4, <1>5, <2>1, <3>1, <3>2
  <2>2. QED
    BY <2>1 DEF Made
<1>8. /\ at' \in [Team -> Nat]
      /\ at'[t] = at[t] + 1
      /\ \A u \in Team : u # t => at'[u] = at[u]
  BY <1>1, <1>2
<1>9. /\ called' \in [0 .. n - 1 -> Nat]
      /\ called'[at[t]] = 1
      /\ \A k \in 0 .. n - 1 : k # at[t] => called'[k] = called[k]
  BY <1>1, <1>2, <1>6, <1>7 DEF LoopInv
<1>10. \A k \in 0 .. n - 1 : Made(k)' <=> Made(k) \/ k = at[t]
  <2>1. ASSUME NEW k \in 0 .. n - 1 PROVE Made(k)' <=> Made(k) \/ k = at[t]
    <3>1. Made(k)' <=> \E u \in Team : Loop!First(u) <= k /\ k < at'[u]
      BY <1>3 DEF Made
    <3>2. Loop!First(t) <= k /\ k < at'[t] <=> (Loop!First(t) <= k /\ k < at[t]) \/ k = at[t]
      BY <1>1, <1>4, <1>8, <2>1
    <3>3. QED
      BY <1>8, <3>1, <3>2 DEF Made
  <2>2. QED
    BY <2>1
<1>11. \A k \in 0 .. n - 1 : called'[k] = IF Made(k)' THEN 1 ELSE 0
  BY <1>6, <1>7, <1>9, <1>10 DEF LoopInv
<1>12. \A u \in Team : Loop!First(u) <= at'[u] /\ at'[u] <= Loop!End(u)
  BY <1>1, <1>2, <1>4, <1>8
<1>13. LoopType'
  BY <1>1, <1>2, <1>3, <1>8, <1>9 DEF LoopType
<1>14. QED
  BY <1>2, <1>3, <1>11, <1>12, <1>13 DEF LoopInv

LEMMA NextLoop == LoopInv /\ [Loop!Next]_l_vars => LoopInv'
<1>1. ASSUME LoopInv, Loop!Next PROVE LoopInv'
  <2>1. DOMAIN at = Team
    BY <1>1 DEF LoopInv, LoopType
  <2>2. QED
    BY <1>1, <2>1, CallLoop DEF Loop!Next
<1>2. ASSUME LoopInv, UNCHANGED l_vars PROVE LoopInv'
  BY <1>2 DEF l_vars, LoopInv, LoopType, Team, Made, Loop!First, Loop!End
<1>3. QED
  BY <1>1, <1>2

LEMMA LoopEachOnce == LoopInv => Loop!EachOnce
<1>1. ASSUME LoopInv PROVE Loop!EachOnce
  <2>1. DOMAIN called = 0 .. n - 1 /\ DOMAIN at = Team
    BY <1>1 DEF LoopInv, LoopType
  <2>2. \A k \in DOMAIN called : called[k] <= 1
    BY <1>1, <2>1 DEF LoopInv
  <2>3. ASSUME Loop!Finished, team = thread_number, NEW k \in DOMAIN called PROVE called[k] = 1
    <3>1. PICK t \in 0 .. thread_number - 1 : Loop!First(t) <= k /\ k < Loop!End(t)
      BY <1>1, <2>1, Covered DEF LoopInv, LoopType
    <3>2. t \in Team /\ at[t] = Loop!End(t)
      BY <2>1, <2>3 DEF Loop!Finished, Team
    <3>3. Made(k)
      BY <3>1, <3>2 DEF Made
    <3>4. QED
      BY <1>1, <2>1, <3>3 DEF LoopInv
  <2>4. QED
    BY <2>2, <2>3 DEF Loop!EachOnce
<1>2. QED
  BY <1>1
-----------------------------------------------------------------------------
(* A task is in one place: in the queue, in a call of some thread, or over.    *)
OneStack ==
  \A t, u \in Thread : \A j \in DOMAIN stack[t], k \in DOMAIN stack[u] :
    stack[t][j] = stack[u][k] => t = u /\ j = k

Begun == Pool!Queued \cup Pool!Running \cup ready

PoolType ==
  /\ queue \in Seq(Engine)
  /\ stack \in [Thread -> Seq(Engine)]
  /\ submitted \in [Engine -> Nat]
  /\ ready \subseteq Engine

(* The tasks that a call has submitted are those that have begun.             *)
PoolInv ==
  /\ PoolType
  /\ \A e \in Engine : submitted[e] <= Len(Below[e])
  /\ \A e \in Engine : \A k \in DOMAIN Below[e] : Below[e][k] \in Begun <=> k <= submitted[e]
  /\ Pool!CalledWithin

LEMMA WhereQueued ==
  ASSUME NEW x
  PROVE  x \in Pool!Queued <=> \E k \in DOMAIN queue : queue[k] = x
BY DEF Pool!Queued

LEMMA WhereRunning ==
  ASSUME NEW x
  PROVE  x \in Pool!Running <=> \E t \in Thread : \E k \in DOMAIN stack[t] : stack[t][k] = x
<1>1. x \in Pool!Running <=> \E t \in Thread : x \in {stack[t][k] : k \in DOMAIN stack[t]}
  BY DEF Pool!Running
<1>2. QED
  BY <1>1

LEMMA InnerRunning ==
  ASSUME PoolType, NEW t \in Thread, stack[t] # <<>>
  PROVE  /\ Len(stack[t]) \in DOMAIN stack[t]
         /\ Pool!Inner(t) = stack[t][Len(stack[t])]
         /\ Pool!Inner(t) \in Engine
         /\ Pool!Inner(t) \in Pool!Running
<1>1. stack[t] \in Seq(Engine) /\ Len(stack[t]) \in Nat
  BY DEF PoolType
<1>2. Len(stack[t]) # 0
  BY <1>1, EmptySeq
<1>3. Len(stack[t]) \in DOMAIN stack[t]
  BY <1>1, <1>2
<1>4. Pool!Inner(t) = stack[t][Len(stack[t])]
  BY DEF Pool!Inner, Pool!Last
<1>5. QED
  BY <1>1, <1>3, <1>4, WhereRunning, ElementOfSeq

LEMMA InitPool == Pool!Init => PoolInv
<1> SUFFICES ASSUME Pool!Init PROVE PoolInv
  OBVIOUS
<1>1. /\ queue = <<>> /\ ready = {}
      /\ stack = [t \in Thread |-> IF t = Runner THEN <<Root>> ELSE <<>>]
      /\ submitted = [e \in Engine |-> 0]
  BY DEF Pool!Init
<1>2. PoolType
  BY <1>1, PoolAssumption DEF PoolType
<1>3. Pool!Queued = {}
  BY <1>1, WhereQueued
<1>4. \A t \in Thread : \A k \in DOMAIN stack[t] : t = Runner /\ k = 1 /\ stack[t][k] = Root
  BY <1>1
<1>5. Pool!Running \subseteq {Root}
  BY <1>4, WhereRunning
<1>6. \A e \in Engine : Below[e] \in Seq(Engine \ {Root})
  BY PoolAssumption
<1>7. \A e \in Engine : \A k \in DOMAIN Below[e] : Below[e][k] \notin Begun /\ ~(k <= submitted[e])
  <2>1. ASSUME NEW e \in Engine, NEW k \in DOMAIN Below[e]
        PROVE  Below[e][k] # Root /\ ~(k <= 0)
    BY <1>6, <2>1, ElementOfSeq
  <2>2. QED
    BY <1>1, <1>3, <1>5, <2>1 DEF Begun
<1>8. \A e \in Engine : Len(Below[e]) \in Nat
  BY <1>6
<1>9. Pool!CalledWithin
  BY <1>1, <1>3, <1>4 DEF Pool!CalledWithin, Pool!IsInjective
<1>10. QED
  BY <1>1, <1>2, <1>7, <1>8, <1>9 DEF PoolInv

LEMMA AppendedElements ==
  ASSUME NEW S, NEW s \in Seq(S), NEW x \in S
  PROVE  /\ Append(s, x) \in Seq(S)
         /\ DOMAIN Append(s, x) = DOMAIN s \cup {Len(s) + 1}
         /\ Len(s) + 1 \notin DOMAIN s
         /\ Append(s, x)[Len(s) + 1] = x
         /\ \A k \in DOMAIN s : Append(s, x)[k] = s[k]
OBVIOUS

(* The head of the queue is taken, so that the others stay, one place nearer. *)
LEMMA RestOfQueue ==
  ASSUME PoolType, queue # <<>>, Pool!IsInjective(queue)
  PROVE  /\ Head(queue) \in Engine /\ Head(queue) \in Pool!Queued
         /\ Tail(queue) \in Seq(Engine)
         /\ Pool!IsInjective(Tail(queue))
         /\ {Tail(queue)[k] : k \in DOMAIN Tail(queue)} = Pool!Queued \ {Head(queue)}
<1>1. /\ queue \in Seq(Engine) /\ Head(queue) \in Engine /\ Tail(queue) \in Seq(Engine)
      /\ Len(Tail(queue)) = Len(queue) - 1
      /\ \A k \in 1 .. Len(Tail(queue)) : Tail(queue)[k] = queue[k + 1]
  BY HeadTailProperties DEF PoolType
<1> DEFINE q == Tail(queue)
<1>2. /\ DOMAIN q = 1 .. Len(q) /\ DOMAIN queue = 1 .. Len(q) + 1
      /\ Len(q) \in Nat /\ Len(queue) = Len(q) + 1
  BY <1>1, LenProperties
<1>3. Head(queue) = queue[1]
  BY <1>1
<1> HIDE DEF q
<1>4. \A k \in DOMAIN q : q[k] = queue[k + 1] /\ k + 1 \in DOMAIN queue /\ k + 1 # 1
  BY <1>1, <1>2 DEF q
<1>5. \A j, k \in DOMAIN queue : queue[j] = queue[k] => j = k
  BY DEF Pool!IsInjective
<1>6. Pool!IsInjective(q)
  <2>1. ASSUME NEW j \in DOMAIN q, NEW k \in DOMAIN q, q[j] = q[k] PROVE j = k
    <3>1. j + 1 = k + 1
      BY <1>4, <1>5, <2>1
    <3>2. QED
      BY <1>2, <3>1
  <2>2. QED
    BY <2>1 DEF Pool!IsInjective
<1>7. 1 \in DOMAIN queue
  BY <1>2
<1>8. \A j \in DOMAIN queue : j # 1 => j - 1 \in DOMAIN q /\ q[j - 1] = queue[j]
  <2>1. ASSUME NEW j \in DOMAIN queue, j # 1 PROVE j - 1 \in DOMAIN q /\ (j - 1) + 1 = j
    BY <1>2, <2>1
  <2>2. QED
    BY <1>4, <2>1
<1>9. ASSUME NEW x PROVE x \in {q[k] : k \in DOMAIN q} <=> x \in Pool!Queued /\ x # Head(queue)
  <2>1. ASSUME NEW k \in DOMAIN q PROVE q[k] \in Pool!Queued /\ q[k] # Head(queue)
    BY <1>3, <1>4, <1>5, <1>7, WhereQueued
  <2>2. ASSUME NEW j \in DOMAIN queue, queue[j] # Head(queue) PROVE queue[j] \in {q[k] : k \in DOMAIN q}
    BY <1>3, <1>8, <2>2
  <2>3. QED
    BY <2>1, <2>2, WhereQueued
<1>10. {q[k] : k \in DOMAIN q} = Pool!Queued \ {Head(queue)}
  BY <1>9
<1>11. QED
  BY <1>1, <1>3, <1>6, <1>7, <1>10, WhereQueued DEF q

LEMMA SubmitPool ==
  ASSUME PoolInv, NEW t \in Thread, Pool!Submit(t)
  PROVE  PoolInv'
<1> DEFINE e == Pool!Inner(t)
           i == submitted[e] + 1
           x == Below[e][i]
<1>1. /\ stack[t] # <<>> /\ submitted[e] < Len(Below[e])
      /\ queue' = Append(queue, x)
      /\ submitted' = [submitted EXCEPT ![e] = submitted[e] + 1]
      /\ stack' = stack /\ ready' = ready
  BY DEF Pool!Submit
<1>2. PoolType /\ Pool!CalledWithin
  BY DEF PoolInv
<1>3. e \in Engine /\ e \in Pool!Running
  BY <1>1, <1>2, InnerRunning
<1> HIDE DEF e
<1>4. /\ Below[e] \in Seq(Engine) /\ DOMAIN Below[e] = 1 .. Len(Below[e]) /\ Len(Below[e]) \in Nat
      /\ \A f \in Engine : DOMAIN Below[f] = 1 .. Len(Below[f]) /\ Len(Below[f]) \in Nat
  BY <1>3, PoolAssumption
<1>5. i \in DOMAIN Below[e] /\ submitted[e] \in Nat /\ ~(i <= submitted[e])
  BY <1>1, <1>2, <1>3, <1>4 DEF PoolType
<1>6. x \in Engine /\ x \notin Begun
  BY <1>3, <1>4, <1>5, ElementOfSeq DEF PoolInv
<1> HIDE DEF x
<1>7. /\ queue' \in Seq(Engine)
      /\ DOMAIN queue' = DOMAIN queue \cup {Len(queue) + 1} /\ Len(queue) + 1 \notin DOMAIN queue
      /\ queue'[Len(queue) + 1] = x /\ \A k \in DOMAIN queue : queue'[k] = queue[k]
  BY <1>1, <1>2, <1>6, AppendedElements DEF PoolType
<1>8. Pool!Queued' = Pool!Queued \cup {x}
  BY <1>7 DEF Pool!Queued
<1>9. Pool!Running' = Pool!Running /\ Begun' = Begun \cup {x}
  BY <1>1, <1>8 DEF Pool!Running, Begun
<1>10. PoolType'
  BY <1>1, <1>2, <1>3, <1>7 DEF PoolType
<1>11. submitted'[e] = i /\ \A f \in Engine : f # e => submitted'[f] = submitted[f]
  BY <1>1, <1>2, <1>3 DEF PoolType
<1>12. \A f \in Engine : submitted'[f] <= Len(Below[f])
  BY <1>4, <1>5, <1>11 DEF PoolInv
<1>13. ASSUME NEW f \in Engine, NEW k \in DOMAIN Below[f]
       PROVE  Below[f][k] \in Begun' <=> k <= submitted'[f]
  <2>1. Below[f][k] \in Begun <=> k <= submitted[f]
    BY DEF PoolInv
  <2>2. Below[f][k] = x <=> f = e /\ k = i
    BY <1>3, <1>5, PoolAssumption DEF x
  <2>3. k \in Nat
    BY <1>4
  <2>4. CASE f = e
    BY <1>5, <1>9, <1>11, <2>1, <2>2, <2>3, <2>4
  <2>5. CASE f # e
    BY <1>9, <1>11, <2>1, <2>2, <2>5
  <2>6. QED
    BY <2>4, <2>5
<1>14. ASSUME NEW f \in Engine, NEW k \in 1 .. submitted'[f], Below[f][k] \in Pool!Queued' \cup Pool!Running'
       PROVE  f \in Pool!Running'
  <2>1. k \in DOMAIN Below[f]
    BY <1>4, <1>10, <1>12, <1>14 DEF PoolType
  <2>2. CASE f = e
    BY <1>3, <1>9, <2>2
  <2>3. CASE f # e
    <3>1. Below[f][k] # x
      BY <1>3, <1>5, <2>1, <2>3, PoolAssumption DEF x
    <3>2. k \in 1 .. submitted[f] /\ Below[f][k] \in Pool!Queued \cup Pool!Running
      BY <1>8, <1>9, <1>11, <1>14, <2>3, <3>1
    <3>3. QED
      BY <1>2, <1>9, <3>2 DEF Pool!CalledWithin
  <2>4. QED
    BY <2>2, <2>3
<1>15. x \notin Pool!Queued /\ x \notin Pool!Running /\ x \notin ready
  BY <1>6 DEF Begun
<1>16. Pool!IsInjective(queue')
  <2>1. \A k \in DOMAIN queue : queue[k] # x
    BY <1>15, WhereQueued
  <2>2. \A j, k \in DOMAIN queue : queue[j] = queue[k] => j = k
    BY <1>2 DEF Pool!CalledWithin, Pool!IsInjective
  <2>3. QED
    BY <1>7, <2>1, <2>2 DEF Pool!IsInjective
<1>17. Pool!CalledWithin'
  BY <1>1, <1>2, <1>8, <1>9, <1>14, <1>15, <1>16 DEF Pool!CalledWithin, Pool!IsInjective
<1>18. QED
  BY <1>10, <1>12, <1>13, <1>17 DEF PoolInv

(* A thread runs the first task, on its own or within the call that waits.    *)
LEMMA RunFirstPool ==
  ASSUME PoolInv, NEW t \in Thread, Pool!RunFirst(t)
  PROVE  PoolInv'
<1> DEFINE x == Head(queue)
<1>1. /\ queue # <<>> /\ queue' = Tail(queue)
      /\ stack' = [stack EXCEPT ![t] = Append(stack[t], x)]
      /\ submitted' = submitted /\ ready' = ready
  BY DEF Pool!RunFirst
<1>2. PoolType /\ Pool!CalledWithin /\ Pool!IsInjective(queue)
  BY DEF PoolInv, Pool!CalledWithin
<1>3. /\ x \in Engine /\ x \in Pool!Queued
      /\ queue' \in Seq(Engine) /\ Pool!IsInjective(queue')
      /\ Pool!Queued' = Pool!Queued \ {x}
  BY <1>1, <1>2, RestOfQueue DEF Pool!Queued
<1> HIDE DEF x
<1>4. /\ stack'[t] \in Seq(Engine) /\ Len(stack[t]) + 1 \notin DOMAIN stack[t]
      /\ DOMAIN stack'[t] = DOMAIN stack[t] \cup {Len(stack[t]) + 1}
      /\ stack'[t][Len(stack[t]) + 1] = x
      /\ \A k \in DOMAIN stack[t] : stack'[t][k] = stack[t][k]
  BY <1>1, <1>2, <1>3, AppendedElements DEF PoolType
<1>5. /\ stack' \in [Thread -> Seq(Engine)]
      /\ \A u \in Thread : u # t => stack'[u] = stack[u]
  BY <1>1, <1>2, <1>4 DEF PoolType
<1>6. PoolType'
  BY <1>1, <1>2, <1>3, <1>5 DEF PoolType
<1>7. \A y : y \in Pool!Running' <=> y \in Pool!Running \/ y = x
  <2>1. TAKE y
  <2>2. y \in Pool!Running' <=> \E u \in Thread : y \in {stack'[u][k] : k \in DOMAIN stack'[u]}
    BY DEF Pool!Running
  <2>3. y \in Pool!Running <=> \E u \in Thread : \E k \in DOMAIN stack[u] : stack[u][k] = y
    BY WhereRunning
  <2>4. QED
    BY <1>4, <1>5, <2>2, <2>3
<1>8. Begun' = Begun
  BY <1>1, <1>3, <1>7 DEF Begun
<1>9. x \notin Pool!Running /\ x \notin ready
  BY <1>2, <1>3 DEF Pool!CalledWithin
<1>10. OneStack'
  <2>1. \A u \in Thread : \A k \in DOMAIN stack[u] : stack[u][k] # x
    BY <1>9, WhereRunning
  <2>2. ASSUME NEW u \in Thread, NEW v \in Thread, NEW j \in DOMAIN stack'[u], NEW k \in DOMAIN stack'[v],
               stack'[u][j] = stack'[v][k]
        PROVE  u = v /\ j = k
    <3>1. stack'[u][j] = x <=> u = t /\ j = Len(stack[t]) + 1
      BY <1>4, <1>5, <2>1
    <3>2. stack'[v][k] = x <=> v = t /\ k = Len(stack[t]) + 1
      BY <1>4, <1>5, <2>1
    <3>3. CASE stack'[u][j] = x
      BY <2>2, <3>1, <3>2, <3>3
    <3>4. CASE stack'[u][j] # x
      <4>1. j \in DOMAIN stack[u] /\ stack'[u][j] = stack[u][j]
        BY <1>4, <1>5, <3>1, <3>4
      <4>2. k \in DOMAIN stack[v] /\ stack'[v][k] = stack[v][k]
        BY <1>4, <1>5, <2>2, <3>2, <3>4
      <4>3. OneStack
        BY <1>2 DEF Pool!CalledWithin, OneStack
      <4>4. stack[u][j] = stack[v][k]
        BY <2>2, <4>1, <4>2
      <4>5. QED
        BY <4>1, <4>2, <4>3, <4>4 DEF OneStack
    <3>5. QED
      BY <3>3, <3>4
  <2>3. QED
    BY <2>2 DEF OneStack
<1>11. Pool!Queued' \cup Pool!Running' = Pool!Queued \cup Pool!Running
  BY <1>3, <1>7
<1>12. /\ \A e \in Engine : \A k \in 1 .. submitted'[e] :
            Below[e][k] \in Pool!Queued' \cup Pool!Running' => e \in Pool!Running'
       /\ \A e \in ready' : \A k \in DOMAIN Below[e] : Below[e][k] \in ready'
  BY <1>1, <1>2, <1>7, <1>11 DEF Pool!CalledWithin
<1>13. /\ ready' \cap (Pool!Queued' \cup Pool!Running') = {}
       /\ Pool!Queued' \cap Pool!Running' = {}
  BY <1>1, <1>2, <1>3, <1>7, <1>11 DEF Pool!CalledWithin
<1>14. Pool!CalledWithin'
  BY <1>3, <1>10, <1>12, <1>13 DEF Pool!CalledWithin, OneStack, Pool!IsInjective
<1>15. QED
  BY <1>1, <1>6, <1>8, <1>14 DEF PoolInv

LEMMA ReturnPool ==
  ASSUME PoolInv, NEW t \in Thread, Pool!Return(t)
  PROVE  PoolInv'
<1> DEFINE e == Pool!Inner(t)
           l == Len(stack[t])
<1>1. /\ stack[t] # <<>> /\ Pool!AllReady(e)
      /\ ready' = ready \cup {e}
      /\ stack' = [stack EXCEPT ![t] = SubSeq(stack[t], 1, l - 1)]
      /\ submitted' = submitted /\ queue' = queue
  BY DEF Pool!Return, Pool!Front
<1>2. PoolType /\ Pool!CalledWithin
  BY DEF PoolInv
<1>3. e \in Engine /\ e \in Pool!Running /\ l \in DOMAIN stack[t] /\ e = stack[t][l]
  BY <1>1, <1>2, InnerRunning
<1>4. stack[t] \in Seq(Engine) /\ DOMAIN stack[t] = 1 .. l /\ l \in Nat
  BY <1>2 DEF PoolType
<1> HIDE DEF e, l
<1>5. /\ stack'[t] \in Seq(Engine)
      /\ DOMAIN stack'[t] = 1 .. l - 1
      /\ \A k \in 1 .. l - 1 : stack'[t][k] = stack[t][k] /\ k \in DOMAIN stack[t]
  <2>1. stack'[t] = SubSeq(stack[t], 1, l - 1)
    BY <1>1, <1>2 DEF PoolType
  <2>2. \A k \in 1 .. l - 1 : k \in 1 .. l /\ stack[t][k] \in Engine
    BY <1>4, ElementOfSeq DEF l
  <2>3. /\ SubSeq(stack[t], 1, l - 1) \in Seq(Engine)
        /\ Len(SubSeq(stack[t], 1, l - 1)) = IF 1 <= l - 1 THEN (l - 1) - 1 + 1 ELSE 0
        /\ \A k \in 1 .. (l - 1) - 1 + 1 : SubSeq(stack[t], 1, l - 1)[k] = stack[t][1 + k - 1]
    BY <1>4, <2>2, SubSeqProperties
  <2>4. Len(SubSeq(stack[t], 1, l - 1)) = l - 1
    BY <1>3, <1>4, <2>3
  <2>5. \A k \in 1 .. l - 1 : SubSeq(stack[t], 1, l - 1)[k] = stack[t][k]
    BY <1>4, <2>3
  <2>6. DOMAIN SubSeq(stack[t], 1, l - 1) = 1 .. l - 1
    BY <2>3, <2>4, LenProperties
  <2>7. QED
    BY <1>4, <2>1, <2>2, <2>3, <2>5, <2>6
<1>6. /\ stack' \in [Thread -> Seq(Engine)]
      /\ \A u \in Thread : u # t => stack'[u] = stack[u]
  BY <1>1, <1>2, <1>5 DEF PoolType
<1>7. PoolType'
  BY <1>1, <1>2, <1>3, <1>6 DEF PoolType
<1>8. \A u \in Thread : \A k \in DOMAIN stack'[u] : k \in DOMAIN stack[u] /\ stack'[u][k] = stack[u][k]
  BY <1>5, <1>6
<1>9. \A u \in Thread : \A k \in DOMAIN stack[u] :
        \/ k \in DOMAIN stack'[u] /\ stack'[u][k] = stack[u][k] /\ stack[u][k] # e
        \/ stack[u][k] = e /\ k \notin DOMAIN stack'[u]
  <2>1. TAKE u \in Thread
  <2>2. TAKE k \in DOMAIN stack[u]
  <2>3. stack[u][k] = e <=> u = t /\ k = l
    BY <1>2, <1>3 DEF Pool!CalledWithin
  <2>4. CASE u = t
    <3>1. k # l => k \in 1 .. l - 1
      BY <1>4, <2>4
    <3>2. l \notin 1 .. l - 1
      BY <1>4
    <3>3. QED
      BY <1>5, <2>3, <2>4, <3>1, <3>2
  <2>5. CASE u # t
    BY <1>6, <2>3, <2>5
  <2>6. QED
    BY <2>4, <2>5
<1>10. \A y : y \in Pool!Running' <=> y \in Pool!Running /\ y # e
  <2>1. TAKE y
  <2>2. y \in Pool!Running' <=> \E u \in Thread : y \in {stack'[u][k] : k \in DOMAIN stack'[u]}
    BY DEF Pool!Running
  <2>3. y \in Pool!Running' <=> \E u \in Thread : \E k \in DOMAIN stack'[u] : stack'[u][k] = y
    BY <2>2
  <2>4. y \in Pool!Running <=> \E u \in Thread : \E k \in DOMAIN stack[u] : stack[u][k] = y
    BY WhereRunning
  <2>5. \A u \in Thread : \A k \in DOMAIN stack'[u] : stack'[u][k] # e
    BY <1>8, <1>9
  <2>6. QED
    BY <1>8, <1>9, <2>3, <2>4, <2>5
<1>11. Pool!Queued' = Pool!Queued
  BY <1>1 DEF Pool!Queued
<1>12. Begun' = Begun
  BY <1>1, <1>3, <1>10, <1>11 DEF Begun
<1>13. \A k \in DOMAIN Below[e] : Below[e][k] \in ready
  BY <1>1 DEF Pool!AllReady
<1>14. ASSUME NEW f \in Engine, NEW k \in 1 .. submitted'[f], Below[f][k] \in Pool!Queued' \cup Pool!Running'
       PROVE  f \in Pool!Running'
  <2>1. Below[f][k] \in Pool!Queued \cup Pool!Running /\ f \in Pool!Running
    BY <1>1, <1>2, <1>10, <1>11, <1>14 DEF Pool!CalledWithin
  <2>2. f # e
    <3>1. ASSUME f = e PROVE FALSE
      <4>1. k \in DOMAIN Below[e]
        <5>1. DOMAIN Below[e] = 1 .. Len(Below[e]) /\ Len(Below[e]) \in Nat
          BY <1>3, PoolAssumption
        <5>2. submitted[e] \in Nat /\ submitted[e] <= Len(Below[e])
          BY <1>2, <1>3 DEF PoolType, PoolInv
        <5>3. QED
          BY <1>1, <1>14, <3>1, <5>1, <5>2
      <4>2. Below[e][k] \in ready
        BY <1>13, <4>1
      <4>3. QED
        BY <1>2, <2>1, <3>1, <4>2 DEF Pool!CalledWithin
    <3>2. QED
      BY <3>1
  <2>3. QED
    BY <1>10, <2>1, <2>2
<1>15. \A f \in ready' : \A k \in DOMAIN Below[f] : Below[f][k] \in ready'
  BY <1>1, <1>2, <1>13 DEF Pool!CalledWithin
<1>16. ready' \cap (Pool!Queued' \cup Pool!Running') = {} /\ Pool!Queued' \cap Pool!Running' = {}
  BY <1>1, <1>2, <1>3, <1>10, <1>11 DEF Pool!CalledWithin
<1>17. OneStack'
  BY <1>2, <1>8 DEF Pool!CalledWithin, OneStack
<1>18. Pool!IsInjective(queue')
  BY <1>1, <1>2 DEF Pool!CalledWithin
<1>19. Pool!CalledWithin'
  BY <1>14, <1>15, <1>16, <1>17, <1>18 DEF Pool!CalledWithin, OneStack, Pool!IsInjective
<1>20. QED
  BY <1>1, <1>7, <1>12, <1>19 DEF PoolInv

LEMMA NextPool == PoolInv /\ [Pool!Next]_p_vars => PoolInv'
<1>1. ASSUME PoolInv, Pool!Next PROVE PoolInv'
  <2>1. PICK t \in Thread : Pool!Submit(t) \/ Pool!Work(t) \/ Pool!ScheduleOne(t) \/ Pool!Return(t)
    BY <1>1 DEF Pool!Next
  <2>2. Pool!Submit(t) \/ Pool!RunFirst(t) \/ Pool!Return(t)
    BY <2>1 DEF Pool!Work, Pool!ScheduleOne
  <2>3. QED
    BY <1>1, <2>2, SubmitPool, RunFirstPool, ReturnPool
<1>2. ASSUME PoolInv, UNCHANGED p_vars PROVE PoolInv'
  <2>1. queue' = queue /\ stack' = stack /\ submitted' = submitted /\ ready' = ready
    BY <1>2 DEF p_vars
  <2>2. Pool!Queued' = Pool!Queued /\ Pool!Running' = Pool!Running
    BY <2>1 DEF Pool!Queued, Pool!Running
  <2>3. Begun' = Begun /\ PoolType'
    BY <1>2, <2>1, <2>2 DEF Begun, PoolInv, PoolType
  <2>4. Pool!CalledWithin'
    BY <1>2, <2>1, <2>2 DEF PoolInv, Pool!CalledWithin, Pool!IsInjective
  <2>5. QED
    BY <1>2, <2>1, <2>3, <2>4 DEF PoolInv
<1>3. QED
  BY <1>1, <1>2
-----------------------------------------------------------------------------
(* The static engine and the promise.  What goes through the boxes is what    *)
(* FlatOut and FlatIn say, whatever the couplings: first that these recursive *)
(* definitions have a value, and then that the boxes hold it.                 *)
(* The copies that links bring: those of each of some links, side by side.    *)
Total(A, b) == Cardinality(UNION {{i} \X (1 .. b[i]) : i \in A})

LEMMA TotalNat ==
  ASSUME NEW A, IsFiniteSet(A), NEW b, \A i \in A : b[i] \in Nat
  PROVE  Total(A, b) \in Nat
<1> DEFINE C == {{i} \X (1 .. b[i]) : i \in A}
           g == [i \in A |-> {i} \X (1 .. b[i])]
<1>1. ASSUME NEW i \in A PROVE IsFiniteSet({i} \X (1 .. b[i]))
  <2>1. IsFiniteSet({i})
    BY FS_Singleton
  <2>1b. b[i] \in Int /\ 1 \in Int
    OBVIOUS
  <2>1c. IsFiniteSet(1 .. b[i])
    BY <2>1b, FS_Interval
  <2>2. QED
    BY <2>1, <2>1c, FS_Product
<1>2. g \in Surjection(A, C)
  BY DEF Surjection
<1> HIDE DEF g
<1>3. IsFiniteSet(C)
  BY <1>2, FS_Surjection
<1>4. IsFiniteSet(UNION C)
  BY <1>1, <1>3, FS_UNION
<1>5. QED
  BY <1>4, FS_CardinalityType DEF Total

LEMMA TotalSame ==
  ASSUME NEW A, NEW b, NEW d, \A i \in A : b[i] = d[i]
  PROVE  Total(A, b) = Total(A, d)
<1>1. {{i} \X (1 .. b[i]) : i \in A} = {{i} \X (1 .. d[i]) : i \in A}
  OBVIOUS
<1>2. QED
  BY <1>1 DEF Total

LEMMA TotalZero ==
  ASSUME NEW A, NEW b, \A i \in A : b[i] = 0
  PROVE  Total(A, b) = 0
<1>1. UNION {{i} \X (1 .. b[i]) : i \in A} = {}
  <2>1. ASSUME NEW i \in A PROVE {i} \X (1 .. b[i]) = {}
    <3>1. 1 .. b[i] = {}
      OBVIOUS
    <3>2. QED
      BY <3>1
  <2>2. QED
    BY <2>1
<1>2. QED
  BY <1>1, FS_EmptySet DEF Total

(* Links join ports of the models that they join: IC and EOC, and EIC, which   *)
(* each engine has of its own.                                                *)
EicLinks(eic) ==
  \A c \in Coupled : eic[c] \in Seq(Links({c}, Children[c])) /\ JoinPorts(eic[c], InPort, InPort)

LEMMA StaticEicLinks == EicLinks(StaticEIC)
BY StaticCouplingAssumption DEF EicLinks

LEMMA EachLink ==
  ASSUME NEW F, NEW T, NEW links \in Seq(Links(F, T))
  PROVE  IsFiniteSet(DOMAIN links) /\ \A j \in DOMAIN links : links[j].from \in F /\ links[j].to \in T
<1>1. DOMAIN links = 1 .. Len(links) /\ Len(links) \in Int /\ 1 \in Int
  BY LenProperties
<1>2. IsFiniteSet(1 .. Len(links))
  BY <1>1, FS_Interval
<1>3. \A j \in DOMAIN links : links[j] \in Links(F, T)
  BY <1>1, ElementOfSeq
<1>4. QED
  BY <1>1, <1>2, <1>3 DEF Links

LEMMA InnerLinks ==
  ASSUME NEW c \in Coupled
  PROVE  /\ IsFiniteSet(DOMAIN IC[c]) /\ IsFiniteSet(DOMAIN EOC[c])
         /\ \A j \in DOMAIN IC[c] :
              /\ IC[c][j].from \in Children[c] /\ IC[c][j].out \in OutPort[IC[c][j].from]
              /\ IC[c][j].to \in Children[c] /\ IC[c][j].in \in InPort[IC[c][j].to]
         /\ \A j \in DOMAIN EOC[c] :
              /\ EOC[c][j].from \in Children[c] /\ EOC[c][j].out \in OutPort[EOC[c][j].from]
              /\ EOC[c][j].to = c /\ EOC[c][j].in \in OutPort[c]
<1>1. /\ IC[c] \in Seq(Links(Children[c], Children[c]))
      /\ EOC[c] \in Seq(Links(Children[c], {c}))
  BY CouplingAssumption
<1>2. /\ JoinPorts(IC[c], OutPort, InPort)
      /\ JoinPorts(EOC[c], OutPort, OutPort)
  BY StaticCouplingAssumption
<1>3. /\ IsFiniteSet(DOMAIN IC[c])
      /\ \A j \in DOMAIN IC[c] : IC[c][j].from \in Children[c] /\ IC[c][j].to \in Children[c]
  BY <1>1, EachLink
<1>4. /\ IsFiniteSet(DOMAIN EOC[c])
      /\ \A j \in DOMAIN EOC[c] : EOC[c][j].from \in Children[c] /\ EOC[c][j].to \in {c}
  BY <1>1, EachLink
<1>5. QED
  BY <1>2, <1>3, <1>4 DEF JoinPorts

LEMMA OuterLinks ==
  ASSUME NEW eic, EicLinks(eic), NEW c \in Coupled
  PROVE  /\ IsFiniteSet(DOMAIN eic[c])
         /\ \A j \in DOMAIN eic[c] :
              /\ eic[c][j].from = c /\ eic[c][j].out \in InPort[c]
              /\ eic[c][j].to \in Children[c] /\ eic[c][j].in \in InPort[eic[c][j].to]
<1>1. eic[c] \in Seq(Links({c}, Children[c])) /\ JoinPorts(eic[c], InPort, InPort)
  BY DEF EicLinks
<1>2. /\ IsFiniteSet(DOMAIN eic[c])
      /\ \A j \in DOMAIN eic[c] : eic[c][j].from \in {c} /\ eic[c][j].to \in Children[c]
  BY <1>1, EachLink
<1>3. QED
  BY <1>1, <1>2 DEF JoinPorts

(* The names of the network are the same in all three modules.                *)
LEMMA SameNetwork ==
  /\ Static!Flat!Coupled = Coupled /\ Static!Flat!Atomic = Atomic /\ Static!Flat!Model = Model
  /\ Static!Message = Message /\ Static!Flat!Message = Message
  /\ Static!NoMessages = NoMessages /\ Static!Flat!NoMessages = NoMessages
  /\ \A m : Static!Parent(m) = Parent(m) /\ Static!Flat!Parent(m) = Parent(m)
  /\ \A a : Static!Outputs(a) = Outputs(a) /\ Static!Flat!Outputs(a) = Outputs(a)
  /\ \A a, out, p : /\ Static!Emission(a, out, p) = Emission(a, out, p)
                    /\ Static!Flat!Emission(a, out, p) = Emission(a, out, p)
  /\ \A S : Static!Flat!Cardinality(S) = Cardinality(S) /\ Static!Cardinality(S) = Cardinality(S)
  /\ \A t, ta : Static!Flat!After(t, ta) = Static!After(t, ta)
<1>1. /\ Static!Flat!Coupled = Coupled /\ Static!Coupled = Coupled
  BY DEF Static!Flat!Coupled, Static!Coupled, Coupled
<1>2. /\ Static!Flat!Atomic = Atomic /\ Static!Atomic = Atomic
  BY <1>1 DEF Static!Flat!Atomic, Static!Atomic, Atomic
<1>3. Static!Flat!Model = Model
  BY <1>1, <1>2 DEF Static!Flat!Model, Model
<1>4. Static!Message = Message /\ Static!Flat!Message = Message
  BY <1>2 DEF Static!Message, Static!Flat!Message, Message
<1>5. Static!NoMessages = NoMessages /\ Static!Flat!NoMessages = NoMessages
  BY <1>4 DEF Static!NoMessages, Static!Flat!NoMessages, NoMessages
<1>6. \A m : Static!Parent(m) = Parent(m) /\ Static!Flat!Parent(m) = Parent(m)
  BY <1>1 DEF Static!Parent, Static!Flat!Parent, Parent
<1>7. \A a : Static!Outputs(a) = Outputs(a) /\ Static!Flat!Outputs(a) = Outputs(a)
  BY DEF Static!Outputs, Static!Flat!Outputs, Outputs
<1>8. \A a, out, p : /\ Static!Emission(a, out, p) = Emission(a, out, p)
                     /\ Static!Flat!Emission(a, out, p) = Emission(a, out, p)
  BY <1>5 DEF Static!Emission, Static!Flat!Emission, Emission
<1>9. \A S : Static!Flat!Cardinality(S) = Cardinality(S) /\ Static!Cardinality(S) = Cardinality(S)
  BY DEF Cardinality, Static!Flat!Cardinality, Static!Cardinality
<1>10. \A t, ta : Static!Flat!After(t, ta) = Static!After(t, ta)
  BY DEF Static!Flat!After, Static!After
<1>11. QED
  BY <1>1, <1>2, <1>3, <1>4, <1>5, <1>6, <1>7, <1>8, <1>9, <1>10

LEMMA ParentOf ==
  /\ \A c \in Coupled : \A m \in Children[c] : Parent(m) = c /\ m # Top
  /\ \A m \in Model : m # Top => Parent(m) \in Coupled /\ m \in Children[Parent(m)]
<1>1. \A c \in Coupled : \A m \in Children[c] : Parent(m) = c
  BY TreeAssumption DEF Parent
<1>2. ASSUME NEW m \in Model, m # Top PROVE \E c \in Coupled : m \in Children[c]
  BY <1>2, TreeAssumption DEF Model, Atomic
<1>3. QED
  BY <1>1, <1>2, TopIsNoChild

(* Models from the topmost one down, by depth. *)
Ranks(depth, N) ==
  /\ N \in Nat /\ depth \in [Model -> 0 .. N]
  /\ \A c \in Coupled : \A s \in Children[c] : depth[c] < depth[s]

LEMMA Depths == \E depth, N : Ranks(depth, N)
<1>1. PICK depth \in [Model -> 0 .. Cardinality(Coupled)] :
        \A c \in Coupled : \A s \in Children[c] : depth[c] < depth[s]
  BY TreeAssumption
<1>2. Ranks(depth, Cardinality(Coupled))
  BY <1>1, TreeAssumption, FS_CardinalityType DEF Ranks
<1>3. QED
  BY <1>2

(* What model m puts out on its port p: its emission, or what its EOC bring.  *)
OutAt == UNION {{m} \X OutPort[m] : m \in Model}
EocTo(c, p) == {j \in DOMAIN EOC[c] : EOC[c][j].in = p}
EocCopies(c, f, x) == [j \in DOMAIN EOC[c] |-> f[<<EOC[c][j].from, EOC[c][j].out>>][x]]
PutOut(em, f, m, p) ==
  IF m \in Atomic THEN IF m \in DOMAIN em THEN Emission(m, em[m], p) ELSE NoMessages
  ELSE [x \in Message |-> Total(EocTo(m, p), EocCopies(m, f, x))]

(* em says what some of the atomic models put out. *)
Emitted(em) == \A a \in Atomic : a \in DOMAIN em => em[a] \in Outputs(a)

LEMMA EmissionIsBag ==
  ASSUME NEW a \in Atomic, NEW out \in Outputs(a), NEW p \in OutPort[a]
  PROVE  Emission(a, out, p) \in Bag
<1>1. out[p] \in Nat
  BY DEF Outputs
<1>2. NoMessages \in [Message -> Nat]
  BY DEF NoMessages
<1> HIDE DEF NoMessages
<1>3. QED
  BY <1>1, <1>2 DEF Emission, Bag

LEMMA OutPairs ==
  /\ \A m \in Model : \A p \in OutPort[m] : <<m, p>> \in OutAt
  /\ \A mp \in OutAt : mp[1] \in Model /\ mp[2] \in OutPort[mp[1]] /\ mp = <<mp[1], mp[2]>>
BY DEF OutAt

LEMMA AtomicOrCoupled ==
  /\ \A m \in Model : m \in Atomic \/ m \in Coupled
  /\ \A a \in Atomic : a \in Model /\ a \notin Coupled
  /\ \A c \in Coupled : c \in Model /\ c \notin Atomic
BY DEF Model, Atomic

LEMMA PutOutIsBag ==
  ASSUME NEW em, Emitted(em), NEW f, NEW m \in Model, NEW p \in OutPort[m],
         m \in Coupled => \A s \in Children[m] : \A q \in OutPort[s] : f[<<s, q>>] \in Bag
  PROVE  PutOut(em, f, m, p) \in Bag
<1>1. CASE m \in Atomic
  BY <1>1, EmissionIsBag, Boxes DEF PutOut, Emitted
<1>2. CASE m \notin Atomic
  <2>1. m \in Coupled
    BY <1>2, AtomicOrCoupled
  <2>2. IsFiniteSet(EocTo(m, p))
    BY <2>1, InnerLinks, FS_Subset DEF EocTo
  <2>3. ASSUME NEW x \in Message PROVE Total(EocTo(m, p), EocCopies(m, f, x)) \in Nat
    <3>1. ASSUME NEW j \in EocTo(m, p) PROVE EocCopies(m, f, x)[j] \in Nat
      <4>1. j \in DOMAIN EOC[m]
        BY DEF EocTo
      <4>2. f[<<EOC[m][j].from, EOC[m][j].out>>] \in Bag
        BY <2>1, <4>1, InnerLinks
      <4>3. QED
        BY <4>1, <4>2 DEF EocCopies, Bag
    <3>2. QED
      BY <2>2, <3>1, TotalNat
  <2>4. QED
    BY <1>2, <2>3 DEF PutOut, Bag
<1>3. QED
  BY <1>1, <1>2

LEMMA PutOutSame ==
  ASSUME NEW em, NEW f, NEW g, NEW m \in Model, NEW p \in OutPort[m],
         m \in Coupled => \A s \in Children[m] : \A q \in OutPort[s] : f[<<s, q>>] = g[<<s, q>>]
  PROVE  PutOut(em, f, m, p) = PutOut(em, g, m, p)
<1>1. CASE m \in Atomic
  BY <1>1 DEF PutOut
<1>2. CASE m \notin Atomic
  <2>1. m \in Coupled
    BY <1>2, AtomicOrCoupled
  <2>2. ASSUME NEW x \in Message
        PROVE  Total(EocTo(m, p), EocCopies(m, f, x)) = Total(EocTo(m, p), EocCopies(m, g, x))
    <3>1. \A j \in EocTo(m, p) : EocCopies(m, f, x)[j] = EocCopies(m, g, x)[j]
      BY <2>1, InnerLinks DEF EocTo, EocCopies
    <3>2. QED
      BY <3>1, TotalSame
  <2>3. QED
    BY <1>2, <2>2 DEF PutOut
<1>3. QED
  BY <1>1, <1>2

LEMMA PutOutExists ==
  ASSUME NEW em, Emitted(em)
  PROVE  \E f \in [OutAt -> Bag] : f = [mp \in OutAt |-> PutOut(em, f, mp[1], mp[2])]
<1>1. PICK depth, N : Ranks(depth, N)
  BY Depths
<1> DEFINE X == [OutAt -> Bag]
           F == [f \in X |-> [mp \in OutAt |-> PutOut(em, f, mp[1], mp[2])]]
           rank == [mp \in OutAt |-> N - depth[mp[1]]]
<1>2. N \in Nat /\ rank \in [OutAt -> 0 .. N]
  BY <1>1, OutPairs DEF Ranks
<1>3. X # {} /\ \A f \in X : f = [mp \in OutAt |-> f[mp]]
  <2>1. [mp \in OutAt |-> NoMessages] \in X
    BY Boxes
  <2>2. QED
    BY <2>1
<1>4. F \in [X -> X]
  <2>1. ASSUME NEW f \in X, NEW mp \in OutAt PROVE PutOut(em, f, mp[1], mp[2]) \in Bag
    <3>1. mp[1] \in Model /\ mp[2] \in OutPort[mp[1]]
      BY OutPairs
    <3>2. mp[1] \in Coupled => \A s \in Children[mp[1]] : \A q \in OutPort[s] : f[<<s, q>>] \in Bag
      BY OutPairs, ChildrenAreModels
    <3>3. QED
      BY <3>1, <3>2, PutOutIsBag
  <2>2. QED
    BY <2>1
<1>5. ASSUME NEW f \in X, NEW g \in X, NEW d \in OutAt, \A e \in OutAt : rank[e] < rank[d] => f[e] = g[e]
      PROVE  F[f][d] = F[g][d]
  <2>1. d[1] \in Model /\ d[2] \in OutPort[d[1]]
    BY OutPairs
  <2>2. ASSUME d[1] \in Coupled, NEW s \in Children[d[1]], NEW q \in OutPort[s]
        PROVE  f[<<s, q>>] = g[<<s, q>>]
    <3>1. <<s, q>> \in OutAt /\ <<s, q>>[1] = s /\ s \in Model
      BY <2>2, OutPairs, ChildrenAreModels
    <3>2. depth[d[1]] < depth[s] /\ depth[d[1]] \in 0 .. N /\ depth[s] \in 0 .. N
      BY <1>1, <2>1, <2>2, <3>1 DEF Ranks
    <3>3. rank[<<s, q>>] = N - depth[s] /\ rank[d] = N - depth[d[1]]
      BY <3>1
    <3>4. rank[<<s, q>>] < rank[d]
      BY <1>2, <3>2, <3>3
    <3>5. QED
      BY <1>5, <3>1, <3>4
  <2>3. PutOut(em, f, d[1], d[2]) = PutOut(em, g, d[1], d[2])
    BY <2>1, <2>2, PutOutSame
  <2>4. QED
    BY <2>3
<1>6. \E f \in X : f = F[f]
  <2>1. \A f, g \in X : \A d \in OutAt :
          (\A e \in OutAt : rank[e] < rank[d] => f[e] = g[e]) => F[f][d] = F[g][d]
    <3> HIDE DEF X, F, rank
    <3>1. QED
      BY <1>5
  <2> HIDE DEF X, F, rank
  <2>2. RankedStep(N, OutAt, rank, X, F)
    BY <1>2, <1>3, <1>4, <2>1 DEF RankedStep
  <2>3. QED
    BY ONLY <2>2, RankedRecursion
<1>7. QED
  BY <1>6

(* FlatOut is that function. *)
LEMMA FlatOutValue ==
  ASSUME NEW em, Emitted(em)
  PROVE  LET out == Static!Flat!FlatOut(em)
         IN  \A m \in Model : \A p \in OutPort[m] :
               out[<<m, p>>] = PutOut(em, out, m, p) /\ out[<<m, p>>] \in Bag
<1> DEFINE step(f) ==
             [mp \in UNION {{m} \X OutPort[m] : m \in Static!Flat!Model} |->
                LET m == mp[1]
                    p == mp[2]
                IN  IF m \in Static!Flat!Atomic
                    THEN IF m \in DOMAIN em THEN Static!Flat!Emission(m, em[m], p) ELSE Static!Flat!NoMessages
                    ELSE [x \in Static!Flat!Message |->
                            Static!Flat!Brought(EOC[m], x, LAMBDA l : l.in = p, LAMBDA l : f[<<l.from, l.out>>])]]
           out == Static!Flat!FlatOut(em)
<1> DEFINE eocIn(f, c, p, x) ==
             Static!Flat!Brought(EOC[c], x, LAMBDA l : l.in = p, LAMBDA l : f[<<l.from, l.out>>])
<1>1. ASSUME NEW f, NEW c, NEW p, NEW x
      PROVE  eocIn(f, c, p, x) = Total(EocTo(c, p), EocCopies(c, f, x))
  <2>1. eocIn(f, c, p, x)
          = Cardinality(UNION {{i} \X (1 .. f[<<EOC[c][i].from, EOC[c][i].out>>][x]) : i \in EocTo(c, p)})
    BY SameNetwork DEF Static!Flat!Brought, EocTo
  <2>2. {{i} \X (1 .. f[<<EOC[c][i].from, EOC[c][i].out>>][x]) : i \in EocTo(c, p)}
          = {{i} \X (1 .. EocCopies(c, f, x)[i]) : i \in EocTo(c, p)}
    BY DEF EocCopies, EocTo
  <2> HIDE DEF eocIn
  <2>3. QED
    BY <2>1, <2>2 DEF Total
<1>2. out = CHOOSE f : f = step(f)
  BY DEF Static!Flat!FlatOut
<1>3. ASSUME NEW f PROVE step(f) = [mp \in OutAt |-> PutOut(em, f, mp[1], mp[2])]
  <2>1. ASSUME NEW m, NEW p
        PROVE  [x \in Static!Flat!Message |->
                  Static!Flat!Brought(EOC[m], x, LAMBDA l : l.in = p, LAMBDA l : f[<<l.from, l.out>>])]
                 = [x \in Message |-> Total(EocTo(m, p), EocCopies(m, f, x))]
    BY <1>1, SameNetwork
  <2>2. Static!Flat!Model = Model
    BY SameNetwork
  <2>3. OutAt = UNION {{m} \X OutPort[m] : m \in Static!Flat!Model}
    BY <2>2 DEF OutAt
  <2>4. ASSUME NEW mp \in OutAt PROVE step(f)[mp] = PutOut(em, f, mp[1], mp[2])
    <3> DEFINE m == mp[1]
               p == mp[2]
               brought == [x \in Static!Flat!Message |->
                            Static!Flat!Brought(EOC[m], x, LAMBDA l : l.in = p, LAMBDA l : f[<<l.from, l.out>>])]
    <3>1. step(f)[mp] = IF m \in Static!Flat!Atomic
                        THEN IF m \in DOMAIN em THEN Static!Flat!Emission(m, em[m], p) ELSE Static!Flat!NoMessages
                        ELSE brought
      BY <2>3
    <3>2. brought = [x \in Message |-> Total(EocTo(m, p), EocCopies(m, f, x))]
      BY <2>1
    <3> HIDE DEF step, m, p, brought
    <3>3. step(f)[mp] = PutOut(em, f, m, p)
      BY <3>1, <3>2, SameNetwork DEF PutOut
    <3>4. QED
      BY <3>3 DEF m, p
  <2>5. step(f) = [mp \in OutAt |-> step(f)[mp]]
    BY <2>3
  <2> HIDE DEF step
  <2>6. QED
    BY <2>4, <2>5
<1> HIDE DEF step, out
<1>4. out = step(out)
  BY <1>2, <1>3, PutOutExists
<1>5. \A m \in Model : \A p \in OutPort[m] : out[<<m, p>>] = PutOut(em, out, m, p)
  BY <1>3, <1>4, OutPairs
<1> DEFINE S == {m \in Model : \A p \in OutPort[m] : out[<<m, p>>] \in Bag}
<1>6. Atomic \subseteq S
  BY <1>5, AtomicOrCoupled, PutOutIsBag
<1>7. ASSUME NEW c \in Coupled, Children[c] \subseteq S PROVE c \in S
  <2>1. \A s \in Children[c] : \A q \in OutPort[s] : out[<<s, q>>] \in Bag
    BY <1>7
  <2>2. QED
    BY <1>5, <2>1, AtomicOrCoupled, PutOutIsBag
<1>8. Model \subseteq S
  BY <1>6, <1>7, FromTheBottom
<1>9. QED
  BY <1>5, <1>8 DEF out

(* What comes into model m on its port p: what the IC and the EIC of its      *)
(* coordinator bring there, from what was put out.                            *)
InAt == UNION {{m} \X InPort[m] : m \in Model}
IcTo(c, m, p)  == {j \in DOMAIN IC[c] : IC[c][j].to = m /\ IC[c][j].in = p}
EicTo(eic, c, m, p) == {j \in DOMAIN eic[c] : eic[c][j].to = m /\ eic[c][j].in = p}
IcCopies(c, out, x) == [j \in DOMAIN IC[c] |-> out[<<IC[c][j].from, IC[c][j].out>>][x]]
EicCopies(eic, c, f, x)  == [j \in DOMAIN eic[c] |-> f[<<c, eic[c][j].out>>][x]]
RoutedIn(eic, out, f, c, m, p) ==
  [x \in Message |-> Total(IcTo(c, m, p), IcCopies(c, out, x)) + Total(EicTo(eic, c, m, p), EicCopies(eic, c, f, x))]
ComeIn(eic, out, f, m, p) == IF m = Top THEN NoMessages ELSE RoutedIn(eic, out, f, Parent(m), m, p)

AllBags(out) == \A m \in Model : \A p \in OutPort[m] : out[<<m, p>>] \in Bag

LEMMA InPairs ==
  /\ \A m \in Model : \A p \in InPort[m] : <<m, p>> \in InAt
  /\ \A mp \in InAt : mp[1] \in Model /\ mp[2] \in InPort[mp[1]] /\ mp = <<mp[1], mp[2]>>
BY DEF InAt

LEMMA CopiesAreNat ==
  ASSUME NEW eic, EicLinks(eic), NEW out, AllBags(out), NEW f, NEW c \in Coupled, \A q \in InPort[c] : f[<<c, q>>] \in Bag,
         NEW m, NEW p, NEW x \in Message
  PROVE  /\ Total(IcTo(c, m, p), IcCopies(c, out, x)) \in Nat
         /\ Total(EicTo(eic, c, m, p), EicCopies(eic, c, f, x)) \in Nat
<1>1. IsFiniteSet(IcTo(c, m, p)) /\ IsFiniteSet(EicTo(eic, c, m, p))
  BY InnerLinks, OuterLinks, FS_Subset DEF IcTo, EicTo
<1>2. ASSUME NEW j \in IcTo(c, m, p) PROVE IcCopies(c, out, x)[j] \in Nat
  <2>1. j \in DOMAIN IC[c]
    BY DEF IcTo
  <2>2. out[<<IC[c][j].from, IC[c][j].out>>] \in Bag
    BY <2>1, InnerLinks, ChildrenAreModels DEF AllBags
  <2>3. QED
    BY <2>1, <2>2 DEF IcCopies, Bag
<1>3. ASSUME NEW j \in EicTo(eic, c, m, p) PROVE EicCopies(eic, c, f, x)[j] \in Nat
  <2>1. j \in DOMAIN eic[c]
    BY DEF EicTo
  <2>2. f[<<c, eic[c][j].out>>] \in Bag
    BY <2>1, OuterLinks
  <2>3. QED
    BY <2>1, <2>2 DEF EicCopies, Bag
<1>4. QED
  BY <1>1, <1>2, <1>3, TotalNat

LEMMA ComeInIsBag ==
  ASSUME NEW eic, EicLinks(eic), NEW out, AllBags(out), NEW f, NEW m \in Model, NEW p,
         m # Top => \A q \in InPort[Parent(m)] : f[<<Parent(m), q>>] \in Bag
  PROVE  ComeIn(eic, out, f, m, p) \in Bag
<1>1. CASE m = Top
  BY <1>1, Boxes DEF ComeIn
<1>2. CASE m # Top
  <2> DEFINE c == Parent(m)
  <2>1. c \in Coupled /\ \A q \in InPort[c] : f[<<c, q>>] \in Bag
    BY <1>2, ParentOf
  <2> HIDE DEF c
  <2>2. ASSUME NEW x \in Message
        PROVE  Total(IcTo(c, m, p), IcCopies(c, out, x)) + Total(EicTo(eic, c, m, p), EicCopies(eic, c, f, x)) \in Nat
    <3>1. /\ Total(IcTo(c, m, p), IcCopies(c, out, x)) \in Nat
          /\ Total(EicTo(eic, c, m, p), EicCopies(eic, c, f, x)) \in Nat
      BY <2>1, CopiesAreNat
    <3>2. QED
      BY <3>1
  <2>3. RoutedIn(eic, out, f, c, m, p) \in Bag
    BY <2>2 DEF RoutedIn, Bag
  <2>4. QED
    BY <1>2, <2>3 DEF ComeIn, c
<1>3. QED
  BY <1>1, <1>2

LEMMA ComeInSame ==
  ASSUME NEW eic, EicLinks(eic), NEW out, NEW f, NEW g, NEW m \in Model, NEW p,
         m # Top => \A q \in InPort[Parent(m)] : f[<<Parent(m), q>>] = g[<<Parent(m), q>>]
  PROVE  ComeIn(eic, out, f, m, p) = ComeIn(eic, out, g, m, p)
<1>1. CASE m = Top
  BY <1>1 DEF ComeIn
<1>2. CASE m # Top
  <2> DEFINE c == Parent(m)
  <2>1. c \in Coupled /\ \A q \in InPort[c] : f[<<c, q>>] = g[<<c, q>>]
    BY <1>2, ParentOf
  <2> HIDE DEF c
  <2>2. ASSUME NEW x \in Message
        PROVE  Total(EicTo(eic, c, m, p), EicCopies(eic, c, f, x)) = Total(EicTo(eic, c, m, p), EicCopies(eic, c, g, x))
    <3>1. \A j \in EicTo(eic, c, m, p) : EicCopies(eic, c, f, x)[j] = EicCopies(eic, c, g, x)[j]
      BY <2>1, OuterLinks DEF EicTo, EicCopies
    <3>2. QED
      BY <3>1, TotalSame
  <2>3. RoutedIn(eic, out, f, c, m, p) = RoutedIn(eic, out, g, c, m, p)
    BY <2>2 DEF RoutedIn
  <2>4. QED
    BY <1>2, <2>3 DEF ComeIn, c
<1>3. QED
  BY <1>1, <1>2

LEMMA ComeInExists ==
  ASSUME NEW eic, EicLinks(eic), NEW out, AllBags(out)
  PROVE  \E f \in [InAt -> Bag] : f = [mp \in InAt |-> ComeIn(eic, out, f, mp[1], mp[2])]
<1>1. PICK depth, N : Ranks(depth, N)
  BY Depths
<1> DEFINE X == [InAt -> Bag]
           F == [f \in X |-> [mp \in InAt |-> ComeIn(eic, out, f, mp[1], mp[2])]]
           rank == [mp \in InAt |-> depth[mp[1]]]
<1>2. N \in Nat /\ rank \in [InAt -> 0 .. N]
  BY <1>1, InPairs DEF Ranks
<1>3. X # {} /\ \A f \in X : f = [mp \in InAt |-> f[mp]]
  <2>1. [mp \in InAt |-> NoMessages] \in X
    BY Boxes
  <2>2. QED
    BY <2>1
<1>4. F \in [X -> X]
  <2>1. ASSUME NEW f \in X, NEW mp \in InAt PROVE ComeIn(eic, out, f, mp[1], mp[2]) \in Bag
    <3>1. mp[1] \in Model
      BY InPairs
    <3>2. mp[1] # Top => \A q \in InPort[Parent(mp[1])] : f[<<Parent(mp[1]), q>>] \in Bag
      BY <3>1, InPairs, ParentOf, AtomicOrCoupled
    <3>3. QED
      BY <3>1, <3>2, ComeInIsBag
  <2>2. QED
    BY <2>1
<1>5. ASSUME NEW f \in X, NEW g \in X, NEW d \in InAt, \A e \in InAt : rank[e] < rank[d] => f[e] = g[e]
      PROVE  F[f][d] = F[g][d]
  <2>1. d[1] \in Model
    BY InPairs
  <2>2. ASSUME d[1] # Top, NEW q \in InPort[Parent(d[1])]
        PROVE  f[<<Parent(d[1]), q>>] = g[<<Parent(d[1]), q>>]
    <3> DEFINE c == Parent(d[1])
    <3>1. c \in Coupled /\ d[1] \in Children[c] /\ c \in Model
      BY <2>1, <2>2, ParentOf, AtomicOrCoupled
    <3>2. <<c, q>> \in InAt /\ <<c, q>>[1] = c
      BY <2>2, <3>1, InPairs
    <3>3. depth[c] < depth[d[1]]
      BY <1>1, <3>1 DEF Ranks
    <3>4. rank[<<c, q>>] < rank[d]
      BY <3>2, <3>3
    <3>5. QED
      BY <1>5, <3>2, <3>4
  <2>3. ComeIn(eic, out, f, d[1], d[2]) = ComeIn(eic, out, g, d[1], d[2])
    BY <2>1, <2>2, ComeInSame
  <2>4. QED
    BY <2>3
<1>6. \E f \in X : f = F[f]
  <2>1. \A f, g \in X : \A d \in InAt :
          (\A e \in InAt : rank[e] < rank[d] => f[e] = g[e]) => F[f][d] = F[g][d]
    <3> HIDE DEF X, F, rank
    <3>1. QED
      BY <1>5
  <2> HIDE DEF X, F, rank
  <2>2. RankedStep(N, InAt, rank, X, F)
    BY <1>2, <1>3, <1>4, <2>1 DEF RankedStep
  <2>3. QED
    BY ONLY <2>2, RankedRecursion
<1>7. QED
  BY <1>6

ComesIn(eic, out, in) == in = CHOOSE f : f = [mp \in InAt |-> ComeIn(eic, out, f, mp[1], mp[2])]

LEMMA ComeInValue ==
  ASSUME NEW eic, EicLinks(eic), NEW out, AllBags(out), NEW in, ComesIn(eic, out, in)
  PROVE  \A m \in Model : \A p \in InPort[m] :
           in[<<m, p>>] = ComeIn(eic, out, in, m, p) /\ in[<<m, p>>] \in Bag
<1>1. in = [mp \in InAt |-> ComeIn(eic, out, in, mp[1], mp[2])]
  BY ComeInExists DEF ComesIn
<1>2. \A m \in Model : \A p \in InPort[m] : in[<<m, p>>] = ComeIn(eic, out, in, m, p)
  BY <1>1, InPairs
<1> DEFINE S == {m \in Model : \A p \in InPort[m] : in[<<m, p>>] \in Bag}
<1>3. Top \in S
  BY <1>2, ChildrenAreModels, Boxes DEF ComeIn
<1>4. ASSUME NEW c \in Coupled \cap S PROVE Children[c] \subseteq S
  <2>1. ASSUME NEW m \in Children[c] PROVE m \in S
    <3>1. m \in Model /\ Parent(m) = c
      BY ChildrenAreModels, ParentOf
    <3>2. \A q \in InPort[c] : in[<<c, q>>] \in Bag
      BY <1>4
    <3>3. \A p \in InPort[m] : ComeIn(eic, out, in, m, p) \in Bag
      BY <3>1, <3>2, ComeInIsBag
    <3>4. QED
      BY <1>2, <3>1, <3>3
  <2>2. QED
    BY <2>1
<1>5. Model \subseteq S
  BY <1>3, <1>4, FromTheTop
<1>6. QED
  BY <1>2, <1>5

(* FlatIn is that function. *)
LEMMA FlatInValue ==
  ASSUME NEW em, Emitted(em)
  PROVE  LET out == Static!Flat!FlatOut(em)
             in  == Static!Flat!FlatIn(em)
         IN  \A m \in Model : \A p \in InPort[m] :
               in[<<m, p>>] = ComeIn(StaticEIC, out, in, m, p) /\ in[<<m, p>>] \in Bag
<1> DEFINE out == Static!Flat!FlatOut(em)
           step(f) ==
             [mp \in UNION {{m} \X InPort[m] : m \in Static!Flat!Model} |->
                LET m == mp[1]
                    p == mp[2]
                    here(l) == l.to = m /\ l.in = p
                IN  IF m = Top THEN Static!Flat!NoMessages
                    ELSE [x \in Static!Flat!Message |->
                            Static!Flat!Brought(IC[Static!Flat!Parent(m)], x, here, LAMBDA l : out[<<l.from, l.out>>])
                            + Static!Flat!Brought(StaticEIC[Static!Flat!Parent(m)], x, here,
                                LAMBDA l : f[<<Static!Flat!Parent(m), l.out>>])]]
           in == Static!Flat!FlatIn(em)
<1>1. in = CHOOSE f : f = step(f)
  BY DEF Static!Flat!FlatIn
<1> HIDE DEF in
<1>2. AllBags(out)
  BY FlatOutValue DEF AllBags
<1> DEFINE icIn(c, m, p, x) ==
             Static!Flat!Brought(IC[c], x, LAMBDA l : l.to = m /\ l.in = p, LAMBDA l : out[<<l.from, l.out>>])
           eicIn(f, c, m, p, x) ==
             Static!Flat!Brought(StaticEIC[c], x, LAMBDA l : l.to = m /\ l.in = p, LAMBDA l : f[<<c, l.out>>])
<1>3. ASSUME NEW c, NEW m, NEW p, NEW x
      PROVE  icIn(c, m, p, x) = Total(IcTo(c, m, p), IcCopies(c, out, x))
  <2> HIDE DEF out
  <2>1. /\ icIn(c, m, p, x)
             = Cardinality(UNION {{i} \X (1 .. out[<<IC[c][i].from, IC[c][i].out>>][x]) : i \in IcTo(c, m, p)})
    BY SameNetwork DEF Static!Flat!Brought, IcTo
  <2>2. {{i} \X (1 .. out[<<IC[c][i].from, IC[c][i].out>>][x]) : i \in IcTo(c, m, p)}
          = {{i} \X (1 .. IcCopies(c, out, x)[i]) : i \in IcTo(c, m, p)}
    BY DEF IcCopies, IcTo
  <2> HIDE DEF icIn
  <2>3. QED
    BY <2>1, <2>2 DEF Total
<1>4. ASSUME NEW f, NEW c, NEW m, NEW p, NEW x
      PROVE  eicIn(f, c, m, p, x) = Total(EicTo(StaticEIC, c, m, p), EicCopies(StaticEIC, c, f, x))
  <2>1. /\ eicIn(f, c, m, p, x)
             = Cardinality(UNION {{i} \X (1 .. f[<<c, StaticEIC[c][i].out>>][x]) : i \in EicTo(StaticEIC, c, m, p)})
    BY SameNetwork DEF Static!Flat!Brought, EicTo
  <2>2. {{i} \X (1 .. f[<<c, StaticEIC[c][i].out>>][x]) : i \in EicTo(StaticEIC, c, m, p)}
          = {{i} \X (1 .. EicCopies(StaticEIC, c, f, x)[i]) : i \in EicTo(StaticEIC, c, m, p)}
    BY DEF EicCopies, EicTo
  <2> HIDE DEF eicIn
  <2>3. QED
    BY <2>1, <2>2 DEF Total
<1> HIDE DEF out
<1>5. ASSUME NEW f PROVE step(f) = [mp \in InAt |-> ComeIn(StaticEIC, out, f, mp[1], mp[2])]
  <2>1. Static!Flat!Model = Model
    BY SameNetwork
  <2>2. InAt = UNION {{m} \X InPort[m] : m \in Static!Flat!Model}
    BY <2>1 DEF InAt
  <2>3. ASSUME NEW mp \in InAt PROVE step(f)[mp] = ComeIn(StaticEIC, out, f, mp[1], mp[2])
    <3> DEFINE m == mp[1]
               p == mp[2]
               c == Parent(m)
               brought == [x \in Message |-> icIn(c, m, p, x) + eicIn(f, c, m, p, x)]
    <3>1. step(f)[mp] = IF m = Top THEN NoMessages ELSE brought
      BY ZenonT(40), <2>2, SameNetwork DEF Static!Flat!Brought
    <3>2. brought = RoutedIn(StaticEIC, out, f, c, m, p)
      <4> HIDE DEF icIn, eicIn, m, p, c
      <4>1. QED
        BY <1>3, <1>4 DEF RoutedIn
    <3> HIDE DEF step, m, p, c, brought
    <3>3. step(f)[mp] = IF m = Top THEN NoMessages ELSE RoutedIn(StaticEIC, out, f, c, m, p)
      BY <3>1, <3>2
    <3>4. QED
      BY ONLY Zenon, <3>3 DEF ComeIn, m, p, c
  <2>4. step(f) = [mp \in InAt |-> step(f)[mp]]
    BY <2>2
  <2> HIDE DEF step
  <2>5. QED
    BY <2>3, <2>4
<1> HIDE DEF step
<1>6. ComesIn(StaticEIC, out, in)
  BY <1>1, <1>5 DEF ComesIn
<1>7. \A m \in Model : \A p \in InPort[m] : in[<<m, p>>] = ComeIn(StaticEIC, out, in, m, p) /\ in[<<m, p>>] \in Bag
  BY ONLY <1>2, <1>6, StaticEicLinks, ComeInValue
<1>8. QED
  BY <1>7 DEF out, in

(* A model that is imminent makes the coordinators above it imminent, so that *)
(* its collect_outputs is called.                                             *)
LEMMA ImminentAbove ==
  ASSUME StaticInv, NEW m \in Model, m # Top, s_next[m] = s_now
  PROVE  s_next[Parent(m)] = s_now
<1> DEFINE c == Parent(m)
<1>1. c \in Coupled /\ m \in Children[c] /\ c \in Model
  BY ParentOf, AtomicOrCoupled
<1> HIDE DEF c
<1>2. s_next[c] <= s_next[m]
  BY <1>1, LeastBelowIn DEF StaticInv, LeastBelow
<1>3. s_next[Top] <= s_next[c] /\ s_now <= s_next[Top]
  BY <1>1, LeastAtTop DEF StaticInv
<1>4. s_next[c] \in Nat /\ s_next[Top] \in Nat /\ s_now \in Nat
  BY <1>1, ChildrenAreModels DEF StaticInv
<1>5. s_next[c] = s_now
  BY <1>2, <1>3, <1>4
<1>6. QED
  BY <1>5 DEF c

LEMMA ImminentCalled ==
  ASSUME StaticInv
  PROVE  /\ Static!CollectCalled \subseteq Model
         /\ \A m \in Model : s_next[m] = s_now => m \in Static!CollectCalled
<1> DEFINE step(f) == [m \in Static!Model |->
                         m = Top \/ (f[Static!Parent(m)] /\ s_next[Static!Parent(m)] = s_now)]
           above == [m \in Model |-> m = Top \/ s_next[Parent(m)] = s_now]
           calls == CHOOSE f : f = step(f)
<1>1. \A f : step(f) = [m \in Model |-> m = Top \/ (f[Parent(m)] /\ s_next[Parent(m)] = s_now)]
  BY SameTree, SameNetwork
<1>2. Static!CollectCalled = {m \in Model : calls[m]}
  BY SameTree DEF Static!CollectCalled
<1>3. ASSUME NEW m \in Model
      PROVE  above[m] = (m = Top \/ (above[Parent(m)] /\ s_next[Parent(m)] = s_now))
  <2>1. CASE m = Top
    BY <2>1
  <2>2. CASE m # Top
    <3>1. Parent(m) \in Model
      BY <2>2, ParentOf, AtomicOrCoupled
    <3>2. s_next[Parent(m)] = s_now => above[Parent(m)]
      BY <3>1, ImminentAbove
    <3>3. QED
      BY <2>2, <3>2
  <2>3. QED
    BY <2>1, <2>2
<1>4. above = step(above)
  <2>1. step(above) = [m \in Model |-> m = Top \/ (above[Parent(m)] /\ s_next[Parent(m)] = s_now)]
    BY <1>1
  <2>2. above = [m \in Model |-> above[m]]
    OBVIOUS
  <2> HIDE DEF above, step
  <2>3. QED
    BY <1>3, <2>1, <2>2
<1> HIDE DEF step, above
<1>5. calls = step(calls)
  BY <1>4
<1> HIDE DEF calls
<1>6. \A m \in Model : calls[m] = (m = Top \/ (calls[Parent(m)] /\ s_next[Parent(m)] = s_now))
  BY <1>1, <1>5
<1> DEFINE S == {m \in Model : s_next[m] = s_now => calls[m]}
<1>7. Top \in S
  BY <1>6, ChildrenAreModels
<1>8. ASSUME NEW c \in Coupled \cap S PROVE Children[c] \subseteq S
  <2>1. ASSUME NEW m \in Children[c], s_next[m] = s_now PROVE calls[m]
    <3>1. m \in Model /\ Parent(m) = c /\ m # Top
      BY ChildrenAreModels, ParentOf
    <3>2. s_next[c] = s_now
      BY <2>1, <3>1, ImminentAbove
    <3>3. calls[c]
      BY <1>8, <3>2
    <3>4. QED
      BY <1>6, <3>1, <3>2, <3>3
  <2>2. QED
    BY <2>1, ChildrenAreModels
<1>9. Model \subseteq S
  BY <1>7, <1>8, FromTheTop
<1>10. QED
  BY <1>2, <1>9

(* Nothing comes out of a model that is not imminent. *)
LEMMA Silent ==
  ASSUME StaticInv, NEW em, Emitted(em), \A a \in Atomic : a \in DOMAIN em => s_next[a] = s_now,
         NEW m \in Model, s_next[m] # s_now, NEW p \in OutPort[m]
  PROVE  Static!Flat!FlatOut(em)[<<m, p>>] = NoMessages
<1> DEFINE out == Static!Flat!FlatOut(em)
           S == {w \in Model : s_next[w] # s_now => \A q \in OutPort[w] : out[<<w, q>>] = NoMessages}
<1>1. \A w \in Model : \A q \in OutPort[w] : out[<<w, q>>] = PutOut(em, out, w, q)
  BY FlatOutValue
<1> HIDE DEF out
<1>2. Atomic \subseteq S
  BY <1>1, AtomicOrCoupled DEF PutOut
<1>3. ASSUME NEW c \in Coupled, Children[c] \subseteq S PROVE c \in S
  <2>1. ASSUME s_next[c] # s_now, NEW q \in OutPort[c] PROVE out[<<c, q>>] = NoMessages
    <3>1. \A s \in Children[c] : s_next[s] # s_now
      BY <2>1, ImminentAbove, ParentOf, ChildrenAreModels
    <3>2. \A s \in Children[c] : \A r \in OutPort[s] : out[<<s, r>>] = NoMessages
      BY <1>3, <3>1
    <3>3. ASSUME NEW x \in Message PROVE Total(EocTo(c, q), EocCopies(c, out, x)) = 0
      <4>1. \A j \in EocTo(c, q) : EocCopies(c, out, x)[j] = 0
        BY <3>2, InnerLinks DEF EocTo, EocCopies, NoMessages
      <4>2. QED
        BY <4>1, TotalZero
    <3>4. PutOut(em, out, c, q) = [x \in Message |-> 0]
      BY <3>3, AtomicOrCoupled DEF PutOut
    <3>5. QED
      BY <1>1, <3>4, AtomicOrCoupled DEF NoMessages
  <2>2. QED
    BY <2>1, AtomicOrCoupled
<1>4. Model \subseteq S
  BY <1>2, <1>3, FromTheBottom
<1>5. QED
  BY <1>4 DEF out

(* The boxes of the static engine, with what the promise says is in them. *)
OutBoxes(out) == [m \in Model |-> [p \in OutPort[m] |-> out[<<m, p>>]]]
InBoxes(in)   == [m \in Model |-> [p \in InPort[m] |-> in[<<m, p>>]]]
EmptyOut == [m \in Model |-> [p \in OutPort[m] |-> NoMessages]]
EmptyIn  == [m \in Model |-> [p \in InPort[m] |-> NoMessages]]

(* What the links of a coordinator bring, from boxes of its submodels that     *)
(* hold what out says, or from its own one.                                   *)
HeldBelow(c, f, out) == \A s \in Children[c] : \A q \in OutPort[s] : f[s][q] = out[<<s, q>>]
HeldIn(c, f, out)    == \A q \in InPort[c] : f[c][q] = out[<<c, q>>]

LEMMA LinksBring ==
  ASSUME NEW links, NEW f, NEW m, NEW p
  PROVE  Static!FromLinks(links, f, m, p) =
           [x \in Message |-> Total({j \in DOMAIN links : links[j].to = m /\ links[j].in = p},
                                    [j \in DOMAIN links |-> f[links[j].from][links[j].out][x]])]
<1> DEFINE A == {j \in DOMAIN links : links[j].to = m /\ links[j].in = p}
           copies(x) == [j \in DOMAIN links |-> f[links[j].from][links[j].out][x]]
           bring(x) == Static!Brought(links, x, LAMBDA l : l.to = m /\ l.in = p, LAMBDA l : f[l.from][l.out])
<1>1. ASSUME NEW x PROVE bring(x) = Total(A, copies(x))
  <2>1. bring(x) = Cardinality(UNION {{i} \X (1 .. f[links[i].from][links[i].out][x]) : i \in A})
    BY SameNetwork DEF Static!Brought
  <2>2. {{i} \X (1 .. f[links[i].from][links[i].out][x]) : i \in A} = {{i} \X (1 .. copies(x)[i]) : i \in A}
    OBVIOUS
  <2> HIDE DEF bring, A, copies
  <2>3. QED
    BY <2>1, <2>2 DEF Total
<1>2. Static!FromLinks(links, f, m, p) = [x \in Message |-> bring(x)]
  BY SameNetwork DEF Static!FromLinks
<1> HIDE DEF bring, A, copies
<1>3. Static!FromLinks(links, f, m, p) = [x \in Message |-> Total(A, copies(x))]
  BY ONLY <1>1, <1>2
<1>4. QED
  BY <1>3 DEF A, copies

LEMMA EocBring ==
  ASSUME NEW c \in Coupled, NEW f, NEW out, NEW m, NEW p, m = c,
         HeldBelow(c, f, out)
  PROVE  Static!FromLinks(EOC[c], f, m, p) = [x \in Message |-> Total(EocTo(c, p), EocCopies(c, out, x))]
<1> DEFINE A == {j \in DOMAIN EOC[c] : EOC[c][j].to = m /\ EOC[c][j].in = p}
           copies(x) == [j \in DOMAIN EOC[c] |-> f[EOC[c][j].from][EOC[c][j].out][x]]
<1>1. Static!FromLinks(EOC[c], f, m, p) = [x \in Message |-> Total(A, copies(x))]
  BY LinksBring
<1>2. A = EocTo(c, p)
  BY InnerLinks DEF EocTo
<1>3. ASSUME NEW x \in Message
      PROVE  Total(A, copies(x)) = Total(EocTo(c, p), EocCopies(c, out, x))
  <2>1. \A j \in EocTo(c, p) : copies(x)[j] = EocCopies(c, out, x)[j]
    BY InnerLinks DEF EocTo, EocCopies, HeldBelow
  <2> DEFINE b == copies(x)
             d == EocCopies(c, out, x)
  <2> HIDE DEF A, b, d
  <2>2. Total(EocTo(c, p), b) = Total(EocTo(c, p), d)
    BY ONLY <2>1, TotalSame DEF b, d
  <2>3. QED
    BY ONLY <1>2, <2>2 DEF b, d
<1> HIDE DEF A, copies
<1>4. QED
  BY ONLY <1>1, <1>3

LEMMA IcBring ==
  ASSUME NEW c \in Coupled, NEW f, NEW out, NEW m, NEW p,
         HeldBelow(c, f, out)
  PROVE  Static!FromLinks(IC[c], f, m, p) = [x \in Message |-> Total(IcTo(c, m, p), IcCopies(c, out, x))]
<1> DEFINE A == {j \in DOMAIN IC[c] : IC[c][j].to = m /\ IC[c][j].in = p}
           copies(x) == [j \in DOMAIN IC[c] |-> f[IC[c][j].from][IC[c][j].out][x]]
<1>1. Static!FromLinks(IC[c], f, m, p) = [x \in Message |-> Total(A, copies(x))]
  BY LinksBring
<1>2. A = IcTo(c, m, p)
  BY InnerLinks DEF IcTo
<1>3. ASSUME NEW x \in Message
      PROVE  Total(A, copies(x)) = Total(IcTo(c, m, p), IcCopies(c, out, x))
  <2>1. \A j \in IcTo(c, m, p) : copies(x)[j] = IcCopies(c, out, x)[j]
    BY InnerLinks DEF IcTo, IcCopies, HeldBelow
  <2> DEFINE b == copies(x)
             d == IcCopies(c, out, x)
  <2> HIDE DEF A, b, d
  <2>2. Total(IcTo(c, m, p), b) = Total(IcTo(c, m, p), d)
    BY ONLY <2>1, TotalSame DEF b, d
  <2>3. QED
    BY ONLY <1>2, <2>2 DEF b, d
<1> HIDE DEF A, copies
<1>4. QED
  BY ONLY <1>1, <1>3

LEMMA EicBring ==
  ASSUME NEW c \in Coupled, NEW f, NEW out, NEW m, NEW p,
         HeldIn(c, f, out)
  PROVE  Static!FromLinks(StaticEIC[c], f, m, p) = [x \in Message |-> Total(EicTo(StaticEIC, c, m, p), EicCopies(StaticEIC, c, out, x))]
<1> DEFINE A == {j \in DOMAIN StaticEIC[c] : StaticEIC[c][j].to = m /\ StaticEIC[c][j].in = p}
           copies(x) == [j \in DOMAIN StaticEIC[c] |-> f[StaticEIC[c][j].from][StaticEIC[c][j].out][x]]
<1>1. Static!FromLinks(StaticEIC[c], f, m, p) = [x \in Message |-> Total(A, copies(x))]
  BY LinksBring
<1>2. A = EicTo(StaticEIC, c, m, p)
  BY StaticEicLinks, OuterLinks DEF EicTo
<1>3. ASSUME NEW x \in Message
      PROVE  Total(A, copies(x)) = Total(EicTo(StaticEIC, c, m, p), EicCopies(StaticEIC, c, out, x))
  <2>1. \A j \in EicTo(StaticEIC, c, m, p) : copies(x)[j] = EicCopies(StaticEIC, c, out, x)[j]
    BY StaticEicLinks, OuterLinks DEF EicTo, EicCopies, HeldIn
  <2> DEFINE b == copies(x)
             d == EicCopies(StaticEIC, c, out, x)
  <2> HIDE DEF A, b, d
  <2>2. Total(EicTo(StaticEIC, c, m, p), b) = Total(EicTo(StaticEIC, c, m, p), d)
    BY ONLY <2>1, TotalSame DEF b, d
  <2>3. QED
    BY ONLY <1>2, <2>2 DEF b, d
<1> HIDE DEF A, copies
<1>4. QED
  BY ONLY <1>1, <1>3

(* What the imminent models put out is collected up to the topmost one: the   *)
(* outboxes hold then what the promise says comes out.                        *)
Emits == {a \in Atomic : s_next[a] = s_now}

LEMMA CollectedAreFlat ==
  ASSUME StaticInv, s_outbox = EmptyOut, NEW em, Emitted(em), DOMAIN em = Emits
  PROVE  Static!CollectedBoxes(em) = OutBoxes(Static!Flat!FlatOut(em))
<1> DEFINE out == Static!Flat!FlatOut(em)
           val(f, m) ==
             CASE m \notin Static!CollectCalled -> s_outbox[m]
               [] m \in Static!CollectCalled /\ m \in Static!Atomic ->
                    IF s_next[m] = s_now THEN [p \in OutPort[m] |-> Static!Emission(m, em[m], p)]
                    ELSE Static!OutBags(m)
               [] OTHER ->
                    IF s_next[m] = s_now
                    THEN LET subs == [s \in Children[m] |-> f[s]]
                         IN  [p \in OutPort[m] |-> Static!FromLinks(EOC[m], subs, m, p)]
                    ELSE s_outbox[m]
           step(f) == [m \in Static!Model |-> val(f, m)]
           box == CHOOSE f : f = step(f)
<1>1. Static!CollectedBoxes(em) = box
  BY DEF Static!CollectedBoxes
<1> HIDE DEF out
<1>2. \A m \in Model : \A p \in OutPort[m] : out[<<m, p>>] = PutOut(em, out, m, p)
  BY FlatOutValue DEF out
<1>3. \A a \in Atomic : a \in DOMAIN em => s_next[a] = s_now
  BY DEF Emits
<1>4. ASSUME NEW f, NEW m \in Model, m \in Coupled => \A s \in Children[m] : f[s] = OutBoxes(out)[s]
      PROVE  val(f, m) = OutBoxes(out)[m]
  <2>1. CASE s_next[m] # s_now
    <3>1. OutBoxes(out)[m] = [p \in OutPort[m] |-> NoMessages]
      BY <1>3, <2>1, Silent DEF OutBoxes, out
    <3>2. Static!OutBags(m) = [p \in OutPort[m] |-> NoMessages] /\ s_outbox[m] = [p \in OutPort[m] |-> NoMessages]
      BY SameNetwork DEF Static!OutBags, EmptyOut
    <3>3. QED
      BY <2>1, <3>1, <3>2
  <2>2. CASE s_next[m] = s_now /\ m \in Atomic
    <3>1. m \in DOMAIN em /\ m \in Static!CollectCalled
      BY <2>2, ImminentCalled DEF Emits
    <3>2. val(f, m) = [p \in OutPort[m] |-> Emission(m, em[m], p)]
      BY <2>2, <3>1, SameTree, SameNetwork
    <3>3. \A p \in OutPort[m] : out[<<m, p>>] = Emission(m, em[m], p)
      BY <1>2, <2>2, <3>1 DEF PutOut
    <3> HIDE DEF val
    <3>4. QED
      BY <3>2, <3>3 DEF OutBoxes
  <2>3. CASE s_next[m] = s_now /\ m \notin Atomic
    <3> DEFINE subs == [s \in Children[m] |-> f[s]]
    <3>1. m \in Coupled /\ m \in Static!CollectCalled
      BY <2>3, ImminentCalled, AtomicOrCoupled
    <3>2. val(f, m) = [p \in OutPort[m] |-> Static!FromLinks(EOC[m], subs, m, p)]
      BY <2>3, <3>1, SameTree
    <3>3. HeldBelow(m, subs, out)
      BY <1>4, <3>1, ChildrenAreModels DEF OutBoxes, HeldBelow
    <3> HIDE DEF val, subs
    <3>4. \A p \in OutPort[m] : Static!FromLinks(EOC[m], subs, m, p)
                                  = [x \in Message |-> Total(EocTo(m, p), EocCopies(m, out, x))]
      BY ONLY <3>1, <3>3, EocBring
    <3>5. \A p \in OutPort[m] : out[<<m, p>>] = [x \in Message |-> Total(EocTo(m, p), EocCopies(m, out, x))]
      BY <1>2, <2>3 DEF PutOut
    <3>6. \A p \in OutPort[m] : Static!FromLinks(EOC[m], subs, m, p) = out[<<m, p>>]
      BY <3>4, <3>5
    <3>7. OutBoxes(out)[m] = [p \in OutPort[m] |-> out[<<m, p>>]]
      BY DEF OutBoxes
    <3>8. QED
      BY ONLY <3>2, <3>6, <3>7
  <2>4. QED
    BY <2>1, <2>2, <2>3
<1> HIDE DEF val
<1>5. \A f : step(f) = [m \in Model |-> val(f, m)]
  BY SameTree
<1> HIDE DEF step
<1>6. OutBoxes(out) = step(OutBoxes(out))
  <2>1. \A m \in Model : val(OutBoxes(out), m) = OutBoxes(out)[m]
    BY <1>4
  <2>2. OutBoxes(out) = [m \in Model |-> OutBoxes(out)[m]]
    BY DEF OutBoxes
  <2>3. QED
    BY <1>5, <2>1, <2>2
<1>7. box = step(box)
  BY <1>6
<1> HIDE DEF box
<1>8. box = [m \in Model |-> val(box, m)]
  BY <1>5, <1>7
<1> DEFINE S == {m \in Model : box[m] = OutBoxes(out)[m]}
<1>9. Atomic \subseteq S
  BY <1>4, <1>8, AtomicOrCoupled
<1>10. ASSUME NEW c \in Coupled, Children[c] \subseteq S PROVE c \in S
  <2>1. \A s \in Children[c] : box[s] = OutBoxes(out)[s]
    BY <1>10
  <2>2. val(box, c) = OutBoxes(out)[c]
    BY <1>4, <2>1, AtomicOrCoupled
  <2>3. QED
    BY <1>8, <2>2, AtomicOrCoupled
<1>11. Model \subseteq S
  BY <1>9, <1>10, FromTheBottom
<1>12. \A m \in Model : box[m] = OutBoxes(out)[m]
  BY <1>11
<1>13. OutBoxes(out) = [m \in Model |-> OutBoxes(out)[m]]
  BY DEF OutBoxes
<1>14. box = [m \in Model |-> box[m]]
  BY <1>8
<1>15. box = OutBoxes(out)
  BY <1>12, <1>13, <1>14
<1>16. QED
  BY <1>1, <1>15 DEF out

(* What a coordinator's inbox passes on, and what its submodels put out, is    *)
(* routed down: every model finds in its inbox what the promise says comes in.*)
LEMMA RoutedAreFlat ==
  ASSUME NEW em, Emitted(em), s_inbox = EmptyIn, s_outbox = OutBoxes(Static!Flat!FlatOut(em))
  PROVE  Static!RoutedBoxes = InBoxes(Static!Flat!FlatIn(em))
<1> DEFINE out == Static!Flat!FlatOut(em)
           in  == Static!Flat!FlatIn(em)
           val(f, m) ==
             IF m = Top THEN s_inbox[m]
             ELSE LET c == Static!Parent(m)
                  IN  [p \in InPort[m] |->
                         Static!Joined(s_inbox[m][p],
                                Static!Joined(Static!FromLinks(IC[c], s_outbox, m, p),
                                       Static!FromLinks(StaticEIC[c], [s \in {c} |-> f[c]], m, p)))]
           step(f) == [m \in Static!Model |-> val(f, m)]
           box == CHOOSE f : f = step(f)
<1>1. Static!RoutedBoxes = box
  BY DEF Static!RoutedBoxes
<1>1b. s_outbox = OutBoxes(out)
  OBVIOUS
<1>1c. \A s \in Model : \A q \in OutPort[s] : s_outbox[s][q] = out[<<s, q>>]
  <2> HIDE DEF out
  <2>1. QED
    BY ONLY <1>1b DEF OutBoxes
<1> HIDE DEF out, in
<1>2. \A m \in Model : \A p \in InPort[m] : in[<<m, p>>] = ComeIn(StaticEIC, out, in, m, p) /\ in[<<m, p>>] \in Bag
  BY FlatInValue DEF out, in
<1>3. AllBags(out)
  BY FlatOutValue DEF AllBags, out
<1>4. ASSUME NEW f, NEW m \in Model, m # Top => f[Parent(m)] = InBoxes(in)[Parent(m)]
      PROVE  val(f, m) = InBoxes(in)[m]
  <2>1. CASE m = Top
    BY <1>2, <2>1 DEF ComeIn, EmptyIn, InBoxes
  <2>2. CASE m # Top
    <3> DEFINE c == Parent(m)
               above == [s \in {c} |-> f[c]]
               ic(p) == Static!FromLinks(IC[c], s_outbox, m, p)
               eic(p) == Static!FromLinks(StaticEIC[c], above, m, p)
    <3>1. c \in Coupled /\ m \in Children[c] /\ c \in Model
      BY <2>2, ParentOf, AtomicOrCoupled
    <3>2. val(f, m) = [p \in InPort[m] |-> Static!Joined(s_inbox[m][p], Static!Joined(ic(p), eic(p)))]
      BY <2>2, SameNetwork
    <3>3. f[c] = InBoxes(in)[c]
      BY <1>4, <2>2
    <3>4. HeldIn(c, above, in)
      BY <3>1, <3>3 DEF InBoxes, HeldIn
    <3>5. HeldBelow(c, s_outbox, out)
      BY <1>1c, <3>1, ChildrenAreModels DEF HeldBelow
    <3> HIDE DEF c, above, val
    <3>6. \A p : /\ ic(p) = [x \in Message |-> Total(IcTo(c, m, p), IcCopies(c, out, x))]
                 /\ eic(p) = [x \in Message |-> Total(EicTo(StaticEIC, c, m, p), EicCopies(StaticEIC, c, in, x))]
      <4>1. \A p : Static!FromLinks(IC[c], s_outbox, m, p) = [x \in Message |-> Total(IcTo(c, m, p), IcCopies(c, out, x))]
        BY ONLY <3>1, <3>5, IcBring
      <4>2. \A p : Static!FromLinks(StaticEIC[c], above, m, p) = [x \in Message |-> Total(EicTo(StaticEIC, c, m, p), EicCopies(StaticEIC, c, in, x))]
        BY ONLY <3>1, <3>4, EicBring
      <4>3. QED
        BY <4>1, <4>2
    <3> HIDE DEF ic, eic
    <3>7. \A q \in InPort[c] : in[<<c, q>>] \in Bag
      BY <1>2, <3>1
    <3>8. ASSUME NEW p \in InPort[m]
          PROVE  Static!Joined(s_inbox[m][p], Static!Joined(ic(p), eic(p))) = in[<<m, p>>]
      <4> DEFINE one(x) == Total(IcTo(c, m, p), IcCopies(c, out, x))
                 two(x) == Total(EicTo(StaticEIC, c, m, p), EicCopies(StaticEIC, c, in, x))
      <4>1. \A x \in Message : one(x) \in Nat /\ two(x) \in Nat
        BY <1>3, <3>1, <3>7, StaticEicLinks, CopiesAreNat
      <4>2. in[<<m, p>>] = [x \in Message |-> one(x) + two(x)]
        BY <1>2, <2>2 DEF ComeIn, RoutedIn, c
      <4>3. ic(p) = [x \in Message |-> one(x)] /\ eic(p) = [x \in Message |-> two(x)]
        BY <3>6
      <4> HIDE DEF one, two
      <4>4. s_inbox[m][p] = [x \in Message |-> 0]
        BY DEF EmptyIn, NoMessages
      <4>5. Static!Joined(s_inbox[m][p], Static!Joined(ic(p), eic(p)))
              = [x \in Message |-> 0 + (one(x) + two(x))]
        BY <4>3, <4>4, SameNetwork DEF Static!Joined
      <4>6. \A x \in Message : 0 + (one(x) + two(x)) = one(x) + two(x)
        BY <4>1
      <4>7. QED
        BY <4>2, <4>5, <4>6
    <3>9. InBoxes(in)[m] = [p \in InPort[m] |-> in[<<m, p>>]]
      BY DEF InBoxes
    <3>10. QED
      BY ONLY <3>2, <3>8, <3>9
  <2>3. QED
    BY <2>1, <2>2
<1> HIDE DEF val
<1>5. \A f : step(f) = [m \in Model |-> val(f, m)]
  BY SameTree
<1> HIDE DEF step
<1>6. InBoxes(in) = step(InBoxes(in))
  <2>1. \A m \in Model : val(InBoxes(in), m) = InBoxes(in)[m]
    BY <1>4
  <2>2. InBoxes(in) = [m \in Model |-> InBoxes(in)[m]]
    BY DEF InBoxes
  <2>3. QED
    BY <1>5, <2>1, <2>2
<1>7. box = step(box)
  BY <1>6
<1> HIDE DEF box
<1>8. box = [m \in Model |-> val(box, m)]
  BY <1>5, <1>7
<1> DEFINE S == {m \in Model : box[m] = InBoxes(in)[m]}
<1>9. Top \in S
  BY <1>4, <1>8, ChildrenAreModels
<1>10. ASSUME NEW c \in Coupled \cap S PROVE Children[c] \subseteq S
  <2>1. ASSUME NEW m \in Children[c] PROVE m \in S
    <3>1. m \in Model /\ Parent(m) = c /\ box[c] = InBoxes(in)[c]
      BY <1>10, ChildrenAreModels, ParentOf
    <3>2. val(box, m) = InBoxes(in)[m]
      BY <1>4, <3>1
    <3>3. QED
      BY <1>8, <3>1, <3>2
  <2>2. QED
    BY <2>1
<1>11. Model \subseteq S
  BY <1>9, <1>10, FromTheTop
<1>12. \A m \in Model : box[m] = InBoxes(in)[m]
  BY <1>11
<1>13. InBoxes(in) = [m \in Model |-> InBoxes(in)[m]]
  BY DEF InBoxes
<1>14. box = [m \in Model |-> box[m]]
  BY <1>8
<1>15. box = InBoxes(in)
  BY <1>12, <1>13, <1>14
<1>16. QED
  BY <1>1, <1>15 DEF out, in

(* Between the calls of the static engine's runner, what is in the boxes is   *)
(* what was put out, and nothing that was due is left to do at the end.       *)
FlatBoxes ==
  /\ s_got = [a \in Atomic |-> s_got[a]]
  /\ s_inbox = EmptyIn
  /\ s_phase # "advance" => s_outbox = EmptyOut
  /\ s_phase \in {"ready", "collect"} => s_emitted = <<>>
  /\ s_phase # "next" => s_moved = {}
  /\ s_phase \in {"advance", "next"} => Emitted(s_emitted)
  /\ s_phase = "advance" => DOMAIN s_emitted = Emits /\ s_outbox = OutBoxes(Static!Flat!FlatOut(s_emitted))
  /\ s_phase = "next" => \A a \in Atomic \ s_moved :
       /\ s_next[a] # s_now
       /\ Static!Flat!FlatInbox(s_emitted, a) = Static!Flat!NoInput(a)

LEMMA InBagsOf == \A m : /\ Static!InBags(m) = [p \in InPort[m] |-> NoMessages]
                         /\ Static!OutBags(m) = [p \in OutPort[m] |-> NoMessages]
BY SameNetwork DEF Static!InBags, Static!OutBags

(* The parts of the promise, in the names of the network. *)
LEMMA FlatTerms ==
  /\ Static!Flat!Imminent = {a \in Atomic \ s_moved : s_next[a] = s_now}
  /\ Static!Flat!Due = {a \in Atomic \ s_moved : a \in Static!Flat!Imminent \/ Static!Flat!Receives(a)}
  /\ Static!Flat!AllSent <=> Static!Flat!Imminent \subseteq DOMAIN s_emitted
  /\ \A a : Static!Flat!Receives(a)
              <=> Static!Flat!FlatInbox(s_emitted, a) # Static!Flat!NoInput(a)
  /\ \A a \in Atomic : [b \in Atomic |-> s_last[b]][a] = s_last[a] /\ [b \in Atomic |-> s_next[b]][a] = s_next[a]
<1>1. Static!Atomic = Atomic /\ Static!Flat!Atomic = Atomic
  BY SameTree, SameNetwork
<1>2. Static!Flat!Imminent = {a \in Atomic \ s_moved : s_next[a] = s_now}
  BY <1>1 DEF Static!Flat!Imminent
<1>3. Static!Flat!Due = {a \in Atomic \ s_moved : a \in Static!Flat!Imminent \/ Static!Flat!Receives(a)}
  BY <1>1 DEF Static!Flat!Due
<1>4. Static!Flat!AllSent <=> Static!Flat!Imminent \subseteq DOMAIN s_emitted
  BY DEF Static!Flat!AllSent
<1>5. \A a : Static!Flat!Receives(a)
              <=> Static!Flat!FlatInbox(s_emitted, a) # Static!Flat!NoInput(a)
  BY DEF Static!Flat!Receives
<1>6. QED
  BY <1>2, <1>3, <1>4, <1>5

LEMMA InitIsFlat ==
  ASSUME Static!Init
  PROVE  FlatBoxes /\ Static!Flat!FlatInit
<1>1. /\ s_phase = "ready" /\ s_now = 0 /\ s_emitted = <<>> /\ s_moved = {}
      /\ s_last = [m \in Model |-> 0] /\ s_got = [a \in Atomic |-> Static!NoCall]
  BY SameTree DEF Static!Init
<1>2. s_inbox = EmptyIn /\ s_outbox = EmptyOut
  BY SameTree, InBagsOf DEF Static!Init, EmptyIn, EmptyOut
<1>3. FlatBoxes
  BY <1>1, <1>2 DEF FlatBoxes
<1>4. PICK ta \in [Atomic -> StaticTimeAdvances] : s_next = InitSubcoordinators(ta)
  BY SameTree DEF Static!Init
<1>5. \A a \in Atomic : s_next[a] \in StaticTimeAdvances
  BY <1>4, StaticTimesAssumption, Initialized
<1>6. [a \in Atomic |-> s_next[a]] \in [Atomic -> StaticTimeAdvances]
  BY <1>5
<1>7. [a \in Atomic |-> s_last[a]] = [a \in Atomic |-> 0]
  BY <1>1, AtomicOrCoupled
<1>8. Static!Flat!NoCall = Static!NoCall
  BY DEF Static!Flat!NoCall, Static!NoCall
<1>9. Static!Flat!FlatInit
  BY <1>1, <1>6, <1>7, <1>8, SameTree, SameNetwork DEF Static!Flat!FlatInit
<1>10. QED
  BY <1>3, <1>9

(* The next event of the topmost model is that of an atomic one. *)
LEMMA SomeAtomic ==
  ASSUME NEW f \in [Model -> Nat], LeastBelow(f)
  PROVE  \E a \in Atomic : f[a] = f[Top] /\ \A b \in Atomic : f[a] <= f[b]
<1> DEFINE S == {m \in Model : \E a \in Atomic : f[a] = f[m]}
<1>1. Atomic \subseteq S
  BY AtomicOrCoupled
<1>2. ASSUME NEW c \in Coupled, Children[c] \subseteq S PROVE c \in S
  <2>1. f[c] \in {f[s] : s \in Children[c]}
    BY LeastBelowIn DEF LeastBelow
  <2>2. PICK s \in Children[c] : f[s] = f[c]
    BY <2>1
  <2>3. QED
    BY <1>2, <2>2, AtomicOrCoupled
<1>3. Model \subseteq S
  BY <1>1, <1>2, FromTheBottom
<1>4. PICK a \in Atomic : f[a] = f[Top]
  BY <1>3, ChildrenAreModels
<1>5. \A b \in Atomic : f[Top] <= f[b]
  BY LeastAtTop, AtomicOrCoupled
<1>6. QED
  BY <1>4, <1>5

LEMMA StartIsTick ==
  ASSUME StaticInv, FlatBoxes, Static!StartRound
  PROVE  FlatBoxes' /\ Static!Flat!Tick
<1>1. /\ s_phase = "ready" /\ s_phase' = "collect" /\ s_now' = s_next_event /\ s_next_event < StaticLimit
      /\ UNCHANGED <<s_next_event, s_last, s_next, s_inbox, s_outbox, s_failed, s_emitted, s_moved, s_got>>
  BY DEF Static!StartRound
<1>2. FlatBoxes'
  BY <1>1 DEF FlatBoxes
<1>3. PICK a \in Atomic : s_next[a] = s_next[Top] /\ \A b \in Atomic : s_next[a] <= s_next[b]
  BY SomeAtomic DEF StaticInv
<1>4. s_next_event = s_next[Top]
  BY <1>1 DEF StaticInv
<1>5. Static!Flat!Tick
  BY <1>1, <1>3, <1>4, SameTree, SameNetwork DEF Static!Flat!Tick
<1>6. QED
  BY <1>2, <1>5

LEMMA CollectIsSend ==
  ASSUME StaticInv, FlatBoxes, Static!CollectOutputs
  PROVE  FlatBoxes' /\ (Static!Flat!Send \/ UNCHANGED Static!Flat!flatVars)
<1>1. /\ s_phase = "collect" /\ s_phase' = "advance"
      /\ s_inbox' = [m \in Model |-> IF m \in Static!CollectCalled \cap Atomic THEN Static!InBags(m) ELSE s_inbox[m]]
      /\ UNCHANGED <<s_next_event, s_now, s_last, s_next, s_moved, s_got>>
  BY SameTree DEF Static!CollectOutputs
<1> DEFINE Calls == {a \in Static!CollectCalled \cap Atomic : s_next[a] = s_now}
<1>2. Calls = Emits
  BY ImminentCalled, AtomicOrCoupled DEF Emits
<1>3. PICK out \in [Calls -> UNION {Outputs(a) : a \in Atomic}] :
        /\ \A a \in Calls : out[a] \in Outputs(a)
        /\ s_outbox' = Static!CollectedBoxes(out)
        /\ s_emitted' = out
  <2>1. Calls = {a \in Static!CollectCalled \cap Static!Atomic : s_next[a] = s_now}
    BY SameTree
  <2>2. UNION {Outputs(a) : a \in Atomic} = UNION {Static!Outputs(a) : a \in Static!Atomic}
    BY SameTree, SameNetwork
  <2>3. \E out \in [Calls -> UNION {Static!Outputs(a) : a \in Static!Atomic}] :
          /\ \A a \in Calls : out[a] \in Static!Outputs(a)
          /\ s_outbox' = Static!CollectedBoxes(out)
          /\ s_emitted' = out
    BY <2>1 DEF Static!CollectOutputs
  <2> HIDE DEF Calls
  <2>4. QED
    BY <2>2, <2>3, SameNetwork
<1> HIDE DEF Calls
<1>4. DOMAIN out = Emits /\ Emitted(out)
  BY <1>2, <1>3 DEF Emitted
<1>5. s_outbox = EmptyOut /\ s_inbox = EmptyIn /\ s_emitted = <<>> /\ s_moved = {}
  BY <1>1 DEF FlatBoxes
<1>6. s_outbox' = OutBoxes(Static!Flat!FlatOut(out))
  BY <1>3, <1>4, <1>5, CollectedAreFlat
<1>7. s_inbox' = EmptyIn
  BY <1>1, <1>5, InBagsOf DEF EmptyIn
<1>8. Emits' = Emits
  BY <1>1 DEF Emits
<1>9. FlatBoxes'
  BY <1>1, <1>3, <1>4, <1>5, <1>6, <1>7, <1>8 DEF FlatBoxes
<1>10. ASSUME s_emitted' # s_emitted PROVE Static!Flat!Send
  <2>1. DOMAIN s_emitted = {}
    BY <1>5
  <2>2. Static!Flat!Imminent = Emits
    BY <1>5, FlatTerms DEF Emits
  <2>3. \A a \in DOMAIN s_emitted' : s_emitted'[a] \in Static!Flat!Outputs(a)
    BY <1>3, <1>4, SameNetwork DEF Emitted, Emits
  <2>4. QED
    BY <1>1, <1>3, <1>4, <1>10, <2>1, <2>2, <2>3 DEF Static!Flat!Send
<1>11. ASSUME s_emitted' = s_emitted PROVE UNCHANGED Static!Flat!flatVars
  BY <1>1, <1>11 DEF Static!Flat!flatVars
<1>12. QED
  BY <1>9, <1>10, <1>11

LEMMA AdvanceIsTransition ==
  ASSUME StaticInv, FlatBoxes, Static!AdvanceSimulation
  PROVE  FlatBoxes' /\ (Static!Flat!Transition \/ UNCHANGED Static!Flat!flatVars)
<1> DEFINE box   == Static!RoutedBoxes
           input == {a \in Atomic : ~Static!AllBagsEmpty(box[a])}
           moves == input \cup {a \in Atomic : s_next[a] = s_now}
           call(a) ==
             CASE a \notin moves -> s_got[a]
               [] a \in moves \ input -> [kind |-> "internal"]
               [] OTHER -> [kind |-> IF s_next[a] = s_now THEN "confluence" ELSE "external",
                            e    |-> s_now - s_last[a],
                            bags |-> box[a]]
<1>1. /\ s_phase = "advance" /\ s_phase' = "next"
      /\ s_inbox' = EmptyIn /\ s_outbox' = EmptyOut
      /\ UNCHANGED <<s_next_event, s_now, s_emitted>>
  BY SameTree, InBagsOf DEF Static!AdvanceSimulation, EmptyIn, EmptyOut
<1>2. /\ s_moved' = moves
      /\ s_last' = [m \in Model |-> IF m \in Coupled \cup moves THEN s_now ELSE s_last[m]]
      /\ s_got' = [a \in Atomic |-> call(a)]
  BY SameTree DEF Static!AdvanceSimulation
<1>3. PICK ta \in [moves -> StaticTimeAdvances] :
        s_next' = InitSubcoordinators(
          [a \in Atomic |-> IF a \in moves THEN Static!After(s_now, ta[a]) ELSE s_next[a]])
  BY SameTree DEF Static!AdvanceSimulation
<1>4. /\ s_inbox = EmptyIn /\ s_moved = {} /\ Emitted(s_emitted) /\ DOMAIN s_emitted = Emits
      /\ s_outbox = OutBoxes(Static!Flat!FlatOut(s_emitted)) /\ s_got = [a \in Atomic |-> s_got[a]]
  BY <1>1 DEF FlatBoxes
<1>5. box = InBoxes(Static!Flat!FlatIn(s_emitted))
  BY <1>4, RoutedAreFlat
<1> HIDE DEF box
<1>6. \A a \in Atomic : /\ box[a] = Static!Flat!FlatInbox(s_emitted, a)
                        /\ a \in input <=> Static!Flat!Receives(a)
  <2>1. ASSUME NEW a \in Atomic PROVE box[a] = Static!Flat!FlatInbox(s_emitted, a)
    BY <1>5, AtomicOrCoupled DEF InBoxes, Static!Flat!FlatInbox
  <2>2. ASSUME NEW a \in Atomic PROVE a \in input <=> Static!Flat!Receives(a)
    <3>1. a \in input <=> ~ \A p \in DOMAIN box[a] : box[a][p] = NoMessages
      BY SameNetwork DEF Static!AllBagsEmpty
    <3>2. box[a] = [p \in InPort[a] |-> Static!Flat!FlatIn(s_emitted)[<<a, p>>]]
      BY <2>1 DEF Static!Flat!FlatInbox
    <3>3. Static!Flat!NoInput(a) = [p \in InPort[a] |-> NoMessages]
      BY SameNetwork DEF Static!Flat!NoInput
    <3>4. (\A p \in DOMAIN box[a] : box[a][p] = NoMessages) <=> box[a] = Static!Flat!NoInput(a)
      BY <3>2, <3>3
    <3>5. QED
      BY <2>1, <3>1, <3>4, FlatTerms
  <2>3. QED
    BY <2>1, <2>2
<1> HIDE DEF input
<1>7. input \subseteq Atomic /\ moves \subseteq Atomic
  BY DEF input
<1>8. Static!Flat!Due = moves /\ Static!Flat!Imminent = Emits
  BY <1>4, <1>6, <1>7, FlatTerms DEF Emits
<1> DEFINE times == [a \in Atomic |-> IF a \in moves THEN Static!After(s_now, ta[a]) ELSE s_next[a]]
<1>9. \A a \in Atomic : s_next'[a] = times[a]
  <2>1. times \in [Atomic -> Nat]
    <3>1. ASSUME NEW a \in Atomic PROVE times[a] \in Nat
      <4>1. a \in moves => ta[a] \in Nat
        BY StaticTimesAssumption
      <4>2. a \in moves => times[a] = IF ta[a] = Infinity THEN Infinity ELSE s_now + ta[a]
        BY DEF Static!After
      <4>3. s_now \in Nat /\ s_next[a] \in Nat
        BY AtomicOrCoupled DEF StaticInv
      <4> HIDE DEF moves
      <4>4. CASE a \in moves
        BY <4>1, <4>2, <4>3, <4>4, TimesAssumption
      <4>5. CASE a \notin moves
        BY <4>3, <4>5
      <4>6. QED
        BY <4>4, <4>5
    <3>2. QED
      BY <3>1
  <2>2. s_next' = InitSubcoordinators(times)
    BY <1>3
  <2> HIDE DEF times
  <2>3. QED
    BY <2>1, <2>2, Initialized
<1>10. \A a \in Atomic \ moves : s_next'[a] = s_next[a] /\ s_next[a] # s_now /\ ~Static!Flat!Receives(a)
  BY <1>6, <1>9
<1>11. \A a \in moves : s_next'[a] = Static!Flat!After(s_now, ta[a]) /\ ta[a] \in StaticTimeAdvances
  BY <1>7, <1>9, SameNetwork
<1> HIDE DEF times, moves
<1>12. FlatBoxes'
  <2>1. s_got' = [a \in Atomic |-> s_got'[a]]
    BY <1>2
  <2>2. \A a \in Atomic \ s_moved' :
          /\ s_next'[a] # s_now'
          /\ Static!Flat!FlatInbox(s_emitted', a) = Static!Flat!NoInput(a)
    BY <1>1, <1>2, <1>10, FlatTerms
  <2>3. QED
    BY <1>1, <1>4, <2>1, <2>2 DEF FlatBoxes
<1>13. \A a \in Atomic : s_last'[a] = IF a \in moves THEN s_now ELSE s_last[a]
  BY <1>2, AtomicOrCoupled
<1>14. CASE moves # {}
  <2>1. ASSUME NEW a \in Atomic
        PROVE  call(a) = IF a \in moves THEN Static!Flat!TransitionDue(a) ELSE s_got[a]
    <3>1. Static!Flat!TransitionDue(a) =
            IF a \notin input THEN [kind |-> "internal"]
            ELSE [kind |-> IF s_next[a] = s_now THEN "confluence" ELSE "external",
                  e    |-> s_now - s_last[a],
                  bags |-> box[a]]
      <4>1. a \in Static!Flat!Imminent <=> s_next[a] = s_now
        BY <1>8 DEF Emits
      <4>2. [b \in Static!Atomic |-> s_last[b]][a] = s_last[a]
        BY SameTree
      <4>3. QED
        BY <1>6, <4>1, <4>2 DEF Static!Flat!TransitionDue
    <3>2. QED
      BY <3>1
  <2>2. s_got' = [a \in Atomic |-> IF a \in moves THEN Static!Flat!TransitionDue(a) ELSE s_got[a]]
    BY <1>2, <2>1
  <2>3. [a \in Atomic |-> s_last'[a]] = [a \in Atomic |-> IF a \in moves THEN s_now ELSE [b \in Atomic |-> s_last[b]][a]]
    BY <1>13
  <2>4. \A a \in Atomic :
          IF a \in moves
          THEN \E d \in StaticTimeAdvances : [b \in Atomic |-> s_next'[b]][a] = Static!Flat!After(s_now, d)
          ELSE [b \in Atomic |-> s_next'[b]][a] = [b \in Atomic |-> s_next[b]][a]
    BY <1>10, <1>11
  <2>5. Static!Flat!AllSent
    BY <1>4, <1>8, FlatTerms
  <2>6. s_moved' \ s_moved = moves /\ s_moved' # s_moved /\ s_moved \subseteq s_moved'
    BY <1>2, <1>4, <1>14
  <2>7. Static!Flat!Transition
    BY <1>1, <1>8, <2>2, <2>3, <2>4, <2>5, <2>6, SameTree, SameNetwork DEF Static!Flat!Transition
  <2>8. QED
    BY <1>12, <2>7
<1>15. CASE moves = {}
  <2>1. s_moved' = s_moved
    BY <1>2, <1>4, <1>15
  <2>2. s_got' = s_got
    BY <1>2, <1>4, <1>15
  <2>3. [a \in Atomic |-> s_last'[a]] = [a \in Atomic |-> s_last[a]]
    BY <1>13, <1>15
  <2>4. [a \in Atomic |-> s_next'[a]] = [a \in Atomic |-> s_next[a]]
    BY <1>10, <1>15
  <2>5. UNCHANGED Static!Flat!flatVars
    BY <1>1, <2>1, <2>2, <2>3, <2>4, SameTree DEF Static!Flat!flatVars
  <2>6. QED
    BY <1>12, <2>5
<1>16. QED
  BY <1>14, <1>15

LEMMA FinishIsFinish ==
  ASSUME StaticInv, FlatBoxes, Static!FinishRound
  PROVE  FlatBoxes' /\ Static!Flat!Finish
<1>1. /\ s_phase = "next" /\ s_phase' = "ready" /\ s_emitted' = <<>> /\ s_moved' = {}
      /\ UNCHANGED <<s_now, s_last, s_next, s_inbox, s_outbox, s_failed, s_got>>
  BY DEF Static!FinishRound
<1>2. FlatBoxes'
  BY <1>1 DEF FlatBoxes
<1>3. Static!Flat!Imminent = {} /\ Static!Flat!Due = {}
  BY <1>1, FlatTerms DEF FlatBoxes
<1>4. Static!Flat!AllSent
  BY <1>3, FlatTerms
<1>5. Static!Flat!Finish
  BY <1>1, <1>3, <1>4 DEF Static!Flat!Finish
<1>6. QED
  BY <1>2, <1>5

LEMMA StepIsFlat ==
  ASSUME StaticInv, FlatBoxes, [Static!Next]_s_vars
  PROVE  FlatBoxes' /\ [Static!Flat!FlatNext]_(Static!Flat!flatVars)
<1>1. CASE UNCHANGED s_vars
  <2>1. /\ s_phase' = s_phase /\ s_now' = s_now /\ s_last' = s_last /\ s_next' = s_next
        /\ s_inbox' = s_inbox /\ s_outbox' = s_outbox /\ s_emitted' = s_emitted
        /\ s_moved' = s_moved /\ s_got' = s_got
    BY <1>1 DEF s_vars
  <2>2. FlatBoxes'
    BY <2>1 DEF FlatBoxes, Emits
  <2>3. UNCHANGED Static!Flat!flatVars
    BY <2>1 DEF Static!Flat!flatVars
  <2>4. QED
    BY <2>2, <2>3
<1>2. CASE Static!Next
  BY <1>2, StartIsTick, CollectIsSend, AdvanceIsTransition, FinishIsFinish
     DEF Static!Next, Static!Flat!FlatNext
<1>3. QED
  BY <1>1, <1>2

-----------------------------------------------------------------------------
(* The dynamic engine and the promise, in networks with one link for a port.  *)
(* The bag of a port in a box of the dynamic engine: none if there is no bag. *)
BagAt(box, p) == IF p \in DOMAIN box THEN box[p] ELSE NoMessages

LEMMA RouteMessagesValue ==
  ASSUME NEW from, NEW to, NEW l, l.in \notin DOMAIN to
  PROVE  LET after == RouteMessages(from, to, l)
         IN  /\ BagAt(after, l.in) = BagAt(from, l.out)
             /\ \A p : p # l.in => /\ BagAt(after, p) = BagAt(to, p)
                                   /\ p \in DOMAIN after <=> p \in DOMAIN to
<1> DEFINE after == RouteMessages(from, to, l)
<1>1. CASE l.out \notin DOMAIN from
  <2>1. after = to
    BY <1>1 DEF RouteMessages
  <2>2. QED
    BY <1>1, <2>1 DEF BagAt
<1>2. CASE l.out \in DOMAIN from /\ from[l.out] = NoMessages
  <2>1. after = to
    BY <1>2 DEF RouteMessages
  <2>2. QED
    BY <1>2, <2>1 DEF BagAt
<1>3. CASE l.out \in DOMAIN from /\ from[l.out] # NoMessages
  <2>1. after = [p \in DOMAIN to \cup {l.in} |-> IF p = l.in THEN from[l.out] ELSE to[p]]
    BY <1>3 DEF RouteMessages, PassToNewBag
  <2> HIDE DEF after
  <2>2. QED
    BY <1>3, <2>1 DEF BagAt, after
<1>4. QED
  BY <1>1, <1>2, <1>3

(* Where no two links lead to one port each brings there what it takes, and   *)
(* the ports that none leads to keep what they have.                          *)
Brings(links, from, to, after, m, p) ==
  /\ \A k \in DOMAIN links :
       links[k].to = m /\ links[k].in = p => BagAt(after[m], p) = BagAt(from[links[k].from], links[k].out)
  /\ (\A k \in DOMAIN links : ~(links[k].to = m /\ links[k].in = p)) =>
       BagAt(after[m], p) = BagAt(to[m], p) /\ (p \in DOMAIN after[m] <=> p \in DOMAIN to[m])

LEMMA RoutedValue ==
  ASSUME NEW F, NEW T, NEW D, T \subseteq D, NEW links \in Seq(Links(F, T)), Single(links),
         NEW from, NEW to, DOMAIN to = D,
         \A k \in DOMAIN links : links[k].in \notin DOMAIN to[links[k].to]
  PROVE  \A m \in D : \A p : Brings(links, from, to, Route(links, from, to), m, p)
<1> DEFINE N == Len(links)
<1>1. N \in Nat /\ DOMAIN links = 1 .. N /\ \A k \in 1 .. N : links[k].to \in D
  <2>1. \A k \in 1 .. N : links[k] \in Links(F, T)
    BY ElementOfSeq
  <2>2. QED
    BY <2>1, LenProperties DEF Links
<1>2. PICK after : /\ after[0] = to
                   /\ \A k \in 1 .. N : after[k] = Linked(links, from, after[k - 1], k)
                   /\ Route(links, from, to) = after[N]
  BY <1>1, RouteSteps
<1> HIDE DEF N
<1> DEFINE brought(k, m, p) ==
             /\ \A j \in 1 .. k : links[j].to = m /\ links[j].in = p =>
                  BagAt(after[k][m], p) = BagAt(from[links[j].from], links[j].out)
             /\ (\A j \in 1 .. k : ~(links[j].to = m /\ links[j].in = p)) =>
                  BagAt(after[k][m], p) = BagAt(to[m], p) /\ (p \in DOMAIN after[k][m] <=> p \in DOMAIN to[m])
           B == {k \in 0 .. N : DOMAIN after[k] = D /\ \A m \in D : \A p : brought(k, m, p)}
<1>3. 0 \in B
  BY <1>1, <1>2
<1>4. ASSUME NEW k \in 1 .. N, k - 1 \in B PROVE k \in B
  <2> DEFINE d == links[k].to
             q == links[k].in
             b == after[k - 1]
             box == from[links[k].from]
             r == RouteMessages(box, b[d], links[k])
  <2>1. d \in D /\ k \in DOMAIN links /\ k \in 0 .. N /\ DOMAIN b = D
    BY <1>1, <1>4
  <2>2. after[k] = [b EXCEPT ![d] = r]
    BY <1>2 DEF Linked
  <2>3. DOMAIN after[k] = D /\ after[k][d] = r /\ \A m \in D : m # d => after[k][m] = b[m]
    BY <2>1, <2>2
  <2>4. \A j \in 1 .. k : j \in DOMAIN links /\ (j = k \/ j \in 1 .. k - 1)
    BY <1>1
  <2>4b. \A j \in 1 .. k - 1 : j \in 1 .. k /\ j # k
    BY <1>1
  <2>5. \A j \in 1 .. k - 1 : ~(links[j].to = d /\ links[j].in = q)
    BY <2>1, <2>4, <2>4b DEF Single
  <2>6. q \notin DOMAIN b[d]
    BY <1>4, <2>1, <2>5
  <2>7. /\ BagAt(r, q) = BagAt(box, links[k].out)
        /\ \A p : p # q => BagAt(r, p) = BagAt(b[d], p) /\ (p \in DOMAIN r <=> p \in DOMAIN b[d])
    BY <2>6, RouteMessagesValue
  <2>8. ASSUME NEW m \in D, NEW p PROVE brought(k, m, p)
    <3>0. brought(k - 1, m, p)
      BY <1>4
    <3>1. CASE m = d /\ p = q
      BY <2>3, <2>4, <2>5, <2>7, <3>1
    <3>2. CASE ~(m = d /\ p = q)
      <4>1. /\ BagAt(after[k][m], p) = BagAt(b[m], p)
            /\ p \in DOMAIN after[k][m] <=> p \in DOMAIN b[m]
        BY <2>3, <2>7, <3>2
      <4> HIDE DEF b, r, box
      <4>2. QED
        BY <2>4, <2>4b, <3>0, <3>2, <4>1 DEF b
    <3>3. QED
      BY <3>1, <3>2
  <2>9. QED
    BY <2>1, <2>3, <2>8
<1>5. N \in B
  <2> HIDE DEF B
  <2>1. \A k \in 0 .. N : k \in B
    BY <1>1, <1>3, <1>4, UpTo
  <2>2. QED
    BY <1>1, <2>1
<1>6. QED
  BY <1>1, <1>2, <1>5 DEF Brings

LEMMA TotalOne ==
  ASSUME NEW A, NEW k, A = {k}, NEW b, b[k] \in Nat
  PROVE  Total(A, b) = b[k]
<1>1. UNION {{i} \X (1 .. b[i]) : i \in A} = {k} \X (1 .. b[k])
  OBVIOUS
<1>2. IsFiniteSet({k}) /\ Cardinality({k}) = 1
  BY FS_Singleton
<1>3. 1 \in Int /\ b[k] \in Int
  OBVIOUS
<1>4. IsFiniteSet(1 .. b[k]) /\ Cardinality(1 .. b[k]) = IF 1 > b[k] THEN 0 ELSE b[k] - 1 + 1
  BY <1>3, FS_Interval
<1>5. Cardinality(1 .. b[k]) = b[k]
  BY <1>3, <1>4
<1>6. Cardinality({k} \X (1 .. b[k])) = Cardinality({k}) * Cardinality(1 .. b[k])
  BY <1>2, <1>4, FS_Product
<1>7. Total(A, b) = 1 * b[k]
  BY <1>1, <1>2, <1>5, <1>6, Zenon DEF Total
<1>8. QED
  BY <1>7

LEMMA TotalNone ==
  ASSUME NEW A, A = {}, NEW b
  PROVE  Total(A, b) = 0
BY TotalZero

(* The names of the network in the promise of the dynamic engine. *)
LEMMA SameNames ==
  /\ Flat!Coupled = Coupled /\ Flat!Atomic = Atomic /\ Flat!Model = Model
  /\ Flat!Message = Message /\ Flat!NoMessages = NoMessages
  /\ \A m : Flat!Parent(m) = Parent(m)
  /\ \A a : Flat!Outputs(a) = Outputs(a)
  /\ \A a, out, p : Flat!Emission(a, out, p) = Emission(a, out, p)
  /\ \A S : Flat!Cardinality(S) = Cardinality(S)
  /\ \A t, ta : Flat!After(t, ta) = After(t, ta)
<1>1. Flat!Coupled = Coupled
  BY DEF Flat!Coupled, Coupled
<1>2. Flat!Atomic = Atomic
  BY <1>1 DEF Flat!Atomic, Atomic
<1>3. Flat!Model = Model
  BY <1>1, <1>2 DEF Flat!Model, Model
<1>4. Flat!Message = Message
  BY <1>2 DEF Flat!Message, Message
<1>5. Flat!NoMessages = NoMessages
  BY <1>4 DEF Flat!NoMessages, NoMessages
<1>6. \A m : Flat!Parent(m) = Parent(m)
  BY <1>1 DEF Flat!Parent, Parent
<1>7. \A a : Flat!Outputs(a) = Outputs(a)
  BY DEF Flat!Outputs, Outputs
<1>8. \A a, out, p : Flat!Emission(a, out, p) = Emission(a, out, p)
  BY <1>5 DEF Flat!Emission, Emission
<1>9. \A S : Flat!Cardinality(S) = Cardinality(S)
  BY DEF Flat!Cardinality, Cardinality
<1>10. \A t, ta : Flat!After(t, ta) = After(t, ta)
  BY DEF Flat!After, After
<1>11. QED
  BY <1>1, <1>2, <1>3, <1>4, <1>5, <1>6, <1>7, <1>8, <1>9, <1>10

(* What comes out of the models is the same for both engines. *)
LEMMA SameOut == \A em : Flat!FlatOut(em) = Static!Flat!FlatOut(em)
<1> SUFFICES ASSUME NEW em PROVE Flat!FlatOut(em) = Static!Flat!FlatOut(em)
  OBVIOUS
<1> DEFINE eoc(f, m, p) ==
             [x \in Flat!Message |->
                Flat!Brought(EOC[m], x, LAMBDA l : l.in = p, LAMBDA l : f[<<l.from, l.out>>])]
           s_eoc(f, m, p) ==
             [x \in Static!Flat!Message |->
                Static!Flat!Brought(EOC[m], x, LAMBDA l : l.in = p, LAMBDA l : f[<<l.from, l.out>>])]
           step(f) ==
             [mp \in UNION {{m} \X OutPort[m] : m \in Flat!Model} |->
                LET m == mp[1]
                    p == mp[2]
                IN  IF m \in Flat!Atomic
                    THEN IF m \in DOMAIN em THEN Flat!Emission(m, em[m], p) ELSE Flat!NoMessages
                    ELSE eoc(f, m, p)]
           s_step(f) ==
             [mp \in UNION {{m} \X OutPort[m] : m \in Static!Flat!Model} |->
                LET m == mp[1]
                    p == mp[2]
                IN  IF m \in Static!Flat!Atomic
                    THEN IF m \in DOMAIN em THEN Static!Flat!Emission(m, em[m], p) ELSE Static!Flat!NoMessages
                    ELSE s_eoc(f, m, p)]
<1>1. Flat!FlatOut(em) = CHOOSE f : f = step(f)
  BY DEF Flat!FlatOut
<1>2. Static!Flat!FlatOut(em) = CHOOSE f : f = s_step(f)
  BY DEF Static!Flat!FlatOut
<1>3. ASSUME NEW f, NEW m, NEW p PROVE eoc(f, m, p) = s_eoc(f, m, p)
  <2>1. \A x : Flat!Brought(EOC[m], x, LAMBDA l : l.in = p, LAMBDA l : f[<<l.from, l.out>>])
               = Static!Flat!Brought(EOC[m], x, LAMBDA l : l.in = p, LAMBDA l : f[<<l.from, l.out>>])
    BY SameNames, SameNetwork DEF Flat!Brought, Static!Flat!Brought
  <2>2. QED
    BY <2>1, SameNames, SameNetwork
<1> HIDE DEF eoc, s_eoc
<1>4. ASSUME NEW f PROVE step(f) = s_step(f)
  BY <1>3, SameNames, SameNetwork
<1> HIDE DEF step, s_step
<1>5. QED
  BY <1>1, <1>2, <1>4

LEMMA OneLink ==
  ASSUME OneLinkPerPort
  PROVE  /\ EicLinks(EIC)
         /\ \A c \in Coupled :
              /\ Single(IC[c]) /\ Single(EIC[c]) /\ Single(EOC[c])
              /\ \A j \in DOMAIN IC[c], k \in DOMAIN EIC[c] :
                   ~(IC[c][j].to = EIC[c][k].to /\ IC[c][j].in = EIC[c][k].in)
<1>1. EicLinks(EIC)
  BY CouplingAssumption DEF OneLinkPerPort, EicLinks
<1>2. ASSUME NEW F, NEW T, NEW G, NEW U, NEW s \in Seq(Links(F, T)), NEW t \in Seq(Links(G, U)), Single(s \o t)
      PROVE  /\ Single(s) /\ Single(t)
             /\ \A j \in DOMAIN s, k \in DOMAIN t : ~(s[j].to = t[k].to /\ s[j].in = t[k].in)
  <2> DEFINE N == Len(s)
             M == Len(t)
             u == s \o t
  <2>1. N \in Nat /\ M \in Nat /\ DOMAIN s = 1 .. N /\ DOMAIN t = 1 .. M
    BY LenProperties
  <2>2. /\ DOMAIN u = 1 .. N + M
        /\ \A j \in 1 .. N : u[j] = s[j]
        /\ \A k \in 1 .. M : u[N + k] = t[k]
    <3>1. s \in Seq(Links(F, T) \cup Links(G, U)) /\ t \in Seq(Links(F, T) \cup Links(G, U))
      OBVIOUS
    <3>2. QED
      BY <3>1, <2>1, ConcatProperties, LenProperties
  <2>3. \A i, j \in DOMAIN u : u[i].to = u[j].to /\ u[i].in = u[j].in => i = j
    BY Zenon, <1>2 DEF Single
  <2> HIDE DEF N, M, u
  <2>4. Single(s)
    BY <2>1, <2>2, <2>3 DEF Single
  <2>5. Single(t)
    <3>1. ASSUME NEW j \in 1 .. M, NEW k \in 1 .. M, t[j].to = t[k].to, t[j].in = t[k].in PROVE j = k
      <4>1. N + j \in DOMAIN u /\ N + k \in DOMAIN u
        BY <2>1, <2>2
      <4>2. N + j = N + k
        BY <2>2, <2>3, <3>1, <4>1
      <4>3. QED
        BY <2>1, <4>2
    <3>2. QED
      BY <2>1, <3>1 DEF Single
  <2>6. ASSUME NEW j \in 1 .. N, NEW k \in 1 .. M, s[j].to = t[k].to, s[j].in = t[k].in PROVE FALSE
    <3>1. j \in DOMAIN u /\ N + k \in DOMAIN u /\ j # N + k
      BY <2>1, <2>2
    <3>2. QED
      BY <2>2, <2>3, <2>6, <3>1
  <2>7. QED
    BY <2>1, <2>4, <2>5, <2>6
<1>3. ASSUME NEW c \in Coupled
      PROVE  /\ Single(IC[c]) /\ Single(EIC[c]) /\ Single(EOC[c])
             /\ \A j \in DOMAIN IC[c], k \in DOMAIN EIC[c] :
                  ~(IC[c][j].to = EIC[c][k].to /\ IC[c][j].in = EIC[c][k].in)
  <2>1. /\ IC[c] \in Seq(Links(Children[c], Children[c]))
        /\ EIC[c] \in Seq(Links({c}, Children[c]))
    BY CouplingAssumption
  <2>2. Single(IC[c] \o EIC[c]) /\ Single(EOC[c])
    BY DEF OneLinkPerPort
  <2>3. QED
    BY <1>2, <2>1, <2>2
<1>4. QED
  BY <1>1, <1>3

LEMMA DynamicOutValue ==
  ASSUME NEW em, Emitted(em)
  PROVE  LET out == Flat!FlatOut(em)
         IN  \A m \in Model : \A p \in OutPort[m] :
               out[<<m, p>>] = PutOut(em, out, m, p) /\ out[<<m, p>>] \in Bag
BY SameOut, FlatOutValue

LEMMA DynamicInValue ==
  ASSUME EicLinks(EIC), NEW em, Emitted(em)
  PROVE  LET out == Flat!FlatOut(em)
             in  == Flat!FlatIn(em)
         IN  \A m \in Model : \A p \in InPort[m] :
               in[<<m, p>>] = ComeIn(EIC, out, in, m, p) /\ in[<<m, p>>] \in Bag
<1> DEFINE out == Flat!FlatOut(em)
           step(f) ==
             [mp \in UNION {{m} \X InPort[m] : m \in Flat!Model} |->
                LET m == mp[1]
                    p == mp[2]
                    here(l) == l.to = m /\ l.in = p
                IN  IF m = Top THEN Flat!NoMessages
                    ELSE [x \in Flat!Message |->
                            Flat!Brought(IC[Flat!Parent(m)], x, here, LAMBDA l : out[<<l.from, l.out>>])
                            + Flat!Brought(EIC[Flat!Parent(m)], x, here,
                                LAMBDA l : f[<<Flat!Parent(m), l.out>>])]]
           in == Flat!FlatIn(em)
<1>0. EicLinks(EIC)
  OBVIOUS
<1>1. in = CHOOSE f : f = step(f)
  BY DEF Flat!FlatIn
<1> HIDE DEF in
<1>2. AllBags(out)
  BY DynamicOutValue DEF AllBags
<1> DEFINE icIn(c, m, p, x) ==
             Flat!Brought(IC[c], x, LAMBDA l : l.to = m /\ l.in = p, LAMBDA l : out[<<l.from, l.out>>])
           eicIn(f, c, m, p, x) ==
             Flat!Brought(EIC[c], x, LAMBDA l : l.to = m /\ l.in = p, LAMBDA l : f[<<c, l.out>>])
<1>3. ASSUME NEW c, NEW m, NEW p, NEW x
      PROVE  icIn(c, m, p, x) = Total(IcTo(c, m, p), IcCopies(c, out, x))
  <2> HIDE DEF out
  <2>1. icIn(c, m, p, x)
          = Cardinality(UNION {{i} \X (1 .. out[<<IC[c][i].from, IC[c][i].out>>][x]) : i \in IcTo(c, m, p)})
    BY SameNames DEF Flat!Brought, IcTo
  <2>2. {{i} \X (1 .. out[<<IC[c][i].from, IC[c][i].out>>][x]) : i \in IcTo(c, m, p)}
          = {{i} \X (1 .. IcCopies(c, out, x)[i]) : i \in IcTo(c, m, p)}
    BY DEF IcCopies, IcTo
  <2> HIDE DEF icIn
  <2>3. QED
    BY <2>1, <2>2 DEF Total
<1>4. ASSUME NEW f, NEW c, NEW m, NEW p, NEW x
      PROVE  eicIn(f, c, m, p, x) = Total(EicTo(EIC, c, m, p), EicCopies(EIC, c, f, x))
  <2>1. eicIn(f, c, m, p, x)
          = Cardinality(UNION {{i} \X (1 .. f[<<c, EIC[c][i].out>>][x]) : i \in EicTo(EIC, c, m, p)})
    BY SameNames DEF Flat!Brought, EicTo
  <2>2. {{i} \X (1 .. f[<<c, EIC[c][i].out>>][x]) : i \in EicTo(EIC, c, m, p)}
          = {{i} \X (1 .. EicCopies(EIC, c, f, x)[i]) : i \in EicTo(EIC, c, m, p)}
    BY DEF EicCopies, EicTo
  <2> HIDE DEF eicIn
  <2>3. QED
    BY <2>1, <2>2 DEF Total
<1> HIDE DEF out
<1>5. ASSUME NEW f PROVE step(f) = [mp \in InAt |-> ComeIn(EIC, out, f, mp[1], mp[2])]
  <2>1. Flat!Model = Model
    BY SameNames
  <2>2. InAt = UNION {{m} \X InPort[m] : m \in Flat!Model}
    BY <2>1 DEF InAt
  <2>3. ASSUME NEW mp \in InAt PROVE step(f)[mp] = ComeIn(EIC, out, f, mp[1], mp[2])
    <3> DEFINE m == mp[1]
               p == mp[2]
               c == Parent(m)
               brought == [x \in Message |-> icIn(c, m, p, x) + eicIn(f, c, m, p, x)]
    <3>1. step(f)[mp] = IF m = Top THEN NoMessages ELSE brought
      BY ZenonT(40), <2>2, SameNames DEF Flat!Brought
    <3>2. brought = RoutedIn(EIC, out, f, c, m, p)
      <4> HIDE DEF icIn, eicIn, m, p, c
      <4>1. QED
        BY <1>3, <1>4 DEF RoutedIn
    <3> HIDE DEF step, m, p, c, brought
    <3>3. step(f)[mp] = IF m = Top THEN NoMessages ELSE RoutedIn(EIC, out, f, c, m, p)
      BY <3>1, <3>2
    <3>4. QED
      BY ONLY Zenon, <3>3 DEF ComeIn, m, p, c
  <2>4. step(f) = [mp \in InAt |-> step(f)[mp]]
    BY <2>2
  <2> HIDE DEF step
  <2>5. QED
    BY <2>3, <2>4
<1> HIDE DEF step
<1>6. ComesIn(EIC, out, in)
  BY <1>1, <1>5 DEF ComesIn
<1>7. \A m \in Model : \A p \in InPort[m] : in[<<m, p>>] = ComeIn(EIC, out, in, m, p) /\ in[<<m, p>>] \in Bag
  BY ONLY <1>0, <1>2, <1>6, ComeInValue
<1>8. QED
  BY <1>7 DEF out, in

(* What a single link of EOC brings, and where none leads. *)
LEMMA EocValue ==
  ASSUME OneLinkPerPort, NEW c \in Coupled, NEW p, NEW out,
         \A s \in Children[c] : \A q \in OutPort[s] : out[<<s, q>>] \in Bag
  PROVE  LET sum == [x \in Message |-> Total(EocTo(c, p), EocCopies(c, out, x))]
         IN  /\ \A k \in DOMAIN EOC[c] : EOC[c][k].in = p => sum = out[<<EOC[c][k].from, EOC[c][k].out>>]
             /\ (\A k \in DOMAIN EOC[c] : EOC[c][k].in # p) => sum = NoMessages
<1> DEFINE sum == [x \in Message |-> Total(EocTo(c, p), EocCopies(c, out, x))]
<1>1. ASSUME NEW k \in DOMAIN EOC[c], EOC[c][k].in = p PROVE sum = out[<<EOC[c][k].from, EOC[c][k].out>>]
  <2> DEFINE bag == out[<<EOC[c][k].from, EOC[c][k].out>>]
  <2>1. bag \in Bag
    BY InnerLinks
  <2>2. Single(EOC[c])
    BY OneLink
  <2>3. EocTo(c, p) = {k}
    BY <1>1, <2>2, InnerLinks DEF EocTo, Single
  <2>4. \A x \in Message : EocCopies(c, out, x)[k] = bag[x]
    BY DEF EocCopies
  <2> HIDE DEF bag
  <2>5. ASSUME NEW x \in Message PROVE Total(EocTo(c, p), EocCopies(c, out, x)) = bag[x]
    <3>1. EocCopies(c, out, x)[k] \in Nat
      BY <2>1, <2>4 DEF Bag
    <3>2. QED
      BY <2>3, <2>4, <3>1, TotalOne
  <2>6. bag = [x \in Message |-> bag[x]]
    BY <2>1 DEF Bag
  <2>7. QED
    BY <2>5, <2>6 DEF bag
<1>2. ASSUME \A k \in DOMAIN EOC[c] : EOC[c][k].in # p PROVE sum = NoMessages
  <2>1. EocTo(c, p) = {}
    BY <1>2 DEF EocTo
  <2>2. \A x \in Message : Total(EocTo(c, p), EocCopies(c, out, x)) = 0
    BY <2>1, TotalNone
  <2>3. QED
    BY <2>2 DEF NoMessages
<1>3. QED
  BY <1>1, <1>2

(* sum is what the one link to port p of m brings, by IC or by EIC, or nothing *)
(* where there is none.                                                       *)
SingleBrings(c, out, f, m, p, sum) ==
  /\ \A k \in DOMAIN IC[c] :
       IC[c][k].to = m /\ IC[c][k].in = p => sum = out[<<IC[c][k].from, IC[c][k].out>>]
  /\ \A k \in DOMAIN EIC[c] :
       EIC[c][k].to = m /\ EIC[c][k].in = p => sum = f[<<c, EIC[c][k].out>>]
  /\ (/\ \A k \in DOMAIN IC[c] : ~(IC[c][k].to = m /\ IC[c][k].in = p)
      /\ \A k \in DOMAIN EIC[c] : ~(EIC[c][k].to = m /\ EIC[c][k].in = p)) => sum = NoMessages

LEMMA RoutedInValue ==
  ASSUME OneLinkPerPort, NEW c \in Coupled, NEW m, NEW p, NEW out, AllBags(out), NEW f,
         \A q \in InPort[c] : f[<<c, q>>] \in Bag
  PROVE  SingleBrings(c, out, f, m, p, RoutedIn(EIC, out, f, c, m, p))
<1> DEFINE sum == RoutedIn(EIC, out, f, c, m, p)
           ic(x)  == Total(IcTo(c, m, p), IcCopies(c, out, x))
           eic(x) == Total(EicTo(EIC, c, m, p), EicCopies(EIC, c, f, x))
<1>1. sum = [x \in Message |-> ic(x) + eic(x)]
  BY DEF RoutedIn
<1>2. /\ EicLinks(EIC) /\ Single(IC[c]) /\ Single(EIC[c])
      /\ \A j \in DOMAIN IC[c], k \in DOMAIN EIC[c] :
           ~(IC[c][j].to = EIC[c][k].to /\ IC[c][j].in = EIC[c][k].in)
  BY OneLink
<1> HIDE DEF sum
<1>3. ASSUME NEW k \in DOMAIN IC[c], IC[c][k].to = m /\ IC[c][k].in = p
      PROVE  sum = out[<<IC[c][k].from, IC[c][k].out>>]
  <2> DEFINE bag == out[<<IC[c][k].from, IC[c][k].out>>]
  <2>1. bag \in Bag
    BY InnerLinks, ChildrenAreModels DEF AllBags
  <2>2. IcTo(c, m, p) = {k} /\ EicTo(EIC, c, m, p) = {}
    BY <1>2, <1>3 DEF IcTo, EicTo, Single
  <2>3. \A x \in Message : IcCopies(c, out, x)[k] = bag[x]
    BY DEF IcCopies
  <2> HIDE DEF bag
  <2>4. ASSUME NEW x \in Message PROVE ic(x) + eic(x) = bag[x]
    <3>1. IcCopies(c, out, x)[k] \in Nat /\ bag[x] \in Nat
      BY <2>1, <2>3 DEF Bag
    <3>2. ic(x) = bag[x]
      BY <2>2, <2>3, <3>1, TotalOne
    <3>3. eic(x) = 0
      BY <2>2, TotalNone
    <3>4. QED
      BY <3>1, <3>2, <3>3
  <2>5. bag = [x \in Message |-> bag[x]]
    BY <2>1 DEF Bag
  <2> HIDE DEF ic, eic
  <2>6. QED
    BY <1>1, <2>4, <2>5 DEF bag
<1>4. ASSUME NEW k \in DOMAIN EIC[c], EIC[c][k].to = m /\ EIC[c][k].in = p
      PROVE  sum = f[<<c, EIC[c][k].out>>]
  <2> DEFINE bag == f[<<c, EIC[c][k].out>>]
  <2>1. bag \in Bag
    BY <1>2, OuterLinks
  <2>2. EicTo(EIC, c, m, p) = {k} /\ IcTo(c, m, p) = {}
    BY <1>2, <1>4 DEF IcTo, EicTo, Single
  <2>3. \A x \in Message : EicCopies(EIC, c, f, x)[k] = bag[x]
    BY DEF EicCopies
  <2> HIDE DEF bag
  <2>4. ASSUME NEW x \in Message PROVE ic(x) + eic(x) = bag[x]
    <3>1. EicCopies(EIC, c, f, x)[k] \in Nat /\ bag[x] \in Nat
      BY <2>1, <2>3 DEF Bag
    <3>2. eic(x) = bag[x]
      BY <2>2, <2>3, <3>1, TotalOne
    <3>3. ic(x) = 0
      BY <2>2, TotalNone
    <3>4. QED
      BY <3>1, <3>2, <3>3
  <2>5. bag = [x \in Message |-> bag[x]]
    BY <2>1 DEF Bag
  <2> HIDE DEF ic, eic
  <2>6. QED
    BY <1>1, <2>4, <2>5 DEF bag
<1>5. ASSUME /\ \A k \in DOMAIN IC[c] : ~(IC[c][k].to = m /\ IC[c][k].in = p)
             /\ \A k \in DOMAIN EIC[c] : ~(EIC[c][k].to = m /\ EIC[c][k].in = p)
      PROVE  sum = NoMessages
  <2>1. EicTo(EIC, c, m, p) = {} /\ IcTo(c, m, p) = {}
    BY <1>5 DEF IcTo, EicTo
  <2>2. \A x \in Message : ic(x) = 0 /\ eic(x) = 0
    BY <2>1, TotalNone
  <2> HIDE DEF ic, eic
  <2>3. QED
    BY <1>1, <2>2 DEF NoMessages
<1>6. QED
  BY <1>3, <1>4, <1>5 DEF SingleBrings, sum

(* What the boxes of the dynamic engine hold in a round, where each port has   *)
(* one link.  In the first half the imminent models that are done have put    *)
(* out what is in their boxes, and each coordinator what its links took.      *)
Sent == {a \in Atomic : stage[a] = "done" /\ next[a] = above_time}

CollectedBy(c) ==
  \A p \in OutPort[c] :
    /\ \A k \in DOMAIN EOC[c] : EOC[c][k].in = p =>
         BagAt(outbox[c], p) = BagAt(outbox[EOC[c][k].from], EOC[c][k].out)
    /\ (\A k \in DOMAIN EOC[c] : EOC[c][k].in # p) => BagAt(outbox[c], p) = NoMessages

Collecting ==
  /\ moved = {}
  /\ Emitted(emitted) /\ DOMAIN emitted = Sent
  /\ \A m \in Model : stage[m] = "running" => next[m] = above_time
  /\ \A m \in Model : stage[m] # "done" \/ next[m] # above_time => outbox[m] = NoBox
  /\ \A a \in Sent : outbox[a] = MapFromBags(a, emitted[a])
  /\ \A c \in Coupled : stage[c] = "done" /\ next[c] = above_time =>
       CollectedBy(c) /\ \A s \in Children[c] : stage[s] = "done"

(* In the second half, what the promise says comes out is in the outboxes of  *)
(* the models that have not been called, and what it says comes in is in the  *)
(* inboxes of those that their coordinators have routed to.                   *)
Holds(box, ports, f, m) == \A p \in ports : BagAt(box, p) = f[<<m, p>>]
Reached(m) == m = Top \/ stage[Parent(m)] # "todo"

Moving ==
  /\ Emitted(emitted)
  /\ \A a \in moved : stage[a] = "done"
  /\ \A a \in Atomic \ moved :
       /\ next[a] = above_time => a \in DOMAIN emitted
       /\ stage[a] = "done" => next[a] # above_time /\ Flat!FlatInbox(emitted, a) = Flat!NoInput(a)
  /\ \A m \in Model :
       /\ stage[m] = "todo" => Holds(outbox[m], OutPort[m], Flat!FlatOut(emitted), m)
       /\ Reached(m) /\ stage[m] # "done" => Holds(inbox[m], InPort[m], Flat!FlatIn(emitted), m)
       /\ ~Reached(m) => inbox[m] = NoBox
       /\ DOMAIN inbox[m] \subseteq InPort[m]

FlatInv ==
  /\ got = [a \in Atomic |-> got[a]]
  /\ ~InRound => emitted = <<>> /\ moved = {}
  /\ phase = "collect" => Collecting
  /\ phase = "advance" => Moving

DynamicInv == EngineInv /\ BoxInv /\ FlatInv

(* The parts of the promise, in the names of the network. *)
LEMMA FlatTermsDynamic ==
  /\ Flat!Imminent = {a \in Atomic \ moved : next[a] = above_time}
  /\ \A a : Flat!Receives(a) <=> Flat!FlatInbox(emitted, a) # Flat!NoInput(a)
  /\ Flat!Due = {a \in Atomic \ moved : a \in Flat!Imminent \/ Flat!Receives(a)}
  /\ Flat!AllSent <=> Flat!Imminent \subseteq DOMAIN emitted
<1>1. Flat!Imminent = {a \in Atomic \ moved : next[a] = above_time}
  BY SameNames DEF Flat!Imminent
<1>2. \A a : Flat!Receives(a) <=> Flat!FlatInbox(emitted, a) # Flat!NoInput(a)
  BY DEF Flat!Receives
<1>3. Flat!Due = {a \in Atomic \ moved : a \in Flat!Imminent \/ Flat!Receives(a)}
  BY SameNames DEF Flat!Due
<1>4. QED
  BY <1>1, <1>2, <1>3 DEF Flat!AllSent

(* What the models cannot be seen to do is a stutter of the promise.          *)
LEMMA Unseen ==
  ASSUME UNCHANGED <<above_time, emitted, moved, got>>, InRound' <=> InRound,
         \A a \in Atomic : last'[a] = last[a] /\ next'[a] = next[a]
  PROVE  UNCHANGED Flat!flatVars
<1>1. [a \in Atomic |-> last'[a]] = [a \in Atomic |-> last[a]]
  OBVIOUS
<1>2. [a \in Atomic |-> next'[a]] = [a \in Atomic |-> next[a]]
  OBVIOUS
<1>3. QED
  BY <1>1, <1>2 DEF Flat!flatVars, InRound

LEMMA InitFlat == Init => FlatInv /\ Flat!FlatInit
<1> SUFFICES ASSUME Init PROVE FlatInv /\ Flat!FlatInit
  OBVIOUS
<1>1. /\ phase = "ready" /\ above_time = 0 /\ emitted = <<>> /\ moved = {}
      /\ got = [a \in Atomic |-> NoCall] /\ last = [m \in Model |-> 0]
  BY DEF Init
<1>2. FlatInv
  BY <1>1 DEF FlatInv, InRound
<1>3. PICK ta \in [Atomic -> TimeAdvances] : next = InitSubcoordinators(ta)
  BY DEF Init
<1>4. \A a \in Atomic : next[a] \in TimeAdvances
  BY <1>3, TimesAssumption, Initialized
<1>5. [a \in Atomic |-> next[a]] \in [Atomic -> TimeAdvances]
  BY <1>4
<1>6. [a \in Atomic |-> last[a]] = [a \in Atomic |-> 0]
  BY <1>1, AtomicOrCoupled
<1>7. Flat!NoCall = NoCall
  BY DEF Flat!NoCall, NoCall
<1>8. Flat!FlatInit
  BY <1>1, <1>5, <1>6, <1>7, SameNames DEF Flat!FlatInit
<1>9. QED
  BY <1>2, <1>8

LEMMA StartRoundIsTick ==
  ASSUME DynamicInv, StartRound
  PROVE  FlatInv' /\ Flat!Tick
<1>1. /\ phase = "ready" /\ phase' = "collect" /\ above_time' = next_event /\ next_event < Limit
      /\ stage' = [m \in Model |-> "todo"]
      /\ UNCHANGED <<next_event, last, next, inbox, outbox, failed, emitted, moved, got>>
  BY DEF StartRound, NewPhase, boxes, history
<1>2. /\ emitted = <<>> /\ moved = {} /\ got = [a \in Atomic |-> got[a]]
      /\ \A m \in Model : outbox[m] = NoBox
      /\ next \in [Model -> Nat] /\ LeastBelow(next) /\ next_event = next[Top]
  BY <1>1 DEF DynamicInv, FlatInv, BoxInv, EngineInv, TypeInv, TimeInv, InRound
<1>3. \A m \in Model : stage'[m] = "todo"
  BY <1>1
<1>4. Sent' = {}
  BY <1>3, AtomicOrCoupled DEF Sent
<1>5. Collecting'
  BY <1>1, <1>2, <1>3, <1>4, AtomicOrCoupled DEF Collecting, Emitted
<1>6. FlatInv'
  BY <1>1, <1>2, <1>5 DEF FlatInv, InRound
<1>7. PICK a \in Atomic : next[a] = next[Top] /\ \A b \in Atomic : next[a] <= next[b]
  BY <1>2, SomeAtomic
<1>8. Flat!Tick
  BY <1>1, <1>2, <1>7, SameNames DEF Flat!Tick
<1>9. QED
  BY <1>6, <1>8

LEMMA CollectOutputsIsSend ==
  ASSUME DynamicInv, NEW a \in Atomic, NEW out \in Outputs(a), CollectOutputs(a, out)
  PROVE  FlatInv' /\ (Flat!Send \/ UNCHANGED Flat!flatVars)
<1>1. a \in Model /\ phase = "collect" /\ InRound /\ stage[a] = "todo" /\ a \notin Coupled
  BY AtomicOrCoupled DEF CollectOutputs, Called, InRound
<1>2. ~(next[a] < above_time)
  BY <1>1, InTime DEF DynamicInv, EngineInv, TypeInv
<1>3. /\ stage' = [stage EXCEPT ![a] = "done"]
      /\ UNCHANGED <<phase, next_event, above_time, last, next, failed, moved, got>>
      /\ IF next[a] = above_time
         THEN /\ outbox' = [outbox EXCEPT ![a] = MapFromBags(a, out)]
              /\ emitted' = [b \in DOMAIN emitted \cup {a} |-> IF b = a THEN out ELSE emitted[b]]
         ELSE outbox' = [outbox EXCEPT ![a] = NoBox] /\ UNCHANGED emitted
  BY <1>2 DEF CollectOutputs, StageOf
<1>4. /\ stage \in [Model -> Stage] /\ outbox \in [Model -> Box] /\ Collecting
      /\ got = [b \in Atomic |-> got[b]]
  BY <1>1 DEF DynamicInv, EngineInv, TypeInv, BoxInv, BoxType, FlatInv
<1>5. /\ stage'[a] = "done" /\ \A m \in Model : m # a => stage'[m] = stage[m] /\ outbox'[m] = outbox[m]
      /\ outbox'[a] = IF next[a] = above_time THEN MapFromBags(a, out) ELSE NoBox
  BY <1>1, <1>3, <1>4
<1>6. /\ moved = {} /\ Emitted(emitted) /\ DOMAIN emitted = Sent /\ a \notin Sent
  BY <1>1, <1>4 DEF Collecting, Sent
<1>7. Sent' = IF next[a] = above_time THEN Sent \cup {a} ELSE Sent
  BY <1>3, <1>5, AtomicOrCoupled DEF Sent
<1>8. /\ DOMAIN emitted' = Sent' /\ Emitted(emitted')
      /\ \A b \in Sent : emitted'[b] = emitted[b]
      /\ next[a] = above_time => emitted'[a] = out
  BY <1>3, <1>6, <1>7 DEF Emitted
<1>9. ASSUME NEW c \in Coupled, stage'[c] = "done", next[c] = above_time
      PROVE  CollectedBy(c)' /\ \A s \in Children[c] : stage'[s] = "done"
  <2>1. c # a /\ c \in Model
    BY AtomicOrCoupled
  <2>2. CollectedBy(c) /\ \A s \in Children[c] : stage[s] = "done"
    BY <1>4, <1>5, <1>9, <2>1 DEF Collecting
  <2>3. \A s \in Children[c] : s # a /\ s \in Model /\ stage'[s] = "done" /\ outbox'[s] = outbox[s]
    BY <1>1, <1>5, <2>2, ChildrenAreModels
  <2>4. outbox'[c] = outbox[c] /\ \A k \in DOMAIN EOC[c] : outbox'[EOC[c][k].from] = outbox[EOC[c][k].from]
    BY <1>5, <2>1, <2>3, InnerLinks
  <2>5. QED
    BY <2>2, <2>3, <2>4 DEF CollectedBy
<1>10. ASSUME NEW m \in Model
       PROVE  /\ stage'[m] = "running" => next[m] = above_time
              /\ stage'[m] # "done" \/ next[m] # above_time => outbox'[m] = NoBox
  BY <1>4, <1>5 DEF Collecting
<1>11. \A b \in Sent' : outbox'[b] = MapFromBags(b, emitted'[b])
  <2>1. \A b \in Sent : b # a /\ b \in Model /\ outbox[b] = MapFromBags(b, emitted[b])
    BY <1>4, <1>6, AtomicOrCoupled DEF Collecting, Sent
  <2>2. QED
    BY <1>5, <1>7, <1>8, <2>1
<1>12. Collecting'
  BY <1>3, <1>6, <1>8, <1>9, <1>10, <1>11 DEF Collecting
<1>13. FlatInv'
  BY <1>1, <1>3, <1>4, <1>12 DEF FlatInv, InRound
<1>14. CASE next[a] = above_time
  <2>1. a \in DOMAIN emitted' /\ a \notin DOMAIN emitted /\ a \in Flat!Imminent
    BY <1>6, <1>7, <1>8, <1>14, FlatTermsDynamic
  <2>2. \A b \in DOMAIN emitted' : IF b \in DOMAIN emitted THEN emitted'[b] = emitted[b]
                                   ELSE emitted'[b] \in Flat!Outputs(b)
    BY <1>6, <1>7, <1>8, <1>14, SameNames
  <2>3. DOMAIN emitted' = DOMAIN emitted \cup {a}
    BY <1>6, <1>7, <1>8, <1>14
  <2>4. Flat!Send
    BY <1>1, <1>3, <2>1, <2>2, <2>3 DEF Flat!Send
  <2>5. QED
    BY <1>13, <2>4
<1>15. CASE next[a] # above_time
  BY <1>3, <1>13, <1>15, Unseen DEF InRound
<1>16. QED
  BY <1>14, <1>15

LEMMA CoordinateCollectUnseen ==
  ASSUME DynamicInv, NEW c \in Coupled, CoordinateCollect(c)
  PROVE  FlatInv' /\ UNCHANGED Flat!flatVars
<1>1. c \in Model /\ phase = "collect" /\ InRound /\ stage[c] = "todo" /\ c \notin Atomic
  BY AtomicOrCoupled DEF CoordinateCollect, Called, InRound
<1>2. ~(next[c] < above_time)
  BY <1>1, InTime DEF DynamicInv, EngineInv, TypeInv
<1> DEFINE s == IF next[c] = above_time THEN "running" ELSE "done"
<1>3. /\ stage' = [stage EXCEPT ![c] = s]
      /\ UNCHANGED <<phase, next_event, above_time, last, next, inbox, outbox, failed, emitted, moved, got>>
  BY <1>2 DEF CoordinateCollect, StageOf, boxes, history
<1>4. /\ stage \in [Model -> Stage] /\ Collecting /\ got = [b \in Atomic |-> got[b]]
  BY <1>1 DEF DynamicInv, EngineInv, TypeInv, FlatInv
<1>5. stage'[c] = s /\ \A m \in Model : m # c => stage'[m] = stage[m]
  BY <1>1, <1>3, <1>4
<1>6. Sent' = Sent
  BY <1>1, <1>3, <1>5, AtomicOrCoupled DEF Sent
<1>7. ASSUME NEW d \in Coupled, stage'[d] = "done", next[d] = above_time
      PROVE  CollectedBy(d)' /\ \A m \in Children[d] : stage'[m] = "done"
  <2>1. d # c /\ d \in Model
    BY <1>5, <1>7, AtomicOrCoupled
  <2>2. CollectedBy(d) /\ \A m \in Children[d] : stage[m] = "done"
    BY <1>4, <1>5, <1>7, <2>1 DEF Collecting
  <2>3. \A m \in Children[d] : stage'[m] = "done"
    BY <1>1, <1>5, <2>2, ChildrenAreModels
  <2>4. QED
    BY <1>3, <2>2, <2>3 DEF CollectedBy
<1>8. Collecting'
  BY <1>1, <1>3, <1>4, <1>5, <1>6, <1>7 DEF Collecting
<1>9. FlatInv'
  BY <1>1, <1>3, <1>4, <1>8 DEF FlatInv, InRound
<1>10. QED
  BY <1>3, <1>9, Unseen DEF InRound

(* No model is below itself. *)
LEMMA NotItsChild == \A c \in Coupled : c \notin Children[c]
<1>1. PICK depth, N : Ranks(depth, N)
  BY Depths
<1>2. ASSUME NEW c \in Coupled, c \in Children[c] PROVE FALSE
  <2>1. depth[c] < depth[c] /\ depth[c] \in Nat
    BY <1>1, <1>2, AtomicOrCoupled DEF Ranks
  <2>2. QED
    BY <2>1
<1>3. QED
  BY <1>2

LEMMA FinishCollectUnseen ==
  ASSUME OneLinkPerPort, DynamicInv, NEW c \in Coupled, FinishCollect(c)
  PROVE  FlatInv' /\ UNCHANGED Flat!flatVars
<1> DEFINE to == [d \in {c} |-> NoBox]
           after == Route(EOC[c], outbox, to)
<1>1. /\ c \in Model /\ phase = "collect" /\ InRound /\ stage[c] = "running" /\ c \notin Atomic
      /\ \A s \in Children[c] : stage[s] = "done"
      /\ stage' = [stage EXCEPT ![c] = "done"]
      /\ outbox' = [outbox EXCEPT ![c] = after[c]]
      /\ UNCHANGED <<phase, next_event, above_time, last, next, inbox, failed, emitted, moved, got>>
  BY AtomicOrCoupled DEF FinishCollect, AllDone, StageOf, CollectMessagesByEoc, InRound, history
<1>2. /\ stage \in [Model -> Stage] /\ outbox \in [Model -> Box] /\ Collecting
      /\ got = [b \in Atomic |-> got[b]]
  BY <1>1 DEF DynamicInv, EngineInv, TypeInv, BoxInv, BoxType, FlatInv
<1>3. \A p : Brings(EOC[c], outbox, to, after, c, p)
  <2> DEFINE T == {c}
  <2>1. EOC[c] \in Seq(Links(Children[c], T)) /\ Single(EOC[c]) /\ DOMAIN to = T
    BY CouplingAssumption, OneLink
  <2>2. \A k \in DOMAIN EOC[c] : EOC[c][k].in \notin DOMAIN to[EOC[c][k].to]
    BY InnerLinks DEF NoBox
  <2>3. c \in T /\ T \subseteq T
    OBVIOUS
  <2> HIDE DEF T, to
  <2>4. QED
    BY <2>1, <2>2, <2>3, RoutedValue
<1>4. \A p : BagAt(to[c], p) = NoMessages
  BY DEF BagAt, NoBox
<1> HIDE DEF to, after
<1>5. /\ stage'[c] = "done" /\ \A m \in Model : m # c => stage'[m] = stage[m] /\ outbox'[m] = outbox[m]
      /\ outbox'[c] = after[c]
  BY <1>1, <1>2
<1>6. \A s \in Children[c] : outbox'[s] = outbox[s] /\ stage'[s] = "done"
  BY <1>1, <1>5, ChildrenAreModels, NotItsChild
<1>7. CollectedBy(c)'
  <2>1. ASSUME NEW p \in OutPort[c]
        PROVE  /\ \A k \in DOMAIN EOC[c] : EOC[c][k].in = p =>
                    BagAt(after[c], p) = BagAt(outbox[EOC[c][k].from], EOC[c][k].out)
               /\ (\A k \in DOMAIN EOC[c] : EOC[c][k].in # p) => BagAt(after[c], p) = NoMessages
    BY <1>3, <1>4, InnerLinks DEF Brings
  <2>2. \A k \in DOMAIN EOC[c] : outbox'[EOC[c][k].from] = outbox[EOC[c][k].from]
    BY <1>6, InnerLinks
  <2>3. QED
    BY <1>5, <2>1, <2>2 DEF CollectedBy
<1>8. ASSUME NEW d \in Coupled, stage'[d] = "done", next[d] = above_time
      PROVE  CollectedBy(d)' /\ \A m \in Children[d] : stage'[m] = "done"
  <2>1. CASE d = c
    BY <1>6, <1>7, <2>1
  <2>2. CASE d # c
    <3>1. CollectedBy(d) /\ \A m \in Children[d] : stage[m] = "done"
      BY <1>2, <1>5, <1>8, <2>2, AtomicOrCoupled DEF Collecting
    <3>2. \A m \in Children[d] : m # c /\ stage'[m] = "done" /\ outbox'[m] = outbox[m]
      BY <1>1, <1>5, <3>1, ChildrenAreModels
    <3>3. outbox'[d] = outbox[d] /\ \A k \in DOMAIN EOC[d] : outbox'[EOC[d][k].from] = outbox[EOC[d][k].from]
      BY <1>5, <2>2, <3>2, InnerLinks, AtomicOrCoupled
    <3>4. QED
      BY <3>1, <3>2, <3>3 DEF CollectedBy
  <2>3. QED
    BY <2>1, <2>2
<1>9. Sent' = Sent
  BY <1>1, <1>5, AtomicOrCoupled DEF Sent
<1>10. next[c] = above_time
  BY <1>1, <1>2 DEF Collecting
<1>11. ASSUME NEW m \in Model
       PROVE  /\ stage'[m] = "running" => next[m] = above_time
              /\ stage'[m] # "done" \/ next[m] # above_time => outbox'[m] = NoBox
  BY <1>2, <1>5, <1>10 DEF Collecting
<1>12. \A a \in Sent : outbox'[a] = MapFromBags(a, emitted[a])
  BY <1>1, <1>2, <1>5, AtomicOrCoupled DEF Collecting, Sent
<1>13. Collecting'
  BY <1>1, <1>2, <1>8, <1>9, <1>11, <1>12 DEF Collecting
<1>14. FlatInv'
  BY <1>1, <1>2, <1>13 DEF FlatInv, InRound
<1>15. QED
  BY <1>1, <1>14, Unseen DEF InRound

(* When the topmost coordinator is done, the imminent models are, since they  *)
(* make those above them imminent: the outboxes hold what the promise says.   *)
LEMMA AllSentOut ==
  ASSUME DynamicInv, phase = "collect", stage[Top] = "done"
  PROVE  \A m \in Model : next[m] = above_time => stage[m] = "done"
<1>1. /\ Collecting /\ next \in [Model -> Nat] /\ LeastBelow(next) /\ above_time = next[Top]
  BY DEF DynamicInv, FlatInv, EngineInv, TypeInv, TimeInv
<1> DEFINE S == {m \in Model : next[m] = above_time => stage[m] = "done"}
<1>2. Top \in S
  BY ChildrenAreModels
<1>3. ASSUME NEW c \in Coupled \cap S PROVE Children[c] \subseteq S
  <2>1. ASSUME NEW m \in Children[c], next[m] = above_time PROVE stage[m] = "done"
    <3>1. next[c] <= next[m]
      BY <1>1, LeastBelowIn DEF LeastBelow
    <3>2. next[Top] <= next[c] /\ c \in Model /\ m \in Model
      BY <1>1, LeastAtTop, ChildrenAreModels
    <3>3. next[c] = above_time
      BY <1>1, <2>1, <3>1, <3>2, ChildrenAreModels
    <3>4. stage[c] = "done"
      BY <1>3, <3>3
    <3>5. QED
      BY <1>1, <3>3, <3>4 DEF Collecting
  <2>2. QED
    BY <2>1, ChildrenAreModels
<1>4. QED
  BY <1>2, <1>3, FromTheTop

LEMMA SentIsFlat ==
  ASSUME OneLinkPerPort, DynamicInv, phase = "collect", stage[Top] = "done"
  PROVE  \A m \in Model : Holds(outbox[m], OutPort[m], Flat!FlatOut(emitted), m)
<1> DEFINE out == Flat!FlatOut(emitted)
           S == {m \in Model : Holds(outbox[m], OutPort[m], out, m)}
<1>1. /\ Collecting /\ next \in [Model -> Nat] /\ LeastBelow(next) /\ above_time = next[Top]
      /\ Emitted(emitted) /\ DOMAIN emitted = Sent
  BY DEF DynamicInv, FlatInv, EngineInv, TypeInv, TimeInv, Collecting
<1>2. \A m \in Model : \A p \in OutPort[m] : out[<<m, p>>] = PutOut(emitted, out, m, p) /\ out[<<m, p>>] \in Bag
  BY <1>1, DynamicOutValue
<1> HIDE DEF out
<1>3. \A m \in Model : next[m] = above_time => stage[m] = "done"
  BY AllSentOut
<1>4. ASSUME NEW a \in Atomic PROVE a \in S
  <2>1. a \in Model /\ \A p \in OutPort[a] : out[<<a, p>>] = PutOut(emitted, out, a, p)
    BY <1>2, AtomicOrCoupled
  <2>2. CASE next[a] = above_time
    <3>1. a \in Sent /\ outbox[a] = MapFromBags(a, emitted[a])
      BY <1>1, <1>3, <2>1, <2>2 DEF Sent, Collecting
    <3>2. \A p \in OutPort[a] : BagAt(outbox[a], p) = Emission(a, emitted[a], p)
      BY <3>1 DEF BagAt, MapFromBags
    <3>3. QED
      BY <1>1, <2>1, <3>1, <3>2 DEF Holds, PutOut
  <2>3. CASE next[a] # above_time
    <3>1. a \notin Sent /\ outbox[a] = NoBox
      BY <1>1, <2>1, <2>3 DEF Sent, Collecting
    <3>2. \A p : BagAt(outbox[a], p) = NoMessages
      BY <3>1 DEF BagAt, NoBox
    <3>3. QED
      BY <1>1, <2>1, <3>1, <3>2 DEF Holds, PutOut
  <2>4. QED
    BY <2>2, <2>3
<1>5. ASSUME NEW c \in Coupled, Children[c] \subseteq S PROVE c \in S
  <2> DEFINE sum(p) == [x \in Message |-> Total(EocTo(c, p), EocCopies(c, out, x))]
  <2>1. c \in Model /\ c \notin Atomic /\ \A p \in OutPort[c] : out[<<c, p>>] = sum(p)
    BY <1>2, AtomicOrCoupled DEF PutOut
  <2>2. \A s \in Children[c] : \A q \in OutPort[s] : out[<<s, q>>] \in Bag
    BY <1>2, ChildrenAreModels
  <2>3. ASSUME NEW p
        PROVE  /\ \A k \in DOMAIN EOC[c] : EOC[c][k].in = p => sum(p) = out[<<EOC[c][k].from, EOC[c][k].out>>]
               /\ (\A k \in DOMAIN EOC[c] : EOC[c][k].in # p) => sum(p) = NoMessages
    BY <2>2, EocValue
  <2> HIDE DEF sum
  <2>4. \A k \in DOMAIN EOC[c] :
          out[<<EOC[c][k].from, EOC[c][k].out>>] = BagAt(outbox[EOC[c][k].from], EOC[c][k].out)
    BY <1>5, InnerLinks DEF Holds
  <2>5. ASSUME NEW p \in OutPort[c] PROVE BagAt(outbox[c], p) = sum(p)
    <3>1. CASE next[c] = above_time
      <4>1. CollectedBy(c)
        BY <1>1, <1>3, <2>1, <3>1 DEF Collecting
      <4>2. CASE \E k \in DOMAIN EOC[c] : EOC[c][k].in = p
        BY <2>3, <2>4, <4>1, <4>2 DEF CollectedBy
      <4>3. CASE \A k \in DOMAIN EOC[c] : EOC[c][k].in # p
        BY <2>3, <4>1, <4>3 DEF CollectedBy
      <4>4. QED
        BY <4>2, <4>3
    <3>2. CASE next[c] # above_time
      <4>1. ASSUME NEW s \in Children[c] PROVE outbox[s] = NoBox
        <5>1. next[c] <= next[s]
          BY <1>1, LeastBelowIn DEF LeastBelow
        <5>2. next[Top] <= next[c] /\ s \in Model
          BY <1>1, <2>1, LeastAtTop, ChildrenAreModels
        <5>3. next[s] # above_time
          BY <1>1, <2>1, <3>2, <5>1, <5>2, ChildrenAreModels
        <5>4. QED
          BY <1>1, <5>2, <5>3 DEF Collecting
      <4>2. outbox[c] = NoBox
        BY <1>1, <2>1, <3>2 DEF Collecting
      <4>3. \A q : BagAt(NoBox, q) = NoMessages
        BY DEF BagAt, NoBox
      <4>4. ASSUME NEW k \in DOMAIN EOC[c], EOC[c][k].in = p PROVE sum(p) = NoMessages
        <5>1. outbox[EOC[c][k].from] = NoBox
          BY <4>1, InnerLinks
        <5>2. BagAt(outbox[EOC[c][k].from], EOC[c][k].out) = NoMessages
          BY <4>3, <5>1
        <5>3. out[<<EOC[c][k].from, EOC[c][k].out>>] = NoMessages
          BY <2>4, <4>4, <5>2
        <5>4. sum(p) = out[<<EOC[c][k].from, EOC[c][k].out>>]
          BY <2>3, <4>4
        <5>5. QED
          BY <5>3, <5>4
      <4>5. QED
        BY <2>3, <4>2, <4>3, <4>4
    <3>3. QED
      BY <3>1, <3>2
  <2>6. QED
    BY <2>1, <2>5 DEF Holds
<1>6. Model \subseteq S
  BY <1>4, <1>5, FromTheBottom
<1>7. QED
  BY <1>6 DEF out

LEMMA StartAdvanceUnseen ==
  ASSUME OneLinkPerPort, DynamicInv, StartAdvance
  PROVE  FlatInv' /\ UNCHANGED Flat!flatVars
<1>1. /\ phase = "collect" /\ phase' = "advance" /\ stage[Top] = "done" /\ InRound /\ InRound'
      /\ stage' = [m \in Model |-> "todo"]
      /\ UNCHANGED <<next_event, above_time, last, next, inbox, outbox, failed, emitted, moved, got>>
  BY DEF StartAdvance, NewPhase, boxes, history, InRound
<1>2. /\ moved = {} /\ Emitted(emitted) /\ DOMAIN emitted = Sent /\ got = [b \in Atomic |-> got[b]]
      /\ \A m \in Model : inbox[m] = NoBox
  BY <1>1 DEF DynamicInv, FlatInv, Collecting, BoxInv
<1>3. \A m \in Model : stage'[m] = "todo"
  BY <1>1
<1>4. \A m \in Model : Holds(outbox[m], OutPort[m], Flat!FlatOut(emitted), m)
  BY <1>1, SentIsFlat
<1>5. \A a \in Atomic : next[a] = above_time => a \in DOMAIN emitted
  BY <1>1, <1>2, AllSentOut, AtomicOrCoupled DEF Sent
<1>6. \A m \in Model : m # Top => ~Reached(m)'
  BY <1>3, ParentOf, AtomicOrCoupled DEF Reached
<1>7. Holds(NoBox, InPort[Top], Flat!FlatIn(emitted), Top)
  <2>1. \A p \in InPort[Top] : Flat!FlatIn(emitted)[<<Top, p>>] = NoMessages
    BY <1>2, OneLink, DynamicInValue, ChildrenAreModels DEF ComeIn
  <2>2. \A p : BagAt(NoBox, p) = NoMessages
    BY DEF BagAt, NoBox
  <2>3. QED
    BY <2>1, <2>2 DEF Holds
<1>8. DOMAIN NoBox = {}
  BY DEF NoBox
<1>9. ASSUME NEW m \in Model
      PROVE  /\ Holds(outbox'[m], OutPort[m], Flat!FlatOut(emitted'), m)
             /\ Reached(m)' => Holds(inbox'[m], InPort[m], Flat!FlatIn(emitted'), m)
             /\ inbox'[m] = NoBox /\ DOMAIN inbox'[m] \subseteq InPort[m]
  BY <1>1, <1>2, <1>4, <1>6, <1>7, <1>8
<1>10. Moving'
  BY <1>1, <1>2, <1>3, <1>5, <1>9, AtomicOrCoupled DEF Moving
<1>11. FlatInv'
  BY <1>1, <1>2, <1>10 DEF FlatInv
<1>12. QED
  BY <1>1, <1>11, Unseen

(* What a coordinator routes to its submodels is what the promise says comes  *)
(* into them: by its EIC from its own inbox, and by its IC from their outboxes.*)
LEMMA RoutedDown ==
  ASSUME OneLinkPerPort, Emitted(emitted), NEW c \in Coupled,
         BoxType,
         \A s \in Children[c] : inbox[s] = NoBox,
         \A s \in Children[c] : Holds(outbox[s], OutPort[s], Flat!FlatOut(emitted), s),
         Holds(inbox[c], InPort[c], Flat!FlatIn(emitted), c)
  PROVE  LET ins == RouteEIC(c, RouteIC(c, inbox))
         IN  \A m \in Children[c] : /\ Holds(ins[m], InPort[m], Flat!FlatIn(emitted), m)
                                    /\ DOMAIN ins[m] \subseteq InPort[m]
<1> DEFINE out == Flat!FlatOut(emitted)
           in  == Flat!FlatIn(emitted)
           ic  == Route(IC[c], outbox, inbox)
           eic == Route(EIC[c], inbox, ic)
<1>0. OneLinkPerPort /\ c \in Coupled
  OBVIOUS
<1>1. /\ \A m \in Model : \A p \in InPort[m] : in[<<m, p>>] = ComeIn(EIC, out, in, m, p) /\ in[<<m, p>>] \in Bag
      /\ AllBags(out)
  BY OneLink, DynamicInValue, DynamicOutValue DEF AllBags
<1> HIDE DEF out, in
<1>2. /\ EicLinks(EIC) /\ Single(IC[c]) /\ Single(EIC[c])
      /\ \A j \in DOMAIN IC[c], k \in DOMAIN EIC[c] :
           ~(IC[c][j].to = EIC[c][k].to /\ IC[c][j].in = EIC[c][k].in)
      /\ IC[c] \in Seq(Links(Children[c], Children[c]))
      /\ EIC[c] \in Seq(Links({c}, Children[c]))
      /\ Children[c] \subseteq Model /\ c \in Model
  BY OneLink, CouplingAssumption, ChildrenAreModels
<1>3. \A m \in Children[c] : DOMAIN inbox[m] = {} /\ \A p : BagAt(inbox[m], p) = NoMessages
  BY DEF BagAt, NoBox
<1>4. \A m \in Model : \A p : Brings(IC[c], outbox, inbox, ic, m, p)
  <2>1. \A k \in DOMAIN IC[c] : IC[c][k].in \notin DOMAIN inbox[IC[c][k].to]
    BY <1>3, InnerLinks
  <2>2. DOMAIN inbox = Model
    BY DEF BoxType
  <2>3. QED
    BY <1>2, <2>1, <2>2, RoutedValue
<1>5. DOMAIN ic = Model
  <2>1. /\ inbox \in [Model -> Box]
        /\ \A m \in Children[c] : outbox[m] \in Box
    BY <1>2 DEF BoxType
  <2>2. ic \in [Model -> Box]
    BY <1>2, <2>1, Routed
  <2>3. QED
    BY <2>2
<1> HIDE DEF ic
<1>6. \A m \in Children[c] : \A p : (\A k \in DOMAIN IC[c] : ~(IC[c][k].to = m /\ IC[c][k].in = p)) =>
        BagAt(ic[m], p) = NoMessages /\ p \notin DOMAIN ic[m]
  BY <1>2, <1>3, <1>4 DEF Brings
<1>7. \A m \in Model : \A p : Brings(EIC[c], inbox, ic, eic, m, p)
  <2> DEFINE F == {c}
  <2>1. EIC[c] \in Seq(Links(F, Children[c]))
    BY <1>2
  <2>2. \A k \in DOMAIN EIC[c] : EIC[c][k].in \notin DOMAIN ic[EIC[c][k].to]
    <3>1. ASSUME NEW k \in DOMAIN EIC[c] PROVE EIC[c][k].in \notin DOMAIN ic[EIC[c][k].to]
      <4>1. EIC[c][k].to \in Children[c]
        BY <1>2, OuterLinks
      <4>2. QED
        BY <1>2, <1>6, <4>1
    <3>2. QED
      BY <3>1
  <2> HIDE DEF F, eic
  <2>3. QED
    BY <1>2, <1>5, <2>1, <2>2, RoutedValue DEF eic
<1> HIDE DEF eic
<1>8. ASSUME NEW m \in Children[c], NEW p
      PROVE  /\ p \in InPort[m] => BagAt(eic[m], p) = in[<<m, p>>]
             /\ p \in DOMAIN eic[m] => p \in InPort[m]
  <2> DEFINE sum == RoutedIn(EIC, out, in, c, m, p)
  <2>1. p \in InPort[m] => in[<<m, p>>] = sum
    BY <1>1, <1>2, ParentOf DEF ComeIn
  <2>2. SingleBrings(c, out, in, m, p, sum)
    <3>1. \A q \in InPort[c] : in[<<c, q>>] \in Bag
      BY <1>1, <1>2
    <3>2. QED
      BY <1>1, <3>1, RoutedInValue
  <2> HIDE DEF sum
  <2>3. CASE \E k \in DOMAIN EIC[c] : EIC[c][k].to = m /\ EIC[c][k].in = p
    <3>1. PICK k \in DOMAIN EIC[c] : EIC[c][k].to = m /\ EIC[c][k].in = p
      BY <2>3
    <3>2. EIC[c][k].from = c /\ EIC[c][k].out \in InPort[c] /\ EIC[c][k].in \in InPort[EIC[c][k].to]
      BY <1>2, OuterLinks
    <3>3. BagAt(eic[m], p) = BagAt(inbox[c], EIC[c][k].out)
      BY <1>2, <1>7, <3>1, <3>2 DEF Brings
    <3>4. BagAt(inbox[c], EIC[c][k].out) = in[<<c, EIC[c][k].out>>]
      BY <3>2 DEF Holds, in
    <3>5. QED
      BY <2>1, <2>2, <3>1, <3>2, <3>3, <3>4 DEF SingleBrings
  <2>4. CASE \A k \in DOMAIN EIC[c] : ~(EIC[c][k].to = m /\ EIC[c][k].in = p)
    <3>1. BagAt(eic[m], p) = BagAt(ic[m], p) /\ (p \in DOMAIN eic[m] <=> p \in DOMAIN ic[m])
      BY <1>2, <1>7, <2>4 DEF Brings
    <3>2. CASE \E k \in DOMAIN IC[c] : IC[c][k].to = m /\ IC[c][k].in = p
      <4>1. PICK k \in DOMAIN IC[c] : IC[c][k].to = m /\ IC[c][k].in = p
        BY <3>2
      <4>2. /\ IC[c][k].from \in Children[c] /\ IC[c][k].out \in OutPort[IC[c][k].from]
            /\ IC[c][k].in \in InPort[IC[c][k].to]
        BY InnerLinks
      <4>3. BagAt(ic[m], p) = BagAt(outbox[IC[c][k].from], IC[c][k].out)
        BY <1>2, <1>4, <4>1 DEF Brings
      <4>4. BagAt(outbox[IC[c][k].from], IC[c][k].out) = out[<<IC[c][k].from, IC[c][k].out>>]
        BY <4>2 DEF Holds, out
      <4>5. QED
        BY <2>1, <2>2, <3>1, <4>1, <4>2, <4>3, <4>4 DEF SingleBrings
    <3>3. CASE \A k \in DOMAIN IC[c] : ~(IC[c][k].to = m /\ IC[c][k].in = p)
      BY <1>6, <2>1, <2>2, <2>4, <3>1, <3>3 DEF SingleBrings
    <3>4. QED
      BY <3>2, <3>3
  <2>5. QED
    BY <2>3, <2>4
<1>9. RouteEIC(c, RouteIC(c, inbox)) = eic
  BY DEF RouteEIC, RouteIC, ic, eic
<1>10. QED
  BY <1>8, <1>9 DEF Holds, in

LEMMA CoordinateAdvanceUnseen ==
  ASSUME OneLinkPerPort, DynamicInv, NEW c \in Coupled, CoordinateAdvance(c)
  PROVE  FlatInv' /\ UNCHANGED Flat!flatVars
<1> DEFINE ins == RouteEIC(c, RouteIC(c, inbox))
<1>1. /\ c \in Model /\ phase = "advance" /\ InRound /\ stage[c] = "todo" /\ c \notin Atomic
      /\ c # Top => stage[Parent(c)] = "running"
  BY AtomicOrCoupled DEF CoordinateAdvance, Called, InRound
<1>2. ~(next[c] < above_time) /\ ~(above_time < last[c])
  BY <1>1, InTime DEF DynamicInv, EngineInv, TypeInv
<1>3. /\ stage' = [stage EXCEPT ![c] = "running"]
      /\ outbox' = [outbox EXCEPT ![c] = NoBox] /\ inbox' = ins
      /\ UNCHANGED <<phase, next_event, above_time, last, next, failed, emitted, moved, got>>
  BY <1>2 DEF CoordinateAdvance, StageOf, history
<1>4. /\ stage \in [Model -> Stage] /\ BoxType /\ outbox \in [Model -> Box] /\ Moving /\ Emitted(emitted)
      /\ got = [b \in Atomic |-> got[b]] /\ Advancing
  BY <1>1 DEF DynamicInv, EngineInv, TypeInv, BoxInv, BoxType, FlatInv, Moving
<1>5. \A s \in Children[c] : s \in Model /\ s # c /\ s # Top /\ Parent(s) = c /\ stage[s] = "todo" /\ ~Reached(s)
  BY <1>1, <1>4, ChildrenAreModels, NotItsChild, ParentOf DEF Advancing, Reached
<1>6. Reached(c)
  BY <1>1 DEF Reached
<1>7. /\ \A s \in Children[c] : inbox[s] = NoBox /\ Holds(outbox[s], OutPort[s], Flat!FlatOut(emitted), s)
      /\ Holds(inbox[c], InPort[c], Flat!FlatIn(emitted), c)
  BY <1>1, <1>4, <1>5, <1>6 DEF Moving
<1>8. \A m \in Children[c] : /\ Holds(ins[m], InPort[m], Flat!FlatIn(emitted), m)
                             /\ DOMAIN ins[m] \subseteq InPort[m]
  BY <1>4, <1>7, RoutedDown
<1>9. \A m \in Model \ Children[c] : ins[m] = inbox[m]
  BY <1>4, Distributed
<1> HIDE DEF ins
<1>10. /\ stage'[c] = "running" /\ \A m \in Model : m # c => stage'[m] = stage[m] /\ outbox'[m] = outbox[m]
  BY <1>1, <1>3, <1>4
<1>11. \A m \in Model \ Children[c] : Reached(m)' <=> Reached(m)
  <2>1. ASSUME NEW m \in Model \ Children[c], m # Top PROVE stage'[Parent(m)] = stage[Parent(m)]
    BY <1>10, <2>1, ParentOf, AtomicOrCoupled
  <2>2. QED
    BY <2>1 DEF Reached
<1>12. ASSUME NEW m \in Model
       PROVE  /\ stage'[m] = "todo" => Holds(outbox'[m], OutPort[m], Flat!FlatOut(emitted'), m)
              /\ Reached(m)' /\ stage'[m] # "done" => Holds(inbox'[m], InPort[m], Flat!FlatIn(emitted'), m)
              /\ ~Reached(m)' => inbox'[m] = NoBox
              /\ DOMAIN inbox'[m] \subseteq InPort[m]
  <2>1. stage'[m] = "todo" => Holds(outbox'[m], OutPort[m], Flat!FlatOut(emitted'), m)
    BY <1>3, <1>4, <1>10 DEF Moving
  <2>2. CASE m \in Children[c]
    <3>1. Reached(m)'
      BY <1>5, <1>10, <2>2 DEF Reached
    <3>2. QED
      BY <1>3, <1>8, <2>1, <2>2, <3>1
  <2>3. CASE m \notin Children[c]
    <3>1. stage'[m] # "done" => stage[m] # "done"
      BY <1>1, <1>10
    <3>2. inbox'[m] = inbox[m] /\ (Reached(m)' <=> Reached(m))
      BY <1>3, <1>9, <1>11, <2>3
    <3>3. QED
      BY <1>3, <1>4, <2>1, <3>1, <3>2 DEF Moving
  <2>4. QED
    BY <2>2, <2>3
<1>13. \A a \in Atomic : stage'[a] = stage[a]
  BY <1>1, <1>10, AtomicOrCoupled
<1>14. Moving'
  <2>1. /\ Emitted(emitted') /\ \A a \in moved' : stage'[a] = "done"
    BY <1>1, <1>3, <1>4, <1>10 DEF Moving
  <2>2. \A a \in Atomic \ moved' :
       /\ next'[a] = above_time' => a \in DOMAIN emitted'
       /\ stage'[a] = "done" => next'[a] # above_time' /\ Flat!FlatInbox(emitted', a) = Flat!NoInput(a)
    BY <1>3, <1>4, <1>13 DEF Moving
  <2>3. QED
    BY <1>12, <2>1, <2>2 DEF Moving
<1>15. FlatInv'
  BY <1>1, <1>3, <1>4, <1>14 DEF FlatInv, InRound
<1>16. QED
  BY <1>3, <1>15, Unseen DEF InRound

LEMMA FinishAdvanceUnseen ==
  ASSUME DynamicInv, NEW c \in Coupled, FinishAdvance(c)
  PROVE  FlatInv' /\ UNCHANGED Flat!flatVars
<1>1. /\ c \in Model /\ phase = "advance" /\ InRound /\ stage[c] = "running" /\ c \notin Atomic
      /\ stage' = [stage EXCEPT ![c] = "done"]
      /\ last' = [last EXCEPT ![c] = above_time]
      /\ next' = [next EXCEPT ![c] = MinNextInSubcoordinators(next, c)]
      /\ inbox' = [inbox EXCEPT ![c] = NoBox]
      /\ UNCHANGED <<phase, next_event, above_time, outbox, failed, emitted, moved, got>>
  BY AtomicOrCoupled DEF FinishAdvance, AllDone, StageOf, InRound, history
<1>2. /\ stage \in [Model -> Stage] /\ last \in [Model -> Nat] /\ next \in [Model -> Nat]
      /\ inbox \in [Model -> Box] /\ Moving /\ got = [b \in Atomic |-> got[b]]
  BY <1>1 DEF DynamicInv, EngineInv, TypeInv, BoxInv, BoxType, FlatInv
<1>3. /\ stage'[c] = "done" /\ inbox'[c] = NoBox
      /\ \A m \in Model : m # c => /\ stage'[m] = stage[m] /\ inbox'[m] = inbox[m]
                                   /\ last'[m] = last[m] /\ next'[m] = next[m]
  BY <1>1, <1>2
<1>4. \A a \in Atomic : stage'[a] = stage[a] /\ last'[a] = last[a] /\ next'[a] = next[a]
  BY <1>1, <1>3, AtomicOrCoupled
<1>5. \A m \in Model : Reached(m)' <=> Reached(m)
  <2>1. ASSUME NEW m \in Model, m # Top PROVE stage'[Parent(m)] # "todo" <=> stage[Parent(m)] # "todo"
    BY <1>1, <1>3, <2>1, ParentOf, AtomicOrCoupled
  <2>2. QED
    BY <2>1 DEF Reached
<1>6. DOMAIN NoBox = {}
  BY DEF NoBox
<1>7. ASSUME NEW m \in Model
      PROVE  /\ stage'[m] = "todo" => Holds(outbox'[m], OutPort[m], Flat!FlatOut(emitted'), m)
             /\ Reached(m)' /\ stage'[m] # "done" => Holds(inbox'[m], InPort[m], Flat!FlatIn(emitted'), m)
             /\ ~Reached(m)' => inbox'[m] = NoBox
             /\ DOMAIN inbox'[m] \subseteq InPort[m]
  <2>1. CASE m = c
    BY <1>3, <1>6, <2>1
  <2>2. CASE m # c
    BY <1>1, <1>2, <1>3, <1>5, <2>2 DEF Moving
  <2>3. QED
    BY <2>1, <2>2
<1>8. Moving'
  <2>1. /\ Emitted(emitted') /\ \A a \in moved' : stage'[a] = "done"
    BY <1>1, <1>2, <1>3 DEF Moving
  <2>2. \A a \in Atomic \ moved' :
       /\ next'[a] = above_time' => a \in DOMAIN emitted'
       /\ stage'[a] = "done" => next'[a] # above_time' /\ Flat!FlatInbox(emitted', a) = Flat!NoInput(a)
    BY <1>1, <1>2, <1>4 DEF Moving
  <2>3. QED
    BY <1>7, <2>1, <2>2 DEF Moving
<1>9. FlatInv'
  BY <1>1, <1>2, <1>8 DEF FlatInv, InRound
<1>10. QED
  BY <1>1, <1>4, <1>9, Unseen DEF InRound

(* What a model finds in its inbox is what the promise says it receives.      *)
LEMMA InboxIsFlat ==
  ASSUME NEW a \in Atomic, inbox[a] \in Box, Filled(inbox[a]), DOMAIN inbox[a] \subseteq InPort[a],
         Holds(inbox[a], InPort[a], Flat!FlatIn(emitted), a)
  PROVE  /\ BagsFromMap(a, inbox[a]) = Flat!FlatInbox(emitted, a)
         /\ inbox[a] # NoBox <=> Flat!Receives(a)
<1> DEFINE box == inbox[a]
           in  == Flat!FlatIn(emitted)
<1>1. \A p \in InPort[a] : BagAt(box, p) = in[<<a, p>>]
  BY DEF Holds
<1> HIDE DEF in
<1>2. Flat!FlatInbox(emitted, a) = [p \in InPort[a] |-> in[<<a, p>>]]
  BY DEF Flat!FlatInbox, in
<1>3. BagsFromMap(a, box) = [p \in InPort[a] |-> BagAt(box, p)]
  BY DEF BagsFromMap, BagAt
<1> HIDE DEF box
<1>4. Flat!FlatInbox(emitted, a) = [p \in InPort[a] |-> BagAt(box, p)]
  BY <1>1, <1>2
<1>5. Flat!NoInput(a) = [p \in InPort[a] |-> NoMessages]
  BY SameNames DEF Flat!NoInput
<1>6. CASE box = NoBox
  <2>1. \A p : BagAt(box, p) = NoMessages
    BY <1>6 DEF BagAt, NoBox
  <2>2. Flat!FlatInbox(emitted, a) = Flat!NoInput(a)
    BY <1>4, <1>5, <2>1
  <2>3. QED
    BY <1>3, <1>4, <1>6, <2>2, FlatTermsDynamic DEF box
<1>7. CASE box # NoBox
  <2>1. PICK p : p \in DOMAIN box
    <3>1. PICK S \in SUBSET Port : box \in [S -> Bag]
      BY DEF Box, box
    <3>2. ASSUME DOMAIN box = {} PROVE FALSE
      <4>1. box \in [{} -> Bag] /\ NoBox \in [{} -> Bag] /\ DOMAIN NoBox = {}
        BY <3>1, <3>2 DEF NoBox
      <4>2. box = NoBox
        BY <4>1
      <4>3. QED
        BY <1>7, <4>2
    <3>3. QED
      BY <3>2
  <2>2. p \in InPort[a] /\ BagAt(box, p) # NoMessages
    BY <2>1 DEF Filled, BagAt, box
  <2>3. Flat!FlatInbox(emitted, a)[p] = BagAt(box, p) /\ Flat!NoInput(a)[p] = NoMessages
    BY <1>4, <1>5, <2>2
  <2>4. Flat!FlatInbox(emitted, a) # Flat!NoInput(a)
    BY <2>2, <2>3
  <2>5. QED
    BY <1>3, <1>4, <1>7, <2>4, FlatTermsDynamic DEF box
<1>8. QED
  BY <1>6, <1>7

LEMMA AdvanceSimulationIsTransition ==
  ASSUME DynamicInv, NEW a \in Atomic, NEW ta \in TimeAdvances, AdvanceSimulation(a, ta)
  PROVE  FlatInv' /\ (Flat!Transition \/ UNCHANGED Flat!flatVars)
<1> DEFINE call == [kind |-> IF next[a] = above_time THEN "confluence" ELSE "external",
                    e    |-> above_time - last[a],
                    bags |-> BagsFromMap(a, inbox[a])]
<1>1. /\ a \in Model /\ a # Top /\ phase = "advance" /\ InRound /\ stage[a] = "todo"
      /\ stage[Parent(a)] = "running"
  BY AtomicOrCoupled, TreeAssumption DEF AdvanceSimulation, Called, InRound
<1>2. ~(next[a] < above_time) /\ ~(above_time < last[a])
  BY <1>1, InTime DEF DynamicInv, EngineInv, TypeInv
<1>3. /\ stage' = [stage EXCEPT ![a] = "done"]
      /\ outbox' = [outbox EXCEPT ![a] = NoBox]
      /\ UNCHANGED <<phase, next_event, above_time, failed, emitted>>
      /\ \/ inbox[a] # NoBox /\ Transitioned(a, call, ta) /\ inbox' = [inbox EXCEPT ![a] = NoBox]
         \/ inbox[a] = NoBox /\ next[a] = above_time /\ Transitioned(a, [kind |-> "internal"], ta)
            /\ inbox' = inbox
         \/ inbox[a] = NoBox /\ next[a] # above_time /\ UNCHANGED <<inbox, last, next, moved, got>>
  BY <1>2 DEF AdvanceSimulation, StageOf
<1>4. /\ stage \in [Model -> Stage] /\ last \in [Model -> Nat] /\ next \in [Model -> Nat]
      /\ inbox \in [Model -> Box] /\ outbox \in [Model -> Box] /\ Filled(inbox[a])
      /\ Moving /\ got = [b \in Atomic |-> got[b]]
  BY <1>1 DEF DynamicInv, EngineInv, TypeInv, BoxInv, BoxType, FlatInv
<1>5. Holds(inbox[a], InPort[a], Flat!FlatIn(emitted), a) /\ DOMAIN inbox[a] \subseteq InPort[a]
  BY <1>1, <1>4 DEF Moving, Reached
<1>6. /\ BagsFromMap(a, inbox[a]) = Flat!FlatInbox(emitted, a)
      /\ inbox[a] # NoBox <=> Flat!Receives(a)
  BY <1>1, <1>4, <1>5, InboxIsFlat
<1>7. a \notin moved /\ \A b \in moved : stage[b] = "done"
  BY <1>1, <1>4 DEF Moving
<1>8. Flat!AllSent
  BY <1>4, FlatTermsDynamic DEF Moving
<1>9. /\ stage'[a] = "done" /\ DOMAIN inbox'[a] \subseteq InPort[a]
      /\ \A m \in Model : m # a => stage'[m] = stage[m] /\ inbox'[m] = inbox[m] /\ outbox'[m] = outbox[m]
  <2>1. DOMAIN NoBox = {}
    BY DEF NoBox
  <2> HIDE DEF call
  <2>2. inbox' = [inbox EXCEPT ![a] = NoBox] \/ inbox' = inbox
    BY <1>3
  <2>3. QED
    BY <1>1, <1>3, <1>4, <1>5, <2>1, <2>2
<1>10. \A m \in Model : Reached(m)' <=> Reached(m)
  <2>1. ASSUME NEW m \in Model, m # Top PROVE stage'[Parent(m)] = stage[Parent(m)]
    BY <1>9, <2>1, ParentOf, AtomicOrCoupled
  <2>2. QED
    BY <2>1 DEF Reached
<1>11. ASSUME NEW m \in Model
       PROVE  /\ stage'[m] = "todo" => Holds(outbox'[m], OutPort[m], Flat!FlatOut(emitted'), m)
              /\ Reached(m)' /\ stage'[m] # "done" => Holds(inbox'[m], InPort[m], Flat!FlatIn(emitted'), m)
              /\ ~Reached(m)' => inbox'[m] = NoBox
              /\ DOMAIN inbox'[m] \subseteq InPort[m]
  <2>1. CASE m = a
    <3>1. Reached(a)
      BY <1>1 DEF Reached
    <3>2. QED
      BY <1>9, <1>10, <2>1, <3>1
  <2>2. CASE m # a
    BY <1>3, <1>4, <1>9, <1>10, <2>2 DEF Moving
  <2>3. QED
    BY <2>1, <2>2
<1>12. ASSUME NEW S, S = {a} \/ S = {}, moved' = moved \cup S,
              a \notin S => next[a] # above_time /\ ~Flat!Receives(a),
              \A b \in Atomic \ S : next'[b] = next[b],
              got' = [b \in Atomic |-> got'[b]]
       PROVE  FlatInv'
  <2>1. Emitted(emitted') /\ \A b \in moved' : stage'[b] = "done"
    BY <1>3, <1>4, <1>7, <1>9, <1>12 DEF Moving
  <2>2. ASSUME NEW b \in Atomic \ moved'
        PROVE  /\ next'[b] = above_time' => b \in DOMAIN emitted'
               /\ stage'[b] = "done" => next'[b] # above_time' /\ Flat!FlatInbox(emitted', b) = Flat!NoInput(b)
    <3>1. b \notin moved /\ b \notin S /\ next'[b] = next[b]
      BY <1>12
    <3>2. CASE b = a
      BY <1>3, <1>12, <3>1, <3>2, FlatTermsDynamic
    <3>3. CASE b # a
      BY <1>3, <1>4, <1>9, <3>1, <3>3, AtomicOrCoupled DEF Moving
    <3>4. QED
      BY <3>2, <3>3
  <2>3. Moving'
    BY <1>11, <2>1, <2>2 DEF Moving
  <2>4. QED
    BY <1>1, <1>3, <1>12, <2>3 DEF FlatInv, InRound
<1>13. ASSUME Flat!Receives(a) \/ next[a] = above_time, Transitioned(a, Flat!TransitionDue(a), ta)
       PROVE  FlatInv' /\ Flat!Transition
  <2>1. /\ last' = [last EXCEPT ![a] = above_time]
        /\ next' = [next EXCEPT ![a] = After(above_time, ta)]
        /\ moved' = moved \cup {a}
        /\ got' = [got EXCEPT ![a] = Flat!TransitionDue(a)]
    BY <1>13 DEF Transitioned
  <2>2. /\ last'[a] = above_time /\ next'[a] = After(above_time, ta)
        /\ \A b \in Atomic : b # a => last'[b] = last[b] /\ next'[b] = next[b]
    BY <1>1, <1>4, <2>1, AtomicOrCoupled
  <2>3. got' = [b \in Atomic |-> IF b \in {a} THEN Flat!TransitionDue(b) ELSE got[b]]
    BY <1>4, <2>1
  <2>4. FlatInv'
    <3>1. got' = [b \in Atomic |-> got'[b]]
      BY <2>3
    <3>2. QED
      BY <1>12, <2>1, <2>2, <3>1
  <2>5. /\ moved' # moved /\ moved \subseteq moved' /\ moved' \ moved = {a}
        /\ {a} \subseteq Flat!Due
    BY <1>7, <1>13, <2>1, FlatTermsDynamic
  <2>6. [b \in Atomic |-> last'[b]] = [b \in Atomic |-> IF b \in {a} THEN above_time ELSE [d \in Atomic |-> last[d]][b]]
    BY <2>2
  <2>7. ASSUME NEW b \in Atomic
        PROVE  IF b \in {a}
               THEN \E d \in TimeAdvances : [m \in Atomic |-> next'[m]][b] = Flat!After(above_time, d)
               ELSE [m \in Atomic |-> next'[m]][b] = [m \in Atomic |-> next[m]][b]
    BY <2>2, SameNames
  <2>8. Flat!Transition
    BY <1>1, <1>3, <1>8, <2>3, <2>5, <2>6, <2>7, SameNames DEF Flat!Transition
  <2>9. QED
    BY <2>4, <2>8
<1>14. a \in Flat!Imminent <=> next[a] = above_time
  BY <1>7, FlatTermsDynamic
<1>15. CASE inbox[a] # NoBox /\ Transitioned(a, call, ta)
  <2>1. [b \in Atomic |-> last[b]][a] = last[a]
    OBVIOUS
  <2>2. Flat!TransitionDue(a) = call
    BY <1>6, <1>14, <1>15, <2>1 DEF Flat!TransitionDue
  <2> HIDE DEF call
  <2>3. QED
    BY <1>6, <1>13, <1>15, <2>2
<1>16. CASE inbox[a] = NoBox /\ next[a] = above_time /\ Transitioned(a, [kind |-> "internal"], ta)
  <2>1. Flat!TransitionDue(a) = [kind |-> "internal"]
    BY <1>6, <1>16 DEF Flat!TransitionDue
  <2>2. QED
    BY <1>13, <1>16, <2>1
<1>17. CASE inbox[a] = NoBox /\ next[a] # above_time /\ UNCHANGED <<inbox, last, next, moved, got>>
  <2>1. FlatInv'
    <3>1. moved' = moved \cup {}
      BY <1>17
    <3>2. QED
      BY <1>4, <1>6, <1>12, <1>17, <3>1
  <2>2. QED
    BY <1>3, <1>17, <2>1, Unseen DEF InRound
<1> HIDE DEF call
<1>18. QED
  BY <1>3, <1>15, <1>16, <1>17

LEMMA FinishRoundIsFinish ==
  ASSUME DynamicInv, FinishRound
  PROVE  FlatInv' /\ Flat!Finish
<1>1. /\ phase = "advance" /\ phase' = "ready" /\ stage[Top] = "done"
      /\ emitted' = <<>> /\ moved' = {}
      /\ UNCHANGED <<above_time, last, next, inbox, outbox, failed, got>>
  BY DEF FinishRound, NewPhase, boxes
<1>2. Moving /\ got = [a \in Atomic |-> got[a]]
  BY <1>1 DEF DynamicInv, FlatInv
<1>3. FlatInv'
  BY <1>1, <1>2 DEF FlatInv, InRound
<1>4. \A a \in Atomic : stage[a] = "done"
  BY <1>1, AllKnown, AtomicOrCoupled DEF DynamicInv
<1>5. Flat!Imminent = {} /\ Flat!Due = {}
  BY <1>2, <1>4, FlatTermsDynamic DEF Moving
<1>6. Flat!AllSent
  BY <1>5, FlatTermsDynamic
<1>7. Flat!Finish
  BY <1>1, <1>5, <1>6 DEF Flat!Finish
<1>8. QED
  BY <1>3, <1>7

LEMMA ReturnUnseen ==
  ASSUME DynamicInv, Return
  PROVE  FlatInv' /\ UNCHANGED Flat!flatVars
<1>1. /\ phase = "ready" /\ phase' = "finished"
      /\ UNCHANGED <<above_time, last, next, emitted, moved, got>>
  BY DEF Return, NewPhase, history
<1>2. FlatInv'
  BY <1>1 DEF DynamicInv, FlatInv, InRound
<1>3. QED
  BY <1>1, <1>2, Unseen DEF InRound

LEMMA NextIsFlat ==
  ASSUME OneLinkPerPort, DynamicInv, [Next]_vars
  PROVE  FlatInv' /\ [Flat!FlatNext]_(Flat!flatVars)
<1>1. CASE UNCHANGED vars
  <2>1. UNCHANGED <<phase, above_time, stage, last, next, inbox, outbox, emitted, moved, got>>
    BY <1>1 DEF vars, boxes, history
  <2>2. FlatInv'
    BY <2>1 DEF DynamicInv, FlatInv, InRound, Collecting, Moving, Sent, CollectedBy, Reached
  <2>3. QED
    BY <2>1, <2>2, Unseen DEF InRound
<1>2. CASE StartRound \/ StartAdvance \/ FinishRound \/ Return
  BY <1>2, StartRoundIsTick, StartAdvanceUnseen, FinishRoundIsFinish, ReturnUnseen DEF Flat!FlatNext
<1>3. CASE \E c \in Coupled : CoordinateCollect(c) \/ FinishCollect(c) \/ CoordinateAdvance(c) \/ FinishAdvance(c)
  BY <1>3, CoordinateCollectUnseen, FinishCollectUnseen, CoordinateAdvanceUnseen, FinishAdvanceUnseen
<1>4. CASE \E a \in Atomic : \E out \in Outputs(a) : CollectOutputs(a, out)
  BY <1>4, CollectOutputsIsSend DEF Flat!FlatNext
<1>5. CASE \E a \in Atomic : \E ta \in TimeAdvances : AdvanceSimulation(a, ta)
  BY <1>5, AdvanceSimulationIsTransition DEF Flat!FlatNext
<1>6. QED
  BY <1>1, <1>2, <1>3, <1>4, <1>5 DEF Next

-----------------------------------------------------------------------------
(* One part runs, and the others stay as they are.                            *)
LEMMA Parts ==
  [EnginesNext]_e_vars =>
    /\ [Next]_vars /\ [Static!Next]_s_vars
    /\ [Pool!Next]_p_vars /\ [Loop!Next]_l_vars
BY DEF EnginesNext, e_vars

(* No engine is ever asked for a time beyond its next event, in any tree; and *)
(* between the dynamic engine's rounds every coordinator's next event is the  *)
(* least of those below it, up to the runner's.                               *)
THEOREM NextIsKnownAlways == EnginesSpec => []NextIsKnown
<1>1. EnginesInit => EngineInv /\ StaticInv
  BY InitTime, InitStatic DEF EnginesInit
<1>2. EngineInv /\ StaticInv /\ [EnginesNext]_e_vars => EngineInv' /\ StaticInv'
  BY Parts, NextTime, NextStatic
<1>3. EngineInv /\ StaticInv => NextIsKnown
  BY EngineKnows DEF NextIsKnown, StaticInv, Static!NeverThrows
<1>4. QED
  BY <1>1, <1>2, <1>3, PTL DEF EnginesSpec

(* A round of the dynamic engine leaves no message in a box, for any tree and *)
(* any couplings, and an inbox has no bag without messages.                   *)
THEOREM BoxesEmptiedAlways == EnginesSpec => []BoxesEmptied
<1>1. EnginesInit => EngineInv /\ BoxInv
  BY InitTime, InitBoxes DEF EnginesInit
<1>2. EngineInv /\ BoxInv /\ [EnginesNext]_e_vars => EngineInv' /\ BoxInv'
  BY Parts, NextTime, NextBoxes
<1>3. BoxInv => BoxesEmptied
  BY DEF BoxInv, BoxesEmptied, Filled, InRound
<1>4. QED
  BY <1>1, <1>2, <1>3, PTL DEF EnginesSpec

(* Each loop calls each engine once and is over after the calls it makes: the  *)
(* nested ones on any pool for any tree of engines, and that of a team for    *)
(* any number of elements and of threads.                                     *)
THEOREM EachCalledOnceAlways == EnginesSpec => []EachCalledOnce
<1> DEFINE Inv == (engine = "pool" => PoolInv) /\ (engine = "loop" => LoopInv)
<1>1. EnginesInit => Inv
  BY InitPool, InitLoop DEF EnginesInit
<1>2. Inv /\ [EnginesNext]_e_vars => Inv'
  <2>1. [EnginesNext]_e_vars => UNCHANGED engine
    BY DEF EnginesNext, e_vars
  <2>2. QED
    BY <2>1, Parts, NextPool, NextLoop
<1>3. Inv => EachCalledOnce
  BY LoopEachOnce DEF EachCalledOnce, PoolInv
<1>4. QED
  BY <1>1, <1>2, <1>3, PTL DEF EnginesSpec

(* The static engine implements FlatEngine for any tree of models, whatever    *)
(* their couplings are: also when several links lead to one port.             *)
THEOREM StaticImplementsFlatAlways == EnginesSpec => StaticImplementsFlat
<1>1. EnginesInit => StaticInv /\ FlatBoxes /\ Static!Flat!FlatInit
  BY InitStatic, InitIsFlat DEF EnginesInit
<1>2. StaticInv /\ FlatBoxes /\ [EnginesNext]_e_vars
        => StaticInv' /\ FlatBoxes' /\ [Static!Flat!FlatNext]_(Static!Flat!flatVars)
  BY Parts, NextStatic, StepIsFlat
<1>3. QED
  BY <1>1, <1>2, PTL DEF EnginesSpec, StaticImplementsFlat, Static!ImplementsFlat, Static!Flat!FlatSpec

(* The dynamic engine implements FlatEngine for any tree of models, if no two *)
(* links of a coordinator lead to one port of one model.                      *)
THEOREM DynamicImplementsFlatAlways == OneLinkPerPort => (EnginesSpec => ImplementsFlat)
<1> SUFFICES ASSUME OneLinkPerPort PROVE EnginesSpec => ImplementsFlat
  OBVIOUS
<1>1. EnginesInit => DynamicInv /\ Flat!FlatInit
  BY InitTime, InitBoxes, InitFlat DEF EnginesInit, DynamicInv
<1>2. DynamicInv /\ [EnginesNext]_e_vars => DynamicInv' /\ [Flat!FlatNext]_(Flat!flatVars)
  <2>1. DynamicInv /\ [EnginesNext]_e_vars => EngineInv' /\ BoxInv'
    BY Parts, NextTime, NextBoxes DEF DynamicInv
  <2>2. DynamicInv /\ [EnginesNext]_e_vars => FlatInv' /\ [Flat!FlatNext]_(Flat!flatVars)
    BY Parts, NextIsFlat
  <2>3. QED
    BY <2>1, <2>2 DEF DynamicInv
<1>3. QED
  BY <1>1, <1>2, PTL DEF EnginesSpec, ImplementsFlat, Flat!FlatSpec
=============================================================================
