------------------------------ MODULE BasicModels ------------------------------
(***************************************************************************)
(* Cadmium's basic models (basic_model/pdevs): generators of values go to  *)
(* an accumulator, its sums to a second one and to a filter_first_output,  *)
(* and what the filter outputs to a passive model; generators of resets go *)
(* to both accumulators.  A step is one round of the static engine, where  *)
(* each model is a class of its own: the due models output, they and those *)
(* that receive take their transition.  Several links may lead to one      *)
(* port, whose bag this engine fills from all of them.  In the dynamic one *)
(* each link replaces the bag (CellSpace): it makes the same rounds only   *)
(* where every port has one link, with one adder and one resetter.         *)
(***************************************************************************)
EXTENDS Integers, Sequences, FiniteSets, FiniteSetsExt, Functions

CONSTANTS
  Adders,      \* generators of values
  Resetters,   \* generators of resets
  Period,      \* the periods of the models that override generator
  Value,       \* the values that those of them output
  Infinity,
  MaxTime      \* bound: the rounds end at this time

(* Every generator is a model of its own, and its period is one that ends.    *)
BasicAssumption ==
  /\ IsFiniteSet(Adders) /\ IsFiniteSet(Resetters)
  /\ (Adders \cup Resetters) \cap {"first", "second", "filter", "passive"} = {}
  /\ Infinity \in Nat /\ 5 < Infinity /\ MaxTime \in 0 .. Infinity
  /\ Period \subseteq 1 .. Infinity - 1 /\ Value \subseteq Nat

VARIABLES
  gen,      \* gen[g]: what period and output_message of a generator return
  last,     \* last[m]: the time of a model's last transition
  acc,      \* the states of the accumulators: value and on_reset
  filter,   \* the state of the filter
  thrown,   \* an exception was thrown or an assertion failed
  sums,     \* history: what each accumulator output, and when
  passed    \* history: when the filter output something

vars == <<gen, last, acc, filter, thrown, sums, passed>>

Generator == Adders \cup Resetters
Accumulator == {"first", "second"}
Model == Generator \cup Accumulator \cup {"filter", "passive"}
-----------------------------------------------------------------------------
(* The generators that there are, and those that override the base class: a   *)
(* reset carries no value.  Each goes on with its period, whatever happens.   *)
IntGeneratorOneSec    == [period |-> 1, output |-> 1]
ResetGeneratorFiveSec == [period |-> 5, output |-> 0]
Overriding(values)    == [period : Period, output : values]

GeneratorAdvance(g) == g.period

(* An accumulator.  An addition that comes with the reset is in the sum.      *)
AccumulatorInternal(a) == [a EXCEPT !.value = 0, !.on_reset = FALSE]
AccumulatorExternal(a, adds, resets) ==
  [value |-> a.value + adds, on_reset |-> a.on_reset \/ resets > 0]
AccumulatorConfluence(a, adds, resets) ==
  AccumulatorExternal(AccumulatorInternal(a), adds, resets)

AccumulatorOutput(a) == a.value

AccumulatorAdvance(a) == IF a.on_reset THEN 0 ELSE Infinity

(* The filter counts its transitions, and outputs a one when it has received  *)
(* for the first time.                                                        *)
FilterTransition(f) == f + 1
FilterAdvance(f) == IF f = 1 THEN 0 ELSE Infinity

TimeAdvance(m) ==
  IF m \in Generator        THEN GeneratorAdvance(gen[m])
  ELSE IF m \in Accumulator THEN AccumulatorAdvance(acc[m])
  ELSE IF m = "filter"      THEN FilterAdvance(filter)
  ELSE Infinity

NextEvent(m) == IF TimeAdvance(m) = Infinity THEN Infinity ELSE last[m] + TimeAdvance(m)

Init ==
  /\ \E a \in [Adders -> {IntGeneratorOneSec} \cup Overriding(Value)],
        s \in [Resetters -> {ResetGeneratorFiveSec} \cup Overriding({0})] :
       gen = [g \in Generator |-> IF g \in Adders THEN a[g] ELSE s[g]]
  /\ last = [m \in Model |-> 0]
  /\ acc = [a \in Accumulator |-> [value |-> 0, on_reset |-> FALSE]]
  /\ filter = 0
  /\ thrown = FALSE
  /\ sums = [a \in Accumulator |-> <<>>]
  /\ passed = <<>>

(* What the due models add to the value of an accumulator: the links of all   *)
(* adders append to the bag of one port.  Faulty variant: as in the dynamic   *)
(* engine, only the last link's message is left of those.                     *)
AddsOfLastLink(a, due) ==
  IF a = "first" /\ Adders \cap due # {} THEN gen[CHOOSE g \in Adders \cap due : TRUE].output
  ELSE IF a = "second" /\ "first" \in due THEN AccumulatorOutput(acc["first"])
  ELSE 0
Adds(a, due) ==
  IF a = "first"            THEN SumFunctionOnSet([g \in Adders |-> gen[g].output], Adders \cap due)
  ELSE IF "first" \in due   THEN AccumulatorOutput(acc["first"])
  ELSE 0

(* Those with something in their inbox.                                       *)
Receivers(due) ==
  UNION { IF Adders \cap due # {} THEN {"first"} ELSE {},
          IF Resetters \cap due # {} THEN Accumulator ELSE {},
          IF "first" \in due THEN {"second", "filter"} ELSE {},
          IF "filter" \in due THEN {"passive"} ELSE {} }

AccumulatorAfter(a, due) ==
  LET resets == Cardinality(Resetters \cap due)
      reached == a \in Receivers(due)
  IN  IF a \in due
      THEN IF reached THEN AccumulatorConfluence(acc[a], Adds(a, due), resets)
           ELSE AccumulatorInternal(acc[a])
      ELSE IF reached THEN AccumulatorExternal(acc[a], Adds(a, due), resets)
           ELSE acc[a]

(* The transitions and outputs that throw, or assert false: of an accumulator *)
(* that is due without a reset, or reached after one; of a filter that is     *)
(* reached when due; of a passive model that is due.                          *)
AccumulatorThrows(a, due) ==
  IF a \in due THEN ~acc[a].on_reset ELSE a \in Receivers(due) /\ acc[a].on_reset
FilterAsserts(due) == "filter" \in due \cap Receivers(due)
PassiveThrows(due) == "passive" \in due
Throwing(due) ==
  (\E a \in Accumulator : AccumulatorThrows(a, due)) \/ FilterAsserts(due) \/ PassiveThrows(due)

Round ==
  LET t   == Min({NextEvent(m) : m \in Model})
      due == {m \in Model : NextEvent(m) = t}
  IN  /\ ~thrown
      /\ t < MaxTime
      /\ last' = [m \in Model |-> IF m \in due \cup Receivers(due) THEN t ELSE last[m]]
      /\ acc' = [a \in Accumulator |-> AccumulatorAfter(a, due)]
      /\ filter' = IF "filter" \in due \cup Receivers(due) THEN FilterTransition(filter) ELSE filter
      /\ thrown' = Throwing(due)
      /\ sums' = [a \in Accumulator |->
                   IF a \in due THEN Append(sums[a], [time |-> t, value |-> AccumulatorOutput(acc[a])]) ELSE sums[a]]
      /\ passed' = IF "filter" \in due THEN Append(passed, t) ELSE passed
      /\ UNCHANGED gen

Next == Round

Spec == Init /\ [][Next]_vars
-----------------------------------------------------------------------------
(* The instants of resets: several at one instant count once ("multiple call  *)
(* equal one call", accumulator.hpp, line 105).                               *)
Resets == {t \in 1 .. MaxTime : \E g \in Resetters : t % gen[g].period = 0}

(* What all adders output after time a and until time b. *)
Between(g, a, b) == (b \div gen[g].period) - (a \div gen[g].period)
ValuesBetween(a, b) == SumFunctionOnSet([g \in Adders |-> gen[g].output * Between(g, a, b)], Adders)

(* Each sum is that of all values since the previous one, those that come in  *)
(* the instant of the reset itself included and those of the next instant     *)
(* not, and there is one for each instant of resets that is over.  The second *)
(* accumulator, which receives the sum while it outputs, starts over from it. *)
(* This takes an engine that joins what several links bring to one port.      *)
SumsAreExact ==
  LET now == Max(Range(last))
      of  == sums["first"]
  IN  /\ \A i \in DOMAIN of :
           LET from == IF i = 1 THEN 0 ELSE of[i - 1].time
           IN  /\ of[i].time \in Resets /\ from < of[i].time
               /\ of[i].value = ValuesBetween(from, of[i].time)
      /\ \A t \in Resets : t < now => \E i \in DOMAIN of : of[i].time = t
      /\ sums["second"] = [i \in DOMAIN of |->
                             [time |-> of[i].time, value |-> IF i = 1 THEN 0 ELSE of[i - 1].value]]

(* "throw std::logic_error" (accumulator.hpp, lines 88, 96, 117; passive.hpp) *)
(* and "assert(false)" (filter_first_output.hpp, line 82) are never reached:  *)
(* a model that is on reset outputs and forgets before anything else reaches  *)
(* it.                                                                        *)
NothingThrown == ~thrown

(* Only the first sum passes the filter, at the instant of the first reset.   *)
FirstPasses ==
  /\ Len(passed) <= 1
  /\ passed # <<>> => sums["first"] # <<>> /\ passed[1] = sums["first"][1].time
  /\ Len(sums["first"]) >= 2 => passed # <<>>
=============================================================================
