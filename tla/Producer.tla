------------------------------ MODULE Producer ------------------------------
(***************************************************************************)
(* The producer (atomics/producer.hpp), as operators on its state.  It     *)
(* goes through the lines of a workload: each line a number of requests    *)
(* and a rate (PROD_MOD 0), or the time from which a rate holds, up to a   *)
(* line with rate zero (PROD_MOD 1).  After the last one it only sends     *)
(* messages without request, while other models are active.  A lapse that  *)
(* it draws from the exponential distribution is an argument.              *)
(***************************************************************************)
EXTENDS Integers, Sequences

CONSTANTS
  ByTime,     \* PROD_MOD
  Dynamic,    \* LOG_MOD: metrics are captured during the execution
  Workload,   \* the lines: sequence of records [first, rate]
  StepTime,   \* the time between captures
  Infinity    \* numeric_limits infinity

ProducerAssumption ==
  /\ ByTime \in BOOLEAN /\ Dynamic \in BOOLEAN
  /\ Workload \in Seq([first : Nat, rate : Nat]) /\ Workload # <<>>
  /\ ByTime => Workload[Len(Workload)].rate = 0 /\ Workload[1].rate # 0
  /\ StepTime \in Nat \ {0}

(***************************************************************************)
(* state        : the number of the last message generated                 *)
(* mssg         : current_mssg_, the message of the next output            *)
(* arrival      : arrival_time_, the time advance while generating         *)
(* now          : current_time_, the time of the next output               *)
(* line         : the line of current_workload_, from one                  *)
(* reqs         : next_reqs_to_complete_                                   *)
(* generating   : generating_                                              *)
(* last_reqs    : last_requirements_                                       *)
(* capture_time : time_to_capture_                                         *)
(***************************************************************************)
NewProducer ==
  [ state |-> 1, mssg |-> 1, arrival |-> 0, now |-> 0, line |-> 1,
    reqs |-> IF ByTime THEN 0 ELSE Workload[1].first,
    generating |-> TRUE, last_reqs |-> 0, capture_time |-> StepTime ]

Period(p) == IF p.generating THEN p.arrival ELSE Infinity

(* Is the current line over?  Faulty variants: with one request too many,    *)
(* and when its own time has come.                                           *)
LineOverCurrent(p) ==
  IF ByTime THEN p.now >= Workload[p.line].first ELSE p.state >= p.reqs
LineOverLate(p) ==
  IF ByTime THEN p.now > Workload[p.line + 1].first ELSE p.state > p.reqs
LineOver(p) ==
  IF ByTime THEN p.now >= Workload[p.line + 1].first ELSE p.state >= p.reqs

FinalLine(p) ==
  IF ByTime THEN Workload[p.line + 1].rate = 0 ELSE p.line = Len(Workload)

Passivate(p) == [p EXCEPT !.last_reqs = p.state, !.generating = FALSE]

NextLine(p) ==
  [p EXCEPT !.line = p.line + 1,
            !.reqs = IF ByTime THEN 0 ELSE p.reqs + Workload[p.line + 1].first]

(* Moves forward by the least time advance of the other models. *)
KeepCapturing(p, min) ==
  [p EXCEPT !.now = p.now + min, !.arrival = min, !.mssg = 0]

Generate(p, lapse) ==
  [p EXCEPT !.arrival = lapse, !.now = p.now + lapse, !.state = p.state + 1,
            !.mssg = p.state + 1]

(* Does the producer, after its transition, capture metrics? *)
Captures(p) == Dynamic /\ p.generating /\ p.now >= p.capture_time

Captured(p) == IF Captures(p) THEN [p EXCEPT !.capture_time = @ + StepTime] ELSE p

(* The transition up to the capture; min is the least time advance of the   *)
(* other models.                                                            *)
Produced(p, min, lapse) ==
  IF LineOver(p) /\ FinalLine(p)
  THEN IF min = Infinity THEN Passivate(p) ELSE KeepCapturing(p, min)
  ELSE Generate(IF LineOver(p) THEN NextLine(p) ELSE p, lapse)

ProducerInternal(p, min, lapse) == Captured(Produced(p, min, lapse))
=============================================================================
