------------------------------ MODULE Workloads ------------------------------
(***************************************************************************)
(* The producer going through a workload and capturing metrics on its way, *)
(* under every pace of the other models: at each of its transitions they   *)
(* are all passive or the nearest of them is some time away, and the       *)
(* source has executed some of the requests.  When all is over the main    *)
(* program captures once more.                                             *)
(***************************************************************************)
EXTENDS Producer, MetricLogger

CONSTANTS
  Lapses,    \* lapses the producer may draw
  Advances,  \* least time advances of the other models, when not passive
  MaxTime    \* bound: the producer's clock

RatesAssumption ==
  ProducerAssumption /\ Rates = [i \in DOMAIN Workload |-> Workload[i].rate]

VARIABLES
  p,        \* the producer
  log,      \* the metric logger
  recs,     \* the records out of each operator
  finished, \* has the main program captured the final metrics?
  filed     \* history: the line and the time of each capture

vars == <<p, log, recs, finished, filed>>
-----------------------------------------------------------------------------
Init ==
  /\ p = NewProducer
  /\ log = NewLogger
  /\ recs = [o \in Operator |-> 0]
  /\ finished = FALSE
  /\ filed = <<>>

(* The producer's output and internal transition. *)
Produce(min, lapse) ==
  LET made == Produced(p, min, lapse)
      next == IF made.line # p.line THEN NextWorkload(log) ELSE log
  IN
  /\ p.generating
  /\ made.now <= MaxTime
  /\ p' = ProducerInternal(p, min, lapse)
  /\ log' = IF Captures(made)
            THEN CaptureMetrics(next, made.now, recs["source"], recs) ELSE next
  /\ filed' = IF Captures(made)
              THEN Append(filed, [line |-> made.line, time |-> made.now]) ELSE filed
  /\ UNCHANGED <<recs, finished>>

(* An operator sends a record on: never more than the requests before it. *)
Execute(o) ==
  /\ recs[o] < p.state - 1
  /\ recs' = [recs EXCEPT ![o] = @ + 1]
  /\ UNCHANGED <<p, log, finished, filed>>

(* The end of main, with the time of the last event. *)
Finish(time) ==
  /\ ~p.generating /\ ~finished
  /\ log' = CaptureMetrics(log, time, p.last_reqs, recs)
  /\ filed' = Append(filed, [line |-> p.line, time |-> time])
  /\ finished' = TRUE
  /\ UNCHANGED <<p, recs>>

Next ==
  \/ \E min \in Advances \cup {Infinity}, lapse \in Lapses : Produce(min, lapse)
  \/ \E o \in Operator : ~finished /\ Execute(o)
  \/ \E d \in Advances \cup {0} : Finish(p.now + d)

Spec == Init /\ [][Next]_vars
-----------------------------------------------------------------------------
(* The requests of the lines up to line l. *)
RequestsTo[l \in 0 .. Len(Workload)] ==
  IF l = 0 THEN 0 ELSE RequestsTo[l - 1] + Workload[l].first

(* Every line sends exactly its number of requests (with at least one each),  *)
(* although the count is compared with the number of the message that was     *)
(* generated last, not of those sent.                                         *)
RequestsOfLine ==
  p.mssg # 0 => /\ RequestsTo[p.line - 1] < p.state
                /\ p.state <= RequestsTo[p.line]

(* When the producer passivates, it has generated every request, and these    *)
(* are the requirements of the final capture.                                 *)
AllRequested == ~p.generating => p.last_reqs = RequestsTo[Len(Workload)]

(* A rate is never in force before its time: the producer draws a lapse at    *)
(* the rate of a line only at or after that time.                             *)
NeverEarly == p.now - p.arrival >= Workload[p.line].first \/ p.line = 1

(* The rate in force is that of the time: "a time point to change the next    *)
(* rate" (producer.hpp, line 112), for every line.                            *)
RateInForce ==
  p.mssg > 1 => \/ FinalLine(p)
                \/ p.now - p.arrival < Workload[p.line + 1].first

(* The captures are filed under the rate that was in force, and logged and    *)
(* printed in the order they were made, none left out: the workload's index,  *)
(* which counts lines, the lists, which have no entry for a rate of zero, and *)
(* the counters of captures agree.  The operators' part tells the same.       *)
FiledUnderLine ==
  LET expected == [i \in DOMAIN filed |-> [rate |-> Rates[filed[i].line], time |-> filed[i].time]]
      logged   == Reported(log)
      printed  == Printed(log)
  IN  /\ [i \in DOMAIN logged |-> [rate |-> logged[i].rate, time |-> logged[i].time]] = expected
      /\ ReportedDynamic(log).throughput = expected
      /\ printed.system = expected
      /\ printed.opers = [i \in DOMAIN logged |-> [rate |-> logged[i].rate, opers |-> logged[i].opers]]

(* "Capture metrics each time period (s)" (producer.hpp, line 259): during    *)
(* the execution two captures are a period apart.                             *)
Periodic ==
  ~finished => \A i \in 1 .. Len(filed) - 1 : filed[i + 1].time - filed[i].time >= StepTime
=============================================================================
