---------------------------- MODULE MetricLogger ----------------------------
(***************************************************************************)
(* The metric logger (util/metriclogger.tpp) with the index of the current *)
(* workload that the cluster configuration keeps (WLOAD_INDEX_), as        *)
(* operators on its state.  What is captured is the time and the source's  *)
(* record count for the system, and the accumulators of each operator; how *)
(* throughput and utilization are computed from them, and the layout of    *)
(* the files, are left out.                                                *)
(***************************************************************************)
EXTENDS Integers, Sequences, SequencesExt

CONSTANTS
  Rates,    \* the rates of the workload's lines, in order
  Operator  \* the operators of the job

(* A line with rate zero has no metrics. *)
Rated ==
  LET rated[l \in 0 .. Len(Rates)] ==
        IF l = 0 THEN <<>>
        ELSE IF Rates[l] # 0 THEN Append(rated[l - 1], Rates[l]) ELSE rated[l - 1]
  IN  rated[Len(Rates)]

(***************************************************************************)
(* index       : WLOAD_INDEX_, from zero                                   *)
(* system[i]   : system_metrics_[i - 1], the captures under the i-th rate  *)
(* oper[o][i]  : oper_metrics_[o][i - 1]                                   *)
(* captures[i] : captures_[i - 1]                                          *)
(***************************************************************************)
NewLogger ==
  [ index    |-> 0,
    system   |-> [i \in DOMAIN Rated |-> <<>>],
    oper     |-> [o \in Operator |-> [i \in DOMAIN Rated |-> <<>>]],
    captures |-> [i \in DOMAIN Rated |-> 0] ]

(* Faulty variant: the index stays. *)
NextWorkloadStay(log) == log
NextWorkload(log) == [log EXCEPT !.index = @ + 1]

(* props gives the accumulators of each operator.                            *)
CaptureMetrics(log, time, recs, props) ==
  LET i == log.index + 1
  IN  [ log EXCEPT !.system[i]   = Append(@, [time |-> time, recs |-> recs]),
                   !.oper        = [o \in Operator |-> [log.oper[o] EXCEPT ![i] = Append(@, props[o])]],
                   !.captures[i] = @ + 1 ]

(* What is logged at the end (logMetrics): for every rate as many captures as *)
(* were counted, each with its operators' metrics.                            *)
Reported(log) ==
  FlattenSeq([i \in DOMAIN Rated |->
    [k \in 1 .. log.captures[i] |->
      [rate |-> Rated[i], time |-> log.system[i][k].time, recs |-> log.system[i][k].recs,
       opers |-> [o \in Operator |-> log.oper[o][i][k]]]]])

(* What is printed (printMetrics): first every list of the system's metrics   *)
(* to its end, then for every rate as many rounds of the operators as were    *)
(* counted.                                                                   *)
Printed(log) ==
  [ system |-> FlattenSeq([i \in DOMAIN Rated |->
                 [k \in DOMAIN log.system[i] |-> [rate |-> Rated[i], time |-> log.system[i][k].time]]]),
    opers  |-> FlattenSeq([i \in DOMAIN Rated |->
                 [k \in 1 .. log.captures[i] |->
                   [rate |-> Rated[i], opers |-> [o \in Operator |-> log.oper[o][i][k]]]]]) ]

(* What dynamic metrics log (logDynamicMetrics): every list to its end.       *)
ReportedDynamic(log) ==
  [ throughput  |-> FlattenSeq([i \in DOMAIN Rated |->
                      [k \in DOMAIN log.system[i] |-> [rate |-> Rated[i], time |-> log.system[i][k].time]]]),
    utilization |-> [o \in Operator |-> log.oper[o]] ]
=============================================================================
