------------------------------- MODULE Startup -------------------------------
(***************************************************************************)
(* What happens before and besides the traffic of the job, each on its     *)
(* own: the cluster configuration reads its files, the job manager deploys *)
(* the job, the producer goes through a workload given by requests or by   *)
(* time.  The part that runs is chosen at the start.                       *)
(***************************************************************************)
EXTENDS Deployment

CONSTANTS
  Name, Parallelism, ParallelismL, Load, Factor, MaxLines,  \* of ClusterConfig
  Requests,   \* the workload of a producer that goes by requests
  Times,      \* that of one that goes by time
  Dynamic, StepTime, Infinity,          \* of Producer
  Operator, Lapses, Advances, MaxTime   \* of MetricLogger and Workloads

VARIABLES part, reading, props, oper_ids, topology, begin_op, end_ops, workloads, lines,
          p, log, recs, finished, filed

Config == INSTANCE ClusterConfig

RatesOf(workload) == [l \in DOMAIN workload |-> workload[l].rate]

ByReq  == INSTANCE Workloads WITH ByTime <- FALSE, Workload <- Requests, Rates <- RatesOf(Requests)
ByTime == INSTANCE Workloads WITH ByTime <- TRUE,  Workload <- Times,    Rates <- RatesOf(Times)

(* A line without requests makes the producer generate one all the same, and *)
(* one less for the line after it; on a line of requests with rate zero the  *)
(* lapse is infinite (-(1/lambda) * log(1 - rd)).  The workload has neither. *)
ASSUME StartupAssumption ==
  /\ Config!ConfigAssumption
  /\ ByReq!ProducerAssumption /\ ByTime!ProducerAssumption
  /\ \A l \in DOMAIN Requests : Requests[l].first > 0 /\ Requests[l].rate > 0
  /\ Lapses \subseteq Nat /\ Advances \subseteq Nat /\ Infinity \in Nat

configVars   == <<reading, props, oper_ids, topology, begin_op, end_ops, workloads, lines>>
workloadVars == <<p, log, recs, finished, filed>>

(* The parts that do not run have one initial state.                         *)
StartupInit ==
  /\ part \in {"config", "deployment", "by_req", "by_time"}
  /\ Init
  /\ part # "deployment" => replication = [o \in OperId |-> 0]
  /\ Config!Init
  /\ IF part = "by_time" THEN ByTime!Init ELSE ByReq!Init

StartupNext ==
  \/ part = "deployment" /\ Next         /\ UNCHANGED <<part, configVars, workloadVars>>
  \/ part = "config"     /\ Config!Next  /\ UNCHANGED <<part, vars, workloadVars>>
  \/ part = "by_req"     /\ ByReq!Next   /\ UNCHANGED <<part, vars, configVars>>
  \/ part = "by_time"    /\ ByTime!Next  /\ UNCHANGED <<part, vars, configVars>>

StartupSpec == StartupInit /\ [][StartupNext]_<<part, vars, configVars, workloadVars>>
-----------------------------------------------------------------------------
(* Names, properties and topology go together, and a job whose only operator *)
(* without followers is listed last ends there.                              *)
ReadsTheJob == Config!NamesResolve /\ Config!LinesInPlace /\ Config!LastIsEnd

(* The number of requests of each line and of all of them, for the producer  *)
(* with lines of requests.                                                   *)
RequestsOfLine == part = "by_req" => ByReq!RequestsOfLine /\ ByReq!AllRequested

(* No rate is in force before its time.                                      *)
NeverEarly == part = "by_time" => ByTime!NeverEarly

(* In both modes the captures are filed under the rate that was in force.    *)
FiledUnderLine == IF part = "by_time" THEN ByTime!FiledUnderLine ELSE ByReq!FiledUnderLine
=============================================================================
