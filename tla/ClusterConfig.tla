---------------------------- MODULE ClusterConfig ----------------------------
(***************************************************************************)
(* The cluster configuration (data_structures/clusterconfig.hpp) reading   *)
(* its files a line at a time, any line that a user may write: operators,  *)
(* the topology of the job (after which it looks for the operators at its  *)
(* end), the workloads by requests and by time, the factors of extra       *)
(* occupation.  Operators are numbered from zero in the order of their     *)
(* lines.  Blank lines, the other properties of an operator, and the files *)
(* of single values (hardware, degradation) are left out.                  *)
(***************************************************************************)
EXTENDS Integers, Sequences, FiniteSets, Relation

CONSTANTS
  Name,          \* names of operators
  Parallelism,   \* the parallelism an operator's line may give
  ParallelismL,  \* PARALLELISM_L: overrides it when greater than one
  Load,          \* lines of the workloads
  Factor,        \* factors of extra occupation, which an operator has one of
  MaxLines       \* bound: lines of the files after the operators' one

ConfigAssumption ==
  /\ Parallelism \subseteq Nat \ {0} /\ ParallelismL \in Nat \ {0} /\ MaxLines \in Nat

VARIABLES
  reading,    \* the file that is read, or "done"
  props,      \* operProps_: name, replication and factor, in order
  oper_ids,   \* oper_ids_, a function from the names read
  topology,   \* topology_: the destinations of every operator but the last
  begin_op,   \* begin_op_; zero until a link is read
  end_ops,    \* end_ops_, which is sorted and has no duplicates: a set
  workloads,  \* workloads_by_req_ and workloads_by_time_
  lines       \* history: the lines of each file after the operators' one

vars == <<reading, props, oper_ids, topology, begin_op, end_ops, workloads, lines>>

NListed == Len(props)
OperId  == 0 .. NListed - 1

NLines == Len(lines.topology) + Len(lines.by_req) + Len(lines.by_time) + Len(lines.factors)
-----------------------------------------------------------------------------
Init ==
  /\ reading = "operators"
  /\ props = <<>> /\ oper_ids = <<>> /\ topology = <<>>
  /\ begin_op = 0 /\ end_ops = {}
  /\ workloads = [by_req |-> <<>>, by_time |-> <<>>]
  /\ lines = [topology |-> <<>>, by_req |-> <<>>, by_time |-> <<>>, factors |-> <<>>]

Replication(parallelism) == IF ParallelismL > 1 THEN ParallelismL ELSE parallelism

(* Faulty variant: the identifier is taken after it has been counted. *)
NewIdAfter == NListed + 1
NewId      == NListed

(* initOperators: a line of the operators' file. *)
ReadOperator(name, parallelism) ==
  /\ reading = "operators"
  /\ name \notin DOMAIN oper_ids
  /\ props' = Append(props, [name |-> name, replication |-> Replication(parallelism), factor |-> 0])
  /\ oper_ids' = [n \in DOMAIN oper_ids \cup {name} |-> IF n = name THEN NewId ELSE oper_ids[n]]
  /\ UNCHANGED <<reading, topology, begin_op, end_ops, workloads, lines>>

(* initTopology: "The final operator has no follow-up" (line 260), and so no  *)
(* entry.                                                                     *)
Sized == [o \in OperId \ {NListed - 1} |-> <<>>]

BeginTopology ==
  /\ reading = "operators" /\ props # <<>>
  /\ reading' = "topology"
  /\ topology' = Sized
  /\ UNCHANGED <<props, oper_ids, begin_op, end_ops, workloads, lines>>

ReadLine(file, line) ==
  /\ reading = file /\ NLines < MaxLines
  /\ lines' = [lines EXCEPT ![file] = Append(@, line)]

(* A line of the topology's file.  The names are in the operators' file and   *)
(* the first of them is not its last one (else the code writes beyond the end *)
(* of topology_).                                                             *)
ReadLink(from, to) ==
  /\ ReadLine("topology", <<from, to>>)
  /\ oper_ids[from] # NListed - 1 /\ from # to
  /\ topology' = [topology EXCEPT ![oper_ids[from]] = Append(@, oper_ids[to])]
  /\ begin_op' = IF lines.topology = <<>> THEN oper_ids[from] ELSE begin_op
  /\ UNCHANGED <<reading, props, oper_ids, end_ops, workloads>>

(* The destinations that are not indices of topology_. *)
Finals ==
  {to \in OperId : /\ \E o \in DOMAIN topology : \E k \in DOMAIN topology[o] : topology[o][k] = to
                   /\ \A from \in 0 .. Cardinality(DOMAIN topology) - 1 : to # from}

EndTopology ==
  /\ reading = "topology"
  /\ reading' = "by_req"
  /\ end_ops' = Finals
  /\ UNCHANGED <<props, oper_ids, topology, begin_op, workloads, lines>>

(* initWorkloadByReq and initWorkloadByTime: a line of one of the workloads,  *)
(* which are both read, whichever the producer goes by.                       *)
ReadLoad(file, load) ==
  /\ ReadLine(file, load)
  /\ workloads' = [workloads EXCEPT ![file] = Append(@, load)]
  /\ UNCHANGED <<reading, props, oper_ids, topology, begin_op, end_ops>>

(* initExtraOccupFactors: a line with the factor of an operator, which is in  *)
(* the operators' file (else the code writes beyond operProps_).              *)
ReadFactor(name, factor) ==
  /\ ReadLine("factors", <<name, factor>>)
  /\ props' = [props EXCEPT ![oper_ids[name] + 1].factor = factor]
  /\ UNCHANGED <<reading, oper_ids, topology, begin_op, end_ops, workloads>>

EndFile ==
  /\ reading \in {"by_req", "by_time", "factors"}
  /\ reading' = CASE reading = "by_req"  -> "by_time"
                  [] reading = "by_time" -> "factors"
                  [] reading = "factors" -> "done"
  /\ UNCHANGED <<props, oper_ids, topology, begin_op, end_ops, workloads, lines>>

Next ==
  \/ \E name \in Name, parallelism \in Parallelism : ReadOperator(name, parallelism)
  \/ BeginTopology
  \/ \E from, to \in DOMAIN oper_ids : ReadLink(from, to)
  \/ EndTopology
  \/ \E file \in {"by_req", "by_time"}, load \in Load : ReadLoad(file, load)
  \/ \E name \in DOMAIN oper_ids, factor \in Factor : ReadFactor(name, factor)
  \/ EndFile

Spec == Init /\ [][Next]_vars
-----------------------------------------------------------------------------
(* The job as the files state it: the names that are linked, those without a  *)
(* follower, and whether the job has a cycle.                                 *)
Linked == {lines.topology[k] : k \in DOMAIN lines.topology}
Sinks == {n \in DOMAIN oper_ids : (\E m \in Name : <<m, n>> \in Linked)
                                   /\ (\A m \in Name : <<n, m>> \notin Linked)}
Acyclic ==
  LET reaches == TransitiveClosure([e \in Name \X Name |-> e \in Linked], Name)
  IN  \A n \in Name : ~reaches[n, n]

NameOf(o) == props[o + 1].name

(* The names of the links, the properties and the topology go together: what  *)
(* is stored for an operator under its number is its own.                     *)
NamesResolve ==
  /\ \A n \in DOMAIN oper_ids : oper_ids[n] \in OperId /\ NameOf(oper_ids[n]) = n
  /\ \A o \in DOMAIN topology : \A k \in DOMAIN topology[o] :
       <<NameOf(o), NameOf(topology[o][k])>> \in Linked
  /\ \A e \in Linked : \E k \in DOMAIN topology[oper_ids[e[1]]] :
       topology[oper_ids[e[1]]][k] = oper_ids[e[2]]

(* Every operator has the factor of the last line that names it, and the      *)
(* workloads are those of their own files: none is read into another's place. *)
(* An operator without a line keeps zero, and has no busy time for it.        *)
LinesInPlace ==
  LET factors == lines.factors
      naming(o) == {k \in DOMAIN factors : factors[k][1] = NameOf(o)}
  IN  /\ \A o \in OperId :
           LET ks == naming(o)
           IN  props[o + 1].factor = IF ks = {} THEN 0
                                     ELSE factors[CHOOSE k \in ks : \A j \in ks : j <= k][2]
      /\ \A file \in DOMAIN workloads : workloads[file] = lines[file]

(* For a job whose only operator without followers is the last one listed,    *)
(* the last operators are exactly that one: the nodes then stop sending there *)
(* and only there.                                                            *)
LastIsEnd ==
  reading = "done" /\ Acyclic /\ Sinks = {NameOf(NListed - 1)} =>
    end_ops = {NListed - 1}

(* "Store end operators" (line 283), without duplicates (line 300): when the  *)
(* last one listed is among the operators without followers, all of them are  *)
(* stored.                                                                    *)
EndsAreSinks ==
  reading = "done" /\ Acyclic /\ (\E n \in Sinks : oper_ids[n] = NListed - 1) =>
    {NameOf(o) : o \in end_ops} = Sinks
=============================================================================
