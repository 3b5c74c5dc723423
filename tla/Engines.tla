------------------------------- MODULE Engines -------------------------------
(***************************************************************************)
(* The parts of the engine side by side.  The dynamic and the static one   *)
(* run the same tree, with couplings of their own.  Besides them, the two  *)
(* loops that the dynamic one may run its submodels with: tasks of a pool, *)
(* and pieces for the threads of a team.  One of the four runs.            *)
(***************************************************************************)
EXTENDS DynamicEngine

CONSTANTS
  StaticEIC, StaticTimeAdvances, StaticLimit,  \* those of the static engine
  Thread, Runner, Engine, Root, Below,         \* the pool's, see ThreadPool
  MaxElements, MaxThreads                      \* the team's, see ParallelLoop

VARIABLES engine, s_phase, s_next_event, s_now, s_last, s_next, s_inbox, s_outbox,
          s_failed, s_emitted, s_moved, s_got,
          queue, stack, submitted, ready,
          n, thread_number, team, at, called

Static == INSTANCE StaticEngine WITH
  EIC <- StaticEIC, TimeAdvances <- StaticTimeAdvances, Limit <- StaticLimit,
  phase <- s_phase, next_event <- s_next_event, now <- s_now, last <- s_last, next <- s_next,
  inbox <- s_inbox, outbox <- s_outbox, failed <- s_failed, emitted <- s_emitted,
  moved <- s_moved, got <- s_got

Pool == INSTANCE ThreadPool
Loop == INSTANCE ParallelLoop

ASSUME StaticTimesAssumption ==
  /\ StaticTimeAdvances \subseteq Nat
  /\ StaticLimit \in Nat /\ StaticLimit <= Infinity

(* A box of the static engine is a tuple with a bag for each port, so that a  *)
(* link from or to another port does not compile.                             *)
ASSUME StaticCouplingAssumption ==
  \A c \in Coupled : /\ StaticEIC[c] \in Seq(Links({c}, Children[c]))
                     /\ JoinPorts(IC[c], OutPort, InPort)
                     /\ JoinPorts(StaticEIC[c], InPort, InPort)
                     /\ JoinPorts(EOC[c], OutPort, OutPort)

(* The engines of the pool are a tree too: each is below one other at most.   *)
ASSUME PoolAssumption ==
  /\ Runner \in Thread
  /\ Root \in Engine
  /\ Below \in [Engine -> Seq(Engine \ {Root})]
  /\ \A e, f \in Engine : \A j \in DOMAIN Below[e], k \in DOMAIN Below[f] :
       Below[e][j] = Below[f][k] => e = f /\ j = k

ASSUME LoopAssumption == MaxElements \in Nat /\ MaxThreads \in Nat

s_vars == <<s_phase, s_next_event, s_now, s_last, s_next, s_inbox, s_outbox, s_failed,
            s_emitted, s_moved, s_got>>
p_vars == <<queue, stack, submitted, ready>>
l_vars == <<n, thread_number, team, at, called>>

(* What does not run has one initial state.                                   *)
OneOf(S) == CHOOSE x \in S : TRUE

EnginesInit ==
  /\ engine \in {"dynamic", "static", "pool", "loop"}
  /\ Init
  /\ Static!Init
  /\ Pool!Init
  /\ engine # "static"  => \A a \in Atomic : s_next[a] = OneOf(StaticTimeAdvances)
  /\ engine # "dynamic" => \A a \in Atomic : next[a] = OneOf(TimeAdvances)
  /\ IF engine = "loop" THEN Loop!Init
     ELSE n = 1 /\ thread_number = 1 /\ team = 1 /\ at = [t \in {0} |-> 0] /\ called = [k \in {0} |-> 0]

EnginesNext ==
  \/ engine = "dynamic" /\ Next        /\ UNCHANGED <<engine, s_vars, p_vars, l_vars>>
  \/ engine = "static"  /\ Static!Next /\ UNCHANGED <<engine, vars, p_vars, l_vars>>
  \/ engine = "pool"    /\ Pool!Next   /\ UNCHANGED <<engine, vars, s_vars, l_vars>>
  \/ engine = "loop"    /\ Loop!Next   /\ UNCHANGED <<engine, vars, s_vars, p_vars>>

e_vars == <<engine, vars, s_vars, p_vars, l_vars>>

EnginesSpec == EnginesInit /\ [][EnginesNext]_e_vars

(* Every call that was made returns, and the loops go on.                     *)
EnginesFairSpec == EnginesSpec /\ WF_e_vars(EnginesNext)
-----------------------------------------------------------------------------
(* The static engine keeps the promise too, also when several links lead to  *)
(* one port.                                                                  *)
StaticImplementsFlat == Static!ImplementsFlat

(* Neither engine throws, and the dynamic one knows the next event at every   *)
(* level.                                                                     *)
NextIsKnown == NextIsLeast /\ NeverThrows /\ Static!NeverThrows

(* A loop calls each engine once, before it is over.                          *)
EachCalledOnce ==
  (engine = "pool" => Pool!CalledWithin) /\ (engine = "loop" => Loop!EachOnce)

(* Rounds and loops come to their end.                                        *)
RoundsAndLoopsEnd == RoundsEnd /\ (engine = "pool" => Pool!Returns)
=============================================================================
