------------------------------ MODULE ThreadPool ------------------------------
(***************************************************************************)
(* concurrent_for_each (engine/concurrency_helpers.hpp) as the engine uses *)
(* it: the call of a coordinator submits those of its submodels to one     *)
(* pool of threads, and while it waits for them its own thread runs tasks  *)
(* of the pool, whatever coordinator they are for.  The pool is boost's    *)
(* basic_thread_pool, a queue that its threads take tasks from.            *)
(***************************************************************************)
EXTENDS Integers, Sequences, SequencesExt

CONSTANTS
  Thread,   \* the thread of the runner and those of the pool
  Runner,
  Engine,   \* the engines, each of which is called once
  Root,     \* the one that the runner calls
  Below     \* Below[e]: the engines that e calls, in order; none for a simulator

VARIABLES
  queue,      \* the tasks that no thread has taken
  stack,      \* stack[t]: the calls that thread t is in, the innermost one last
  submitted,  \* submitted[e]: how many tasks the call of e has submitted
  ready       \* the calls that have returned: their futures are ready

vars == <<queue, stack, submitted, ready>>

Inner(t) == Last(stack[t])
-----------------------------------------------------------------------------
Init ==
  /\ queue = <<>>
  /\ stack = [t \in Thread |-> IF t = Runner THEN <<Root>> ELSE <<>>]
  /\ submitted = [e \in Engine |-> 0]
  /\ ready = {}

Submit(t) ==
  /\ stack[t] # <<>>
  /\ submitted[Inner(t)] < Len(Below[Inner(t)])
  /\ queue' = Append(queue, Below[Inner(t)][submitted[Inner(t)] + 1])
  /\ submitted' = [submitted EXCEPT ![Inner(t)] = @ + 1]
  /\ UNCHANGED <<stack, ready>>

(* The futures that a loop has are ready.                                     *)
AllReady(e) ==
  submitted[e] = Len(Below[e]) /\ \A k \in DOMAIN Below[e] : Below[e][k] \in ready

RunFirst(t) ==
  /\ queue # <<>>
  /\ stack' = [stack EXCEPT ![t] = Append(@, Head(queue))]
  /\ queue' = Tail(queue)
  /\ UNCHANGED <<submitted, ready>>

(* A thread of the pool takes a task. *)
Work(t) == t # Runner /\ stack[t] = <<>> /\ RunFirst(t)

(* A coordinator's thread that waits executes a task, if there is one.  It    *)
(* read the futures before: by the time it takes the task the last one may be *)
(* ready, so that nothing is asked of them here.                              *)
ScheduleOne(t) ==
  /\ stack[t] # <<>>
  /\ Below[Inner(t)] # <<>> /\ submitted[Inner(t)] = Len(Below[Inner(t)])
  /\ RunFirst(t)

Return(t) ==
  /\ stack[t] # <<>>
  /\ AllReady(Inner(t))
  /\ ready' = ready \cup {Inner(t)}
  /\ stack' = [stack EXCEPT ![t] = Front(@)]
  /\ UNCHANGED <<queue, submitted>>

Next == \E t \in Thread : Submit(t) \/ Work(t) \/ ScheduleOne(t) \/ Return(t)

Spec == Init /\ [][Next]_vars
-----------------------------------------------------------------------------
Running == UNION {{stack[t][k] : k \in DOMAIN stack[t]} : t \in Thread}
Queued  == {queue[k] : k \in DOMAIN queue}

(* A task refers to the time that its coordinator was called with, and reads  *)
(* what that one routed: until it has returned its coordinator's call has not.*)
(* Each engine is called once, on one thread.                                 *)
CalledWithin ==
  /\ \A e \in Engine : \A k \in 1 .. submitted[e] :
       Below[e][k] \in Queued \cup Running => e \in Running
  /\ \A e \in ready : \A k \in DOMAIN Below[e] : Below[e][k] \in ready
  /\ ready \cap (Queued \cup Running) = {} /\ Queued \cap Running = {}
  /\ IsInjective(queue)
  /\ \A t, u \in Thread : \A j \in DOMAIN stack[t], k \in DOMAIN stack[u] :
       stack[t][j] = stack[u][k] => t = u /\ j = k

(* The engine's call returns, although each coordinator's waits on a thread   *)
(* of the pool, possibly under another coordinator's: no two wait for each    *)
(* other.                                                                     *)
Returns == <>(Root \in ready)

(* "when concurrent_for_each end threadpool queue is empty"                   *)
(* (concurrency_helpers.hpp, line 58).                                        *)
EmptyAtEnd == [][\A t \in Thread : Return(t) /\ Below[Inner(t)] # <<>> => queue = <<>>]_vars
=============================================================================
