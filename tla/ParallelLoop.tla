----------------------------- MODULE ParallelLoop -----------------------------
(***************************************************************************)
(* cpu_parallel_for_each (engine/parallel_helpers.hpp): a team of threads  *)
(* shares the submodels of a coordinator out, each thread a piece by its   *)
(* number.  OpenMP decides on the size of the team.                        *)
(***************************************************************************)
EXTENDS Integers

CONSTANTS
  MaxElements,  \* bound: the elements of a loop
  MaxThreads    \* bound: the threads that a runner asks for

VARIABLES
  n,              \* the elements
  thread_number,  \* the threads that are asked for, after the function's first test
  team,           \* the threads that OpenMP grants
  at,             \* at[t]: the element that thread t calls the function for next
  called          \* history: how often it was called for each

vars == <<n, thread_number, team, at, called>>

Threads(size, asked) == IF size < asked THEN size ELSE asked

(* The piece of a thread.  Faulty variant: the last one ends like the others. *)
First(t)    == (n \div thread_number) * t
EndEqual(t) == First(t + 1)
End(t)      == IF t = thread_number - 1 THEN n ELSE First(t + 1)
-----------------------------------------------------------------------------
(* A coordinator has a submodel; without one the code divides by zero.        *)
Init ==
  /\ n \in 1 .. MaxElements
  /\ thread_number \in {Threads(n, asked) : asked \in 1 .. MaxThreads}
  /\ team \in 1 .. thread_number
  /\ at = [t \in 0 .. team - 1 |-> First(t)]
  /\ called = [k \in 0 .. n - 1 |-> 0]

Call(t) ==
  /\ at[t] < End(t)
  /\ called' = [called EXCEPT ![at[t]] = @ + 1]
  /\ at' = [at EXCEPT ![t] = @ + 1]
  /\ UNCHANGED <<n, thread_number, team>>

Next == \E t \in DOMAIN at : Call(t)

Spec == Init /\ [][Next]_vars
-----------------------------------------------------------------------------
Finished == \A t \in DOMAIN at : at[t] = End(t)

(* When the loop ends, it has called the function once for every element, by  *)
(* whatever threads there are, and it never calls it twice.                   *)
EachOnce ==
  /\ \A k \in DOMAIN called : called[k] <= 1
  /\ Finished /\ team = thread_number => \A k \in DOMAIN called : called[k] = 1

(* The same with a smaller team, such as the one of a loop within another.    *)
EachOnceBySmallerTeam == Finished => \A k \in DOMAIN called : called[k] = 1
=============================================================================
