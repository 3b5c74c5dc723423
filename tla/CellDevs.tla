------------------------------ MODULE CellDevs ------------------------------
(***************************************************************************)
(* A cell of Cell-DEVS (celldevs/cell/cell.hpp) and its output delay       *)
(* buffer (celldevs/delay_buffer), as operators on the cell's state.  What *)
(* local_computation and output_delay return, which a user writes, are     *)
(* arguments.                                                              *)
(***************************************************************************)
EXTENDS Integers, Sequences, FiniteSetsExt

CONSTANTS
  State,     \* states of cells
  NoState,   \* S(), the state of one who has not been heard of
  Infinity   \* later than any time

Later(time, delay)  == IF Infinity \in {time, delay} THEN Infinity ELSE time + delay
TimeLeft(until, now) == IF until = Infinity THEN Infinity ELSE until - now
-----------------------------------------------------------------------------
(***************************************************************************)
(* A buffer has a kind, the last state that was (or, in an inertial one,   *)
(* is to be) transmitted, and what is scheduled: a function from times     *)
(* (transport), a sequence in the order of times (hybrid), or a time.      *)
(***************************************************************************)
NewBuffer(kind) ==
  [ kind |-> kind, last |-> NoState,
    scheduled |-> IF kind = "inertial" THEN Infinity ELSE <<>> ]

TransportAdd(b, state, time) ==
  [b EXCEPT !.scheduled = [t \in DOMAIN b.scheduled \cup {time} |->
                            IF t = time THEN state ELSE b.scheduled[t]]]

(* What is scheduled last is removed as long as it is not before the new     *)
(* time.  Faulty variant: as long as it is after it.                          *)
HybridAddAfter(b, state, time) ==
  LET kept == Max({0} \cup {i \in DOMAIN b.scheduled : b.scheduled[i].time <= time})
  IN  [b EXCEPT !.scheduled = Append(SubSeq(@, 1, kept), [time |-> time, state |-> state])]
HybridAdd(b, state, time) ==
  LET kept == Max({0} \cup {i \in DOMAIN b.scheduled : b.scheduled[i].time < time})
  IN  [b EXCEPT !.scheduled = Append(SubSeq(@, 1, kept), [time |-> time, state |-> state])]

InertialAdd(b, state, time) == [b EXCEPT !.last = state, !.scheduled = time]

AddToBuffer(b, state, time) ==
  IF b.kind = "transport"   THEN TransportAdd(b, state, time)
  ELSE IF b.kind = "hybrid" THEN HybridAdd(b, state, time)
  ELSE                           InertialAdd(b, state, time)

(* An inertial buffer has always something scheduled, maybe for never.        *)
Idle(b) == b.kind # "inertial" /\ b.scheduled = <<>>

NextTimeout(b) ==
  IF Idle(b)                   THEN Infinity
  ELSE IF b.kind = "transport" THEN Min(DOMAIN b.scheduled)
  ELSE IF b.kind = "hybrid"    THEN b.scheduled[1].time
  ELSE                              b.scheduled

NextState(b) ==
  IF Idle(b)                   THEN b.last
  ELSE IF b.kind = "transport" THEN b.scheduled[NextTimeout(b)]
  ELSE IF b.kind = "hybrid"    THEN b.scheduled[1].state
  ELSE                              b.last

PopBuffer(b) ==
  IF Idle(b) THEN b
  ELSE [b EXCEPT !.last      = NextState(b),
                 !.scheduled =
                   IF b.kind = "transport"
                   THEN [t \in DOMAIN b.scheduled \ {NextTimeout(b)} |-> b.scheduled[t]]
                   ELSE IF b.kind = "hybrid" THEN Tail(b.scheduled)
                   ELSE Infinity]
-----------------------------------------------------------------------------
(***************************************************************************)
(* The state of a cell: simulation_clock, next_internal, current_state,    *)
(* neighbors_state and buffer.  A cell starts by scheduling the            *)
(* transmission of its initial state.                                      *)
(***************************************************************************)
NewCell(neighbors, initial, kind) ==
  [ clock         |-> 0,
    next_internal |-> 0,
    current       |-> initial,
    neighbors     |-> [n \in neighbors |-> NoState],
    buffer        |-> AddToBuffer(NewBuffer(kind), initial, 0) ]

TimeAdvance(c) == c.next_internal

Output(c) == NextState(c.buffer)

InternalTransition(c) ==
  LET buffer == PopBuffer(c.buffer)
      clock  == c.clock + TimeAdvance(c)
  IN  [c EXCEPT !.buffer = buffer, !.clock = clock,
                !.next_internal = TimeLeft(NextTimeout(buffer), clock)]

(* The messages of a bag are from senders, a function to their states; those *)
(* of a sender that is no neighbor are skipped.  Faulty variant: a sender    *)
(* that has been heard of already is skipped too.                            *)
RefreshedOnce(neighbors, bag) ==
  [n \in DOMAIN neighbors |->
    IF n \in DOMAIN bag /\ neighbors[n] = NoState THEN bag[n] ELSE neighbors[n]]

Refreshed(neighbors, bag) ==
  [n \in DOMAIN neighbors |-> IF n \in DOMAIN bag THEN bag[n] ELSE neighbors[n]]

ExternalTransition(c, e, bag, next, delay) ==
  LET clock     == c.clock + e
      scheduled == AddToBuffer(c.buffer, next, Later(clock, delay))
      changed   == next # c.current
      buffer    == IF changed THEN scheduled ELSE c.buffer
  IN  [ clock         |-> clock,
        next_internal |-> IF changed THEN TimeLeft(NextTimeout(buffer), clock)
                          ELSE TimeLeft(c.next_internal, e),
        current       |-> next,
        neighbors     |-> Refreshed(c.neighbors, bag),
        buffer        |-> buffer ]

ConfluenceTransition(c, bag, next, delay) ==
  ExternalTransition(InternalTransition(c), 0, bag, next, delay)
=============================================================================
