------------------------------ MODULE CellSpace ------------------------------
(***************************************************************************)
(* Coupled cells (celldevs/coupled/cells_coupled.hpp) under the dynamic    *)
(* engine.  A step is one round of it: the cells that are due transmit,    *)
(* and they and those that receive something take their transition.  All   *)
(* links into a cell lead to one port, whose bag each link with messages   *)
(* replaces (DynamicEngine!RouteMessages): a cell receives the message of  *)
(* the last of its neighbors, in the order of their links, that transmits. *)
(***************************************************************************)
EXTENDS CellDevs, FiniteSets, Functions, SequencesExt

CONSTANTS
  Cell,
  Neighbors,  \* Neighbors[c]: the cells that c listens to
  Kinds,      \* the kinds of delay buffers
  Delays,     \* what output_delay may return
  Limit,      \* the simulation runs until this time
  MaxChanges  \* bound: the changes of state of a cell

(* Infinity is later than any time that a cell can schedule.                  *)
ASSUME CellAssumption ==
  /\ Cell # {} /\ Neighbors \in [Cell -> SUBSET Cell] /\ IsFiniteSet(Cell)
  /\ Kinds \subseteq {"transport", "hybrid", "inertial"}
  /\ Infinity \in Nat \ {0} /\ Limit \in 0 .. Infinity
  /\ \A d \in Delays : d = Infinity \/ (d \in Nat /\ Limit + d <= Infinity)

VARIABLES
  time,     \* the time of the last round
  order,    \* order[c]: the links of c, as the hash maps of couple_cells give them
  cell,     \* the cells
  changes,  \* history: when each cell scheduled what for when
  sent      \* history: when each cell transmitted what

vars == <<time, order, cell, changes, sent>>
-----------------------------------------------------------------------------
Init ==
  /\ time = 0
  /\ order \in [Cell -> UNION {Bijection(1 .. Cardinality(Neighbors[c]), Neighbors[c]) : c \in Cell}]
  /\ \A c \in Cell : Range(order[c]) = Neighbors[c]
  /\ \E kind \in [Cell -> Kinds], initial \in [Cell -> State] :
       /\ cell = [c \in Cell |-> NewCell(Neighbors[c], initial[c], kind[c])]
       /\ changes = [c \in Cell |-> <<[at |-> -1, time |-> 0, state |-> initial[c]]>>]
  /\ sent = [c \in Cell |-> <<>>]

NextEvent(c) == Later(cell[c].clock, TimeAdvance(cell[c]))

(* What arrives at cell c when the cells of due transmit. *)
Bag(c, due) ==
  LET sending == {i \in DOMAIN order[c] : order[c][i] \in due}
  IN  IF sending = {} THEN <<>> ELSE [n \in {order[c][Max(sending)]} |-> Output(cell[n])]

(* What a user's functions may return: a delay matters with a new state.      *)
Computed(c) == {[state |-> cell[c].current, delay |-> 0]}
                 \cup [state : State \ {cell[c].current}, delay : Delays]

Transitioned(c, t, due, comp) ==
  LET bag == Bag(c, due)
  IN  IF bag = <<>>
      THEN IF c \in due THEN InternalTransition(cell[c]) ELSE cell[c]
      ELSE IF c \in due THEN ConfluenceTransition(cell[c], bag, comp.state, comp.delay)
           ELSE ExternalTransition(cell[c], t - cell[c].clock, bag, comp.state, comp.delay)

Round ==
  LET t   == Min({NextEvent(c) : c \in Cell})
      due == {c \in Cell : NextEvent(c) = t}
      receiving == {c \in Cell : Bag(c, due) # <<>>}
  IN  /\ t < Limit
      /\ time' = t
      /\ UNCHANGED order
      /\ sent' = [c \in Cell |-> IF c \in due
                    THEN Append(sent[c], [time |-> t, state |-> Output(cell[c])]) ELSE sent[c]]
      /\ \E comp \in [receiving -> UNION {Computed(c) : c \in receiving}] :
           LET changing == {c \in receiving : comp[c].state # cell[c].current}
           IN  /\ \A c \in receiving : comp[c] \in Computed(c)
               /\ \A c \in changing : Len(changes[c]) < MaxChanges
               /\ cell' = [c \in Cell |-> Transitioned(c, t, due,
                             IF c \in receiving THEN comp[c] ELSE [state |-> NoState, delay |-> 0])]
               /\ changes' = [c \in Cell |-> IF c \in changing
                    THEN Append(changes[c], [at |-> t, time |-> Later(t, comp[c].delay),
                                             state |-> comp[c].state])
                    ELSE changes[c]]

Next == Round

Spec == Init /\ [][Next]_vars
-----------------------------------------------------------------------------
(* A cell's own clock and the time it leaves to its next transition agree     *)
(* with the engine's and with its buffer: it is never due too late or too     *)
(* early for what it has scheduled.                                           *)
ClockAgrees ==
  \A c \in Cell : /\ cell[c].clock <= time
                  /\ NextEvent(c) = NextTimeout(cell[c].buffer)
                  /\ NextEvent(c) >= time

(* The changes of a cell that are to be transmitted, by the kind of its       *)
(* buffer: a later change made before that time takes the place of one for    *)
(* the same time (transport), for its time or a later one (hybrid), or any    *)
(* (inertial).                                                                *)
Replaces(kind, t, u) == \/ kind = "transport" /\ t = u
                        \/ kind = "hybrid" /\ t <= u
                        \/ kind = "inertial"

Superseded(kind, ch, k) ==
  \E j \in k + 1 .. Len(ch) :
    ch[j].at < ch[k].time /\ Replaces(kind, ch[j].time, ch[k].time)

(* A cell transmits its changes of state, each at its time, except those that *)
(* its kind of delay lets later ones replace: however changes and             *)
(* transmissions follow each other or coincide.                               *)
TransmitsChanges ==
  \A c \in Cell : \A s \in State, t \in 0 .. time - 1 :
    Cardinality({i \in DOMAIN sent[c] : sent[c][i] = [time |-> t, state |-> s]})
      = Cardinality({k \in DOMAIN changes[c] :
                       /\ changes[c][k].time = t /\ changes[c][k].state = s
                       /\ ~Superseded(cell[c].buffer.kind, changes[c], k)})

(* "At t = 0, every cell communicates its state to its neighbors" (cell.hpp,  *)
(* line 112), and then its changes: a cell knows of each neighbor the state   *)
(* that it transmitted last.                                                  *)
KnowsNeighbors ==
  \A c \in Cell : \A n \in Neighbors[c] :
    sent[n] # <<>> => cell[c].neighbors[n] = Last(sent[n]).state
=============================================================================
