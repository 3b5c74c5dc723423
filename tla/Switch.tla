------------------------------- MODULE Switch -------------------------------
(***************************************************************************)
(* The network switch (atomics/switch.hpp): a buffer per destination node, *)
(* of which every transmission sends the first message, and the DEVS       *)
(* functions of the model as operators on its state.  A bag of inputs is   *)
(* given by destination, in the order of the ports; a destination that is  *)
(* not in the map port_buffers_ has an empty buffer.                       *)
(***************************************************************************)
EXTENDS Integers, Sequences, FiniteSets

CONSTANTS
  Node,      \* the nodes, which are the switch's ports
  CountMod   \* the number of values of the counter of pending sends (uint8_t)

ASSUME CountModAssumption == CountMod \in Nat \ {0}

(***************************************************************************)
(* buffers[n]   : messages waiting for node n                              *)
(* active       : nodes whose buffer has the flag active                   *)
(* transmitting : transmitting_                                            *)
(* send_time    : time left until the next departure                       *)
(***************************************************************************)
NewSwitch ==
  [buffers |-> [n \in Node |-> <<>>], active |-> {}, transmitting |-> FALSE, send_time |-> 0]

SwitchType(Mssg) ==
  [buffers : [Node -> Seq(Mssg)], active : SUBSET Node, transmitting : BOOLEAN, send_time : Nat]

Waiting(sw) == {n \in Node : sw.buffers[n] # <<>>}

(* Output: the first message of every active buffer. *)
Emitted(sw) == [n \in sw.active |-> Head(sw.buffers[n])]

(* Faulty variant: the buffers stay active after their output. *)
AfterOutputStillActive(sw) ==
  [sw EXCEPT !.buffers = [n \in Node |-> IF n \in sw.active THEN Tail(sw.buffers[n]) ELSE sw.buffers[n]]]

(* output() is const, but it takes the messages out of the buffers. *)
AfterOutput(sw) ==
  [ buffers      |-> [n \in Node |-> IF n \in sw.active THEN Tail(sw.buffers[n]) ELSE sw.buffers[n]],
    active       |-> {},
    transmitting |-> sw.transmitting,
    send_time    |-> sw.send_time ]

PendingSendsOneBit(sw) == Cardinality(Waiting(sw)) % 2   \* faulty variant: a narrower counter

PendingSends(sw) == Cardinality(Waiting(sw)) % CountMod

(* Faulty variant: only the first buffer with messages is activated. *)
InternalTransitionFirst(sw, lapse) ==
  [ buffers      |-> sw.buffers,
    active       |-> sw.active \cup {n \in Waiting(sw) : \A k \in Waiting(sw) : n <= k},
    transmitting |-> Waiting(sw) # {},
    send_time    |-> lapse ]

InternalTransition(sw, lapse) ==
  LET sends == PendingSends(sw) # 0
  IN  [ buffers      |-> sw.buffers,
        active       |-> sw.active \cup Waiting(sw),
        transmitting |-> sends,
        send_time    |-> IF sends THEN lapse ELSE sw.send_time ]

(* The buffers that inputs join, and those active afterwards.  Faulty        *)
(* variant: they join in front.                                             *)
QueuedInFront(sw, bag) == [n \in Node |-> bag[n] \o sw.buffers[n]]
Queued(sw, bag)        == [n \in Node |-> sw.buffers[n] \o bag[n]]

Activated(sw, bag) ==
  IF sw.transmitting THEN sw.active ELSE sw.active \cup {n \in Node : bag[n] # <<>>}

(* Inputs wait for the next transmission if there is one under way; else   *)
(* their buffers are activated and a transmission starts.                  *)
ExternalTransition(sw, bag, e, lapse) ==
  [ buffers      |-> Queued(sw, bag),
    active       |-> Activated(sw, bag),
    transmitting |-> TRUE,
    send_time    |-> IF sw.transmitting THEN sw.send_time - e ELSE lapse ]

ConfluenceTransition(sw, bag, lapse, lapse2) ==
  ExternalTransition(InternalTransition(sw, lapse), bag, 0, lapse2)
=============================================================================
