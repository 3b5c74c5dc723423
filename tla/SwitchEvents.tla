---------------------------- MODULE SwitchEvents ----------------------------
(***************************************************************************)
(* The switch under the events that the simulation engine gives it: the    *)
(* end of a transmission (its output, then its internal transition), the   *)
(* arrival of messages during or between transmissions, and both at the    *)
(* same instant.                                                           *)
(***************************************************************************)
EXTENDS Switch

CONSTANTS
  Mssg,    \* messages
  Bags,    \* bags of inputs, by destination
  Lapse    \* transmission times

ASSUME SwitchConstants ==
  /\ Bags \subseteq [Node -> Seq(Mssg)]
  /\ \A bag \in Bags : \E n \in Node : bag[n] # <<>>
  /\ Lapse \subseteq Nat

VARIABLE sw

(* The messages of a queue, and those of several. *)
In(s) == {s[i] : i \in 1 .. Len(s)}
Among(queues) == UNION {In(queues[n]) : n \in Node}

(* Bound: a message that is in the switch does not arrive once more. *)
Fresh(bag) == Among(bag) \cap Among(sw.buffers) = {}
-----------------------------------------------------------------------------
SwitchInit == sw = NewSwitch

(* The time advance is over and nothing arrives. *)
Transmit(lapse) ==
  /\ sw.transmitting
  /\ sw' = InternalTransition(AfterOutput(sw), lapse)

(* Messages arrive before the end of the transmission, if there is one. *)
Receive(bag, e, lapse) ==
  /\ Fresh(bag)
  /\ IF sw.transmitting THEN e < sw.send_time ELSE e = 0
  /\ sw' = ExternalTransition(sw, bag, e, lapse)

(* Messages arrive just when the transmission ends. *)
TransmitAndReceive(bag, lapse, lapse2) ==
  /\ sw.transmitting
  /\ Fresh(bag)
  /\ sw' = ConfluenceTransition(AfterOutput(sw), bag, lapse, lapse2)

EndTransmission ==
  \/ \E lapse \in Lapse : Transmit(lapse)
  \/ \E bag \in Bags, lapse, lapse2 \in Lapse : TransmitAndReceive(bag, lapse, lapse2)

SwitchNext ==
  \/ EndTransmission
  \/ \E bag \in Bags, lapse \in Lapse : \E e \in 0 .. sw.send_time : Receive(bag, e, lapse)

(* The engine's clock reaches the end of every transmission: an arrival    *)
(* only shortens what is left of it.                                       *)
Fairness == WF_sw(EndTransmission)

SwitchSpec == SwitchInit /\ [][SwitchNext]_sw

FairSpec == SwitchSpec /\ Fairness
-----------------------------------------------------------------------------
SwitchTypeOK == sw \in SwitchType(Mssg)

(* output() takes the first message of every active buffer: none is empty. *)
ActiveWaiting == sw.active \subseteq Waiting(sw)

(* "Are not there pending sends?" (line 112): the switch passivates only   *)
(* with nothing left to send, so a message is never left behind in it.     *)
IdleEmpty == ~sw.transmitting => Waiting(sw) = {}

(* A transmission under way has something to send. *)
TransmittingActive == sw.transmitting <=> sw.active # {}

SwitchInv == ActiveWaiting /\ IdleEmpty /\ TransmittingActive

(* Every message that enters the switch leaves it, whatever arrives for    *)
(* its destination and for others.                                         *)
EveryMessageLeaves ==
  \A m \in Mssg, n \in Node : m \in In(sw.buffers[n]) ~> m \notin In(sw.buffers[n])

(* Every destination gets its messages in the order they arrived. *)
Links == INSTANCE FifoQueues WITH Key <- Node, queue <- sw.buffers

InOrder == Links!Spec
=============================================================================
