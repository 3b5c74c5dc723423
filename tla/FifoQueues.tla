----------------------------- MODULE FifoQueues -----------------------------
(***************************************************************************)
(* What the task slots of a node promise to the messages scheduled on them *)
(* and the switch to the messages sent through it: each key (a slot, a     *)
(* destination node) has a queue that messages join at the end and leave   *)
(* at the front, one at a time, and no message is lost, repeated or        *)
(* overtaken.  Several queues may change in one step.                      *)
(***************************************************************************)
EXTENDS SequencesExt

CONSTANTS Key, Mssg

VARIABLE queue

Init == queue = [k \in Key |-> <<>>]

(* The queues once those of S have let their first message go. *)
Served(S) == [k \in Key |-> IF k \in S THEN Tail(queue[k]) ELSE queue[k]]

(* What joins the queue of k in a step where those of S let a message go. *)
Joins(S, k) == SubSeq(queue'[k], Len(Served(S)[k]) + 1, Len(queue'[k]))

(* The queues of S let a message go, and messages may join any queue, but  *)
(* not the one that they leave.                                            *)
Step(S) ==
  /\ \A k \in S : queue[k] # <<>>
  /\ DOMAIN queue' = Key
  /\ \A k \in Key : /\ IsPrefix(Served(S)[k], queue'[k])
                    /\ Range(Joins(S, k)) \subseteq Mssg
  /\ \A k \in S : Head(queue[k]) \notin Range(Joins(S, k))

Next == \E S \in SUBSET Key : Step(S)

Spec == Init /\ [][Next]_queue
=============================================================================
