---------------------------- MODULE StaticEngine ----------------------------
(***************************************************************************)
(* The engine for models that are known at compile time (engine/           *)
(* pdevs_runner.hpp, pdevs_coordinator.hpp, pdevs_simulator.hpp and        *)
(* pdevs_engine_helpers.hpp).  It runs in one thread, so that a call of    *)
(* the runner, with all the calls that it makes down the tree, is a step.  *)
(* A box is a tuple of bags, one for each port.                            *)
(***************************************************************************)
EXTENDS PdevsNetwork

VARIABLES
  phase,      \* what the runner does next
  next_event, \* the runner's _next
  now,        \* history: the time of the last round
  last,       \* _last, _next, _inbox and _outbox of each model
  next,
  inbox,
  outbox,
  failed,     \* an engine has thrown
  emitted,    \* history: what each model put out in this round
  moved,      \* history: the models that took a transition in this round
  got         \* history: the last transition of each model, as it was called

vars == <<phase, next_event, now, last, next, inbox, outbox, failed, emitted, moved, got>>

NoCall == [kind |-> "none"]
InBags(m)  == [p \in InPort[m] |-> NoMessages]
OutBags(m) == [p \in OutPort[m] |-> NoMessages]

(* A coordinator's next event, from those of the simulators below it.         *)
MinNext(atomicNext) ==
  LET n[m \in Model] ==
        IF m \in Atomic THEN atomicNext[m] ELSE Least({n[s] : s \in Children[m]})
  IN  n

Init ==
  /\ \E ta \in [Atomic -> TimeAdvances] : next = MinNext(ta)
  /\ last = [m \in Model |-> 0]
  /\ phase = "ready"
  /\ next_event = next[Top]
  /\ now = 0
  /\ inbox = [m \in Model |-> InBags(m)]
  /\ outbox = [m \in Model |-> OutBags(m)]
  /\ failed = FALSE
  /\ emitted = <<>>
  /\ moved = {}
  /\ got = [a \in Atomic |-> NoCall]
-----------------------------------------------------------------------------
(* The couplings of c into port p, from the boxes of c's submodels or of c.   *)
FromLinks(links, boxes, to, p) ==
  [x \in Message |->
     Brought(links, x, LAMBDA l : l.to = to /\ l.in = p, LAMBDA l : boxes[l.from][l.out])]

(* The models whose collect_outputs is called: a coordinator without an event *)
(* now calls none of its own.                                                 *)
CollectCalled ==
  LET called[m \in Model] ==
        m = Top \/ (called[Parent(m)] /\ next[Parent(m)] = now)
  IN  {m \in Model : called[m]}

CollectedBoxes(out) ==
  LET box[m \in Model] ==
        CASE m \notin CollectCalled -> outbox[m]
          [] m \in CollectCalled /\ m \in Atomic ->
               IF next[m] = now THEN [p \in OutPort[m] |-> Emission(m, out[m], p)] ELSE OutBags(m)
          [] OTHER ->
               IF next[m] = now
               THEN LET subs == [s \in Children[m] |-> box[s]]
                    IN  [p \in OutPort[m] |-> FromLinks(EOC[m], subs, m, p)]
               ELSE outbox[m]
  IN  box

CollectOutputs ==
  /\ phase = "collect"
  /\ ~failed
  /\ phase' = "advance"
  /\ failed' = (\E m \in CollectCalled : next[m] < now)
  /\ LET Emits == {a \in CollectCalled \cap Atomic : next[a] = now}
     IN  \E out \in [Emits -> UNION {Outputs(a) : a \in Atomic}] :
           /\ \A a \in Emits : out[a] \in Outputs(a)
           /\ outbox' = CollectedBoxes(out)
           /\ emitted' = out
  /\ inbox' = [m \in Model |-> IF m \in CollectCalled \cap Atomic THEN InBags(m) ELSE inbox[m]]
  /\ UNCHANGED <<next_event, now, last, next, moved, got>>

(* Every model's inbox when its advance_simulation is called: what its        *)
(* coordinator has routed to it by IC and EIC, whose inbox was filled first.  *)
RoutedBoxes ==
  LET box[m \in Model] ==
        IF m = Top THEN inbox[m]
        ELSE LET c == Parent(m)
             IN  [p \in InPort[m] |->
                    Joined(inbox[m][p],
                           Joined(FromLinks(IC[c], outbox, m, p),
                                  FromLinks(EIC[c], [s \in {c} |-> box[c]], m, p)))]
  IN  box

(* Faulty variant: one empty bag is enough. *)
SomeBagEmpty(box) == \E p \in DOMAIN box : box[p] = NoMessages
AllBagsEmpty(box) == \A p \in DOMAIN box : box[p] = NoMessages

AdvanceSimulation ==
  /\ phase = "advance"
  /\ ~failed
  /\ phase' = "next"
  /\ failed' = (\E m \in Model : next[m] < now \/ now < last[m])
  /\ inbox' = [m \in Model |-> InBags(m)]
  /\ outbox' = [m \in Model |-> OutBags(m)]
  /\ UNCHANGED <<next_event, now, emitted>>
  /\ LET box   == RoutedBoxes
         input == {a \in Atomic : ~AllBagsEmpty(box[a])}
         moves == input \cup {a \in Atomic : next[a] = now}
     IN  /\ moved' = moves
         /\ last' = [m \in Model |-> IF m \in Coupled \cup moves THEN now ELSE last[m]]
         /\ got' = [a \in Atomic |->
              CASE a \notin moves -> got[a]
                [] a \in moves \ input -> [kind |-> "internal"]
                [] OTHER -> [kind |-> IF next[a] = now THEN "confluence" ELSE "external",
                             e    |-> now - last[a],
                             bags |-> box[a]]]
         /\ \E ta \in [moves -> TimeAdvances] :
              next' = MinNext([a \in Atomic |-> IF a \in moves THEN After(now, ta[a]) ELSE next[a]])

(* The loop of run_until. *)
StartRound ==
  /\ phase = "ready"
  /\ next_event < Limit
  /\ phase' = "collect"
  /\ now' = next_event
  /\ UNCHANGED <<next_event, last, next, inbox, outbox, failed, emitted, moved, got>>

FinishRound ==
  /\ phase = "next"
  /\ ~failed
  /\ phase' = "ready"
  /\ next_event' = next[Top]
  /\ emitted' = <<>>
  /\ moved' = {}
  /\ UNCHANGED <<now, last, next, inbox, outbox, failed, got>>

Next == StartRound \/ CollectOutputs \/ AdvanceSimulation \/ FinishRound

Spec == Init /\ [][Next]_vars
-----------------------------------------------------------------------------
(* The std::domain_error of the engines is never thrown.                      *)
NeverThrows == ~failed

(* The static engine does to the atomic models what a PDEVS simulator         *)
(* promises, also when several links lead to one port.                        *)
Flat == INSTANCE FlatEngine WITH
  running <- phase # "ready",
  t       <- now,
  last    <- [a \in Atomic |-> last[a]],
  next    <- [a \in Atomic |-> next[a]]

ImplementsFlat == Flat!FlatSpec
=============================================================================
