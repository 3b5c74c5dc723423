--------------------------- MODULE DynamicEngine ---------------------------
(***************************************************************************)
(* The dynamic engine (engine/pdevs_dynamic_*.hpp): a runner, a tree of    *)
(* coordinators and simulators, and the boxes that messages are put in.    *)
(* A call is a step of its own, and the calls that a coordinator makes on  *)
(* its submodels come in any order: the vector's when the engine runs in   *)
(* one thread, any interleaving with CADMIUM_EXECUTE_CONCURRENT or         *)
(* CPU_PARALLEL.  A box maps the ports that have a bag to it.              *)
(***************************************************************************)
EXTENDS PdevsNetwork

VARIABLES
  phase,      \* "ready" (between rounds), "collect", "advance" or "finished"
  next_event, \* the runner's _next
  above_time, \* the time of the round, which run_until returns
  stage,      \* stage[m]: m's call of this phase is "todo", "running", "done"
  last,       \* _last, _next, _inbox and _outbox of each model
  next,
  inbox,
  outbox,
  failed,     \* an engine has thrown
  emitted,    \* history: what each model put out in this round
  moved,      \* history: the models that took a transition in this round
  got         \* history: the last transition of each model, as it was called

boxes   == <<inbox, outbox>>
history == <<emitted, moved, got>>
vars    == <<phase, next_event, above_time, stage, last, next, boxes, failed, history>>

NoBox == <<>>
NoCall == [kind |-> "none"]

MinNextInSubcoordinators(nextOf, c) == Least({nextOf[s] : s \in Children[c]})

(* The next event of each model when it is initialized at time zero, the      *)
(* submodels of a coordinator before itself, and the atomic models have the   *)
(* time advances ta.                                                          *)
InitSubcoordinators(ta) ==
  LET n[m \in Model] == IF m \in Atomic THEN ta[m] ELSE MinNextInSubcoordinators(n, m)
  IN  n

Init ==
  /\ \E ta \in [Atomic -> TimeAdvances] : next = InitSubcoordinators(ta)
  /\ last = [m \in Model |-> 0]
  /\ phase = "ready"
  /\ next_event = next[Top]
  /\ above_time = 0
  /\ stage = [m \in Model |-> "todo"]
  /\ inbox = [m \in Model |-> NoBox]
  /\ outbox = [m \in Model |-> NoBox]
  /\ failed = FALSE
  /\ emitted = <<>>
  /\ moved = {}
  /\ got = [a \in Atomic |-> NoCall]
-----------------------------------------------------------------------------
(***************************************************************************)
(* A link: messages for a port that has a bag are added to it, and then,   *)
(* the return statement being commented out, go to a new bag as well,      *)
(* which takes the place of the old one.                                   *)
(***************************************************************************)
PassMessages(from, to, l) == [to EXCEPT ![l.in] = Joined(@, from[l.out])]

PassToNewBag(from, to, l) ==
  [p \in DOMAIN to \cup {l.in} |-> IF p = l.in THEN from[l.out] ELSE to[p]]

(* Faulty variant: a bag without messages is passed as well. *)
RouteMessagesAlways(from, to, l) ==
  IF l.out \in DOMAIN from THEN PassToNewBag(from, to, l) ELSE to

RouteMessages(from, to, l) ==
  LET passed == IF l.in \in DOMAIN to THEN PassMessages(from, to, l) ELSE to
  IN  CASE l.out \notin DOMAIN from      -> to
        [] l.out \in DOMAIN from
           /\ from[l.out] # NoMessages     -> PassToNewBag(from, passed, l)
        [] OTHER                         -> passed

(* The links of a coupling one after the other, each of which takes messages  *)
(* from a box of from to one of to.  Faulty variant: the first one only.      *)
RouteFirst(links, from, to) ==
  IF links = <<>> THEN to
  ELSE [to EXCEPT ![links[1].to] = RouteMessages(from[links[1].from], @, links[1])]

Route(links, from, to) ==
  LET boxesAfter[k \in 0 .. Len(links)] ==
        IF k = 0 THEN to
        ELSE [boxesAfter[k - 1] EXCEPT
                ![links[k].to] = RouteMessages(from[links[k].from], @, links[k])]
  IN  boxesAfter[Len(links)]

CollectMessagesByEoc(c) == Route(EOC[c], outbox, [d \in {c} |-> NoBox])[c]
RouteIC(c, ins)         == Route(IC[c], outbox, ins)
RouteEIC(c, ins)        == Route(EIC[c], inbox, ins)

(* The bags that a transition is called with: all ports, from those that     *)
(* have one.                                                                  *)
BagsFromMap(a, box) == [p \in InPort[a] |-> IF p \in DOMAIN box THEN box[p] ELSE NoMessages]
MapFromBags(a, out) == [p \in OutPort[a] |-> Emission(a, out, p)]
-----------------------------------------------------------------------------
(* Model m is being called in phase p, at time above_time.                    *)
Called(m, p) ==
  /\ phase = p
  /\ ~failed
  /\ stage[m] = "todo"
  /\ m # Top => stage[Parent(m)] = "running"

StageOf(m, s) == stage' = [stage EXCEPT ![m] = s]

Throw == failed' = TRUE /\ UNCHANGED <<stage, last, next, history>>

CollectOutputs(a, out) ==
  /\ Called(a, "collect")
  /\ inbox' = [inbox EXCEPT ![a] = NoBox]
  /\ UNCHANGED <<phase, next_event, above_time>>
  /\ \/ next[a] < above_time /\ Throw /\ UNCHANGED outbox
     \/ /\ next[a] >= above_time
        /\ StageOf(a, "done")
        /\ IF next[a] = above_time
           THEN /\ outbox' = [outbox EXCEPT ![a] = MapFromBags(a, out)]
                /\ emitted' = [b \in DOMAIN emitted \cup {a} |-> IF b = a THEN out ELSE emitted[b]]
           ELSE outbox' = [outbox EXCEPT ![a] = NoBox] /\ UNCHANGED emitted
        /\ UNCHANGED <<last, next, failed, moved, got>>

(* A coordinator without an event now does not call its submodels. *)
CoordinateCollect(c) ==
  /\ Called(c, "collect")
  /\ UNCHANGED <<phase, next_event, above_time>>
  /\ \/ next[c] < above_time /\ Throw /\ UNCHANGED boxes
     \/ /\ next[c] >= above_time
        /\ StageOf(c, IF next[c] = above_time THEN "running" ELSE "done")
        /\ UNCHANGED <<last, next, boxes, failed, history>>

(* The helpers call every submodel and return when all calls have.  Faulty   *)
(* variant: when all have put something out.                                  *)
AllDoneWithOutput(c) ==
  stage[c] = "running" /\ \A s \in Children[c] : stage[s] = "done" /\ outbox[s] # NoBox
AllDone(c) == stage[c] = "running" /\ \A s \in Children[c] : stage[s] = "done"

FinishCollect(c) ==
  /\ phase = "collect"
  /\ ~failed
  /\ AllDone(c)
  /\ StageOf(c, "done")
  /\ outbox' = [outbox EXCEPT ![c] = CollectMessagesByEoc(c)]
  /\ UNCHANGED <<phase, next_event, above_time, last, next, inbox, failed, history>>

-----------------------------------------------------------------------------
CoordinateAdvance(c) ==
  /\ Called(c, "advance")
  /\ outbox' = [outbox EXCEPT ![c] = NoBox]
  /\ UNCHANGED <<phase, next_event, above_time>>
  /\ \/ (next[c] < above_time \/ above_time < last[c]) /\ Throw /\ UNCHANGED inbox
     \/ /\ next[c] >= above_time
        /\ above_time >= last[c]
        /\ StageOf(c, "running")
        /\ inbox' = RouteEIC(c, RouteIC(c, inbox))
        /\ UNCHANGED <<last, next, failed, history>>

Transitioned(a, call, ta) ==
  /\ last' = [last EXCEPT ![a] = above_time]
  /\ next' = [next EXCEPT ![a] = After(above_time, ta)]
  /\ moved' = moved \cup {a}
  /\ got' = [got EXCEPT ![a] = call]

AdvanceSimulation(a, ta) ==
  /\ Called(a, "advance")
  /\ outbox' = [outbox EXCEPT ![a] = NoBox]
  /\ UNCHANGED <<phase, next_event, above_time>>
  /\ \/ (above_time < last[a] \/ next[a] < above_time) /\ Throw /\ UNCHANGED inbox
     \/ /\ above_time >= last[a]
        /\ next[a] >= above_time
        /\ StageOf(a, "done")
        /\ \/ /\ inbox[a] # NoBox
              /\ Transitioned(a,
                   [kind |-> IF next[a] = above_time THEN "confluence" ELSE "external",
                    e    |-> above_time - last[a],
                    bags |-> BagsFromMap(a, inbox[a])], ta)
              /\ inbox' = [inbox EXCEPT ![a] = NoBox]
           \/ /\ inbox[a] = NoBox
              /\ next[a] = above_time
              /\ Transitioned(a, [kind |-> "internal"], ta)
              /\ UNCHANGED inbox
           \/ /\ inbox[a] = NoBox
              /\ next[a] # above_time
              /\ UNCHANGED <<inbox, last, next, moved, got>>
        /\ UNCHANGED <<failed, emitted>>

(* Faulty variant: a coordinator that had no event keeps its next one. *)
FinishAdvanceIfImminent(c) ==
  /\ phase = "advance"
  /\ ~failed
  /\ AllDone(c)
  /\ StageOf(c, "done")
  /\ last' = [last EXCEPT ![c] = above_time]
  /\ next' = [next EXCEPT ![c] = IF @ = above_time THEN MinNextInSubcoordinators(next, c) ELSE @]
  /\ inbox' = [inbox EXCEPT ![c] = NoBox]
  /\ UNCHANGED <<phase, next_event, above_time, outbox, failed, history>>

FinishAdvance(c) ==
  /\ phase = "advance"
  /\ ~failed
  /\ AllDone(c)
  /\ StageOf(c, "done")
  /\ last' = [last EXCEPT ![c] = above_time]
  /\ next' = [next EXCEPT ![c] = MinNextInSubcoordinators(next, c)]
  /\ inbox' = [inbox EXCEPT ![c] = NoBox]
  /\ UNCHANGED <<phase, next_event, above_time, outbox, failed, history>>

-----------------------------------------------------------------------------
(* The loop of run_until. *)
NewPhase(p) == phase' = p /\ stage' = [m \in Model |-> "todo"]

StartRound ==
  /\ phase = "ready"
  /\ next_event < Limit
  /\ NewPhase("collect")
  /\ above_time' = next_event
  /\ UNCHANGED <<next_event, last, next, boxes, failed, history>>

StartAdvance ==
  /\ phase = "collect"
  /\ stage[Top] = "done"
  /\ NewPhase("advance")
  /\ UNCHANGED <<next_event, above_time, last, next, boxes, failed, history>>

FinishRound ==
  /\ phase = "advance"
  /\ stage[Top] = "done"
  /\ NewPhase("ready")
  /\ next_event' = next[Top]
  /\ emitted' = <<>>
  /\ moved' = {}
  /\ UNCHANGED <<above_time, last, next, boxes, failed, got>>

Return ==
  /\ phase = "ready"
  /\ next_event >= Limit
  /\ NewPhase("finished")
  /\ UNCHANGED <<next_event, above_time, last, next, boxes, failed, history>>

Next ==
  \/ StartRound \/ StartAdvance \/ FinishRound \/ Return
  \/ \E c \in Coupled : CoordinateCollect(c) \/ FinishCollect(c)
                        \/ CoordinateAdvance(c) \/ FinishAdvance(c)
  \/ \E a \in Atomic :
       \/ \E out \in Outputs(a) : CollectOutputs(a, out)
       \/ \E ta \in TimeAdvances : AdvanceSimulation(a, ta)

Spec == Init /\ [][Next]_vars

(* Every call returns and the runner goes on: nothing in the engine waits but *)
(* a coordinator for its submodels.                                           *)
FairSpec == Spec /\ WF_vars(Next)
-----------------------------------------------------------------------------
(* The std::domain_error of collect_outputs and advance_simulation is never  *)
(* thrown: no engine is asked for a time beyond its next event.               *)
NeverThrows == ~failed

(* Between rounds a coordinator's _next is the least of its submodels', at    *)
(* every level: a submodel that was made to move by a message, and has an     *)
(* earlier event now, is known up to the runner.                              *)
NextIsLeast ==
  phase = "ready" =>
    /\ \A c \in Coupled : next[c] = Least({next[s] : s \in Children[c]})
    /\ next_event = next[Top]

(* A round leaves no message behind in a box, where the next round would find *)
(* it; and an inbox has no bag without messages, since advance_simulation     *)
(* asks only whether there is a bag.                                          *)
BoxesEmptied ==
  /\ phase = "ready" => \A m \in Model : inbox[m] = NoBox /\ outbox[m] = NoBox
  /\ \A m \in Model : \A p \in DOMAIN inbox[m] : inbox[m][p] # NoMessages

(* The engine does to the atomic models what a PDEVS simulator promises: the  *)
(* hierarchy, the order of the calls and the boxes cannot be seen.            *)
Flat == INSTANCE FlatEngine WITH
  running <- phase \in {"collect", "advance"},
  t       <- above_time,
  last    <- [a \in Atomic |-> last[a]],
  next    <- [a \in Atomic |-> next[a]]

ImplementsFlat == Flat!FlatSpec

(* This is so if no two links of a coordinator lead to one port of one model, *)
(* since the later one would take the place of what the earlier one brought,  *)
(* and links join ports that their models have.                               *)
Single(links) ==
  \A j, k \in DOMAIN links : links[j].to = links[k].to /\ links[j].in = links[k].in => j = k

OneLinkPerPort ==
  \A c \in Coupled : /\ JoinPorts(EIC[c], InPort, InPort)
                     /\ Single(IC[c] \o EIC[c])
                     /\ Single(EOC[c])

(* Every round comes to its end: no coordinator waits for a submodel for ever.*)
RoundsEnd == phase = "collect" ~> phase = "ready"

(* "return the TIME of the next event to happen when simulation stopped"      *)
(* (pdevs_dynamic_runner.hpp, line 117).                                      *)
ReturnsNextEvent == phase = "finished" => above_time = next_event
=============================================================================
