----------------------------- MODULE FlatEngine -----------------------------
(***************************************************************************)
(* What a PDEVS simulator promises of a network of atomic models, whatever *)
(* tree of coupled models they are in: in a round at time t the imminent   *)
(* models put out their messages, and then exactly the models that are     *)
(* imminent or receive something take the transition that is due, with the *)
(* time since their last one and with every message routed to them.        *)
(***************************************************************************)
EXTENDS PdevsNetwork

VARIABLES
  running,  \* a round is going on
  t,        \* its time
  last,     \* last[a], next[a]: the last and next transition of a model
  next,
  emitted,  \* what the models that did have put out in this round
  moved,    \* the models that have taken their transition in this round
  got       \* got[a]: the last transition of a model, as it was called

flatVars == <<running, t, last, next, emitted, moved, got>>

NoCall == [kind |-> "none"]

FlatInit ==
  /\ running = FALSE
  /\ t = 0
  /\ last = [a \in Atomic |-> 0]
  /\ next \in [Atomic -> TimeAdvances]
  /\ emitted = <<>>
  /\ moved = {}
  /\ got = [a \in Atomic |-> NoCall]

Tick ==
  /\ ~running
  /\ \E a \in Atomic : t' = next[a] /\ next[a] < Limit /\ \A b \in Atomic : next[a] <= next[b]
  /\ running' = TRUE
  /\ UNCHANGED <<last, next, emitted, moved, got>>

Imminent == {a \in Atomic \ moved : next[a] = t}

(* Some imminent models put out their messages. *)
Send ==
  /\ running
  /\ emitted' # emitted
  /\ DOMAIN emitted \subseteq DOMAIN emitted'
  /\ DOMAIN emitted' \subseteq DOMAIN emitted \cup Imminent
  /\ \A a \in DOMAIN emitted' :
       IF a \in DOMAIN emitted THEN emitted'[a] = emitted[a] ELSE emitted'[a] \in Outputs(a)
  /\ UNCHANGED <<running, t, last, next, moved, got>>

AllSent == Imminent \subseteq DOMAIN emitted
Receives(a) == FlatInbox(emitted, a) # NoInput(a)
Due == {a \in Atomic \ moved : a \in Imminent \/ Receives(a)}

TransitionDue(a) ==
  IF ~Receives(a) THEN [kind |-> "internal"]
  ELSE [kind |-> IF a \in Imminent THEN "confluence" ELSE "external",
        e    |-> t - last[a],
        bags |-> FlatInbox(emitted, a)]

(* When all have, some models take their transition. *)
Transition ==
  /\ running
  /\ moved' # moved
  /\ AllSent
  /\ moved \subseteq moved' /\ moved' \ moved \subseteq Due
  /\ LET S == moved' \ moved
     IN  /\ last' = [a \in Atomic |-> IF a \in S THEN t ELSE last[a]]
         /\ got' = [a \in Atomic |-> IF a \in S THEN TransitionDue(a) ELSE got[a]]
         /\ DOMAIN next' = Atomic
         /\ \A a \in Atomic :
              IF a \in S THEN \E ta \in TimeAdvances : next'[a] = After(t, ta) ELSE next'[a] = next[a]
  /\ UNCHANGED <<running, t, emitted>>

Finish ==
  /\ running /\ ~running'
  /\ AllSent
  /\ Due = {}
  /\ emitted' = <<>>
  /\ moved' = {}
  /\ UNCHANGED <<t, last, next, got>>

FlatNext == Tick \/ Send \/ Transition \/ Finish

FlatSpec == FlatInit /\ [][FlatNext]_flatVars
=============================================================================
