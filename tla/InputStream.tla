------------------------------ MODULE InputStream ------------------------------
(***************************************************************************)
(* The model that plays the events of a file (cadmium                      *)
(* basic_model/pdevs/iestream.hpp), used by the tests of the producer.     *)
(* Each step is one round of the engine: what is next is output and the    *)
(* following lines are read.  The file is a sequence of [time, msg].       *)
(***************************************************************************)
EXTENDS Integers, Sequences

CONSTANTS
  Files,    \* contents of files
  Nothing,  \* MSG()
  Infinity

VARIABLES
  file,     \* the lines, and whether the last one ends with a newline
  calls,    \* calls of next_timed_input so far
  s,        \* state_type
  played    \* history: the messages that were output, each with its time

vars == <<file, calls, s, played>>
-----------------------------------------------------------------------------
Init ==
  /\ file \in [lines : Files, newline : BOOLEAN]
  /\ calls = 0
  /\ s = [simulation_time |-> 0, next_time |-> 0, next_input_time |-> 0,
          last_input_read |-> Nothing, next_input |-> <<>>, initialization |-> TRUE]
  /\ played = <<>>

(* The n-th call of next_timed_input.  It throws only after a read has met    *)
(* the end of the file: the last line without a newline does, with one a      *)
(* further call reads nothing and leaves TIME() and MSG().                    *)
Throws(n) == n > Len(file.lines) + (IF file.newline \/ file.lines = <<>> THEN 1 ELSE 0)
NextTimedInput(n) ==
  IF n <= Len(file.lines) THEN file.lines[n] ELSE [time |-> 0, msg |-> Nothing]

(* The line read by the n-th call becomes the following input, unless there   *)
(* is none or it is already over.  Faulty variant: its time is not taken from *)
(* the present one.                                                           *)
ReadFollowingAbsolute(st, n) ==
  LET line == NextTimedInput(n)
  IN  IF Throws(n) THEN [st EXCEPT !.next_input_time = Infinity]
      ELSE [st EXCEPT !.next_input_time = line.time, !.last_input_read = line.msg]

ReadFollowing(st, n) ==
  LET line == NextTimedInput(n)
  IN  IF Throws(n) \/ line.time < st.simulation_time
      THEN [st EXCEPT !.next_input_time = Infinity]
      ELSE [st EXCEPT !.next_input_time = line.time - st.simulation_time,
                      !.last_input_read = line.msg]

(* The first line becomes the next input. *)
ReadFirst(st, n) ==
  LET line == NextTimedInput(n)
  IN  IF Throws(n) \/ line.time < st.simulation_time
      THEN [st EXCEPT !.next_time = Infinity]
      ELSE [st EXCEPT !.next_time = line.time - st.simulation_time, !.last_input_read = line.msg,
                      !.next_input = <<line.msg>>]

Minus(a, b) == IF a = Infinity THEN Infinity ELSE a - b

(* A line for the same time as the next one joins it, and one more is read.   *)
JoinWithTheSameTime(x) ==
  IF x.st.next_time = x.st.next_input_time /\ x.st.next_time # Infinity
  THEN [st    |-> ReadFollowing([x.st EXCEPT !.next_input = Append(@, x.st.last_input_read)], x.calls + 1),
        calls |-> x.calls + 1]
  ELSE x

(* The lines for the same time as the next one join it: g[k] is the state     *)
(* after k of them.                                                           *)
WithTheSameTime(x) ==
  LET g[k \in 0 .. Len(file.lines) + 2] == IF k = 0 THEN x ELSE JoinWithTheSameTime(g[k - 1])
  IN  g[Len(file.lines) + 2]

InternalTransition ==
  LET now   == [s EXCEPT !.simulation_time = s.simulation_time + s.next_time, !.next_input = <<>>]
      read  == IF s.initialization
               THEN [st    |-> ReadFollowing(ReadFirst([now EXCEPT !.initialization = FALSE],
                                                       calls + 1), calls + 2),
                     calls |-> calls + 2]
               ELSE [st    |-> ReadFollowing([now EXCEPT !.next_time = Minus(s.next_input_time, s.next_time),
                                                         !.next_input = <<s.last_input_read>>],
                                             calls + 1),
                     calls |-> calls + 1]
      after == WithTheSameTime(read)
  IN  s' = after.st /\ calls' = after.calls

Output == s.next_input

Play ==
  /\ s.next_time \in 0 .. Infinity - 1
  /\ played' = played \o [i \in DOMAIN Output |->
                           [time |-> s.simulation_time + s.next_time, msg |-> Output[i]]]
  /\ InternalTransition
  /\ UNCHANGED file

Next == Play

Spec == Init /\ [][Next]_vars
-----------------------------------------------------------------------------
(* A file as the model expects it: in the order of its times, and without a   *)
(* newline after the last line, unless that line is for a later time than     *)
(* another one that is not for the start.                                     *)
Readable ==
  LET lines == file.lines
  IN  /\ \A i, j \in DOMAIN lines : i < j => lines[i].time <= lines[j].time
      /\ lines # <<>>
      /\ file.newline => \E i, j \in DOMAIN lines : 0 < lines[i].time /\ lines[i].time < lines[j].time

(* "plays a history of events received by an input stream" (line 45): every   *)
(* line is output at its own time, in the order of the file, however many     *)
(* there are for one time, and the model passivates only after the last one.  *)
PlaysTheFile ==
  Readable =>
    /\ played = SubSeq(file.lines, 1, Len(played))
    /\ s.next_time >= 0
    /\ s.next_time = Infinity => played = file.lines
    /\ \A i \in DOMAIN file.lines : file.lines[i].time < s.simulation_time => i <= Len(played)
=============================================================================
