------------------------------- MODULE TaskFarm -------------------------------
(* What the farm promises: every number supplied is given to one idle worker, *)
(* answered once, and the farm closes only when all of them are answered.     *)
EXTENDS Naturals

CONSTANT Worker

VARIABLES
  supplied,    \* how many numbers were supplied; they are 1 .. supplied
  assigned,    \* the numbers each worker has to answer
  answered,    \* the numbers that were answered
  closed       \* the workers were told that there are no more numbers

vars == <<supplied, assigned, answered, closed>>

Init ==
  /\ supplied = 0
  /\ assigned = [w \in Worker |-> {}]
  /\ answered = {}
  /\ closed = FALSE

Supply ==
  /\ ~closed
  /\ supplied' = supplied + 1
  /\ UNCHANGED <<assigned, answered, closed>>

Assign(w, n) ==
  /\ ~closed
  /\ n \notin answered /\ \A v \in Worker : n \notin assigned[v]
  /\ assigned[w] = {}
  /\ assigned' = [assigned EXCEPT ![w] = {n}]
  /\ UNCHANGED <<supplied, answered, closed>>

Answer(w) ==
  /\ assigned[w] # {}
  /\ answered' = answered \cup assigned[w]
  /\ assigned' = [assigned EXCEPT ![w] = {}]
  /\ UNCHANGED <<supplied, closed>>

Close ==
  /\ answered = 1 .. supplied
  /\ closed' = TRUE
  /\ UNCHANGED <<supplied, assigned, answered>>

Next ==
  \/ Supply \/ Close
  \/ \E w \in Worker : Answer(w) \/ \E n \in 1 .. supplied : Assign(w, n)

Spec == Init /\ [][Next]_vars
==============================================================================
