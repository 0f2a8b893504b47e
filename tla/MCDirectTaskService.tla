------------------------ MODULE MCDirectTaskService ------------------------
(* One caller that posts up to two tasks; a task's work doubles as its     *)
(* node and its attempt.                                                   *)
EXTENDS DirectTaskService, TLC

CONSTANTS c1, c2, w1, w2

MCSelf == [w \in {w1, w2} |-> w]
OneTask == [w \in {w1} |-> w]

\* Overlapping calls are interchangeable, and so are the ids of the tasks.
ServiceSymmetry == Permutations({c1, c2}) \cup Permutations({w1, w2})
=============================================================================
