---------------------------- MODULE MCWorkerRun ----------------------------
(***************************************************************************)
(* Small instances of WorkerRun: two or three tasks, up to two at a time,  *)
(* up to one automatic retry.                                              *)
(***************************************************************************)
EXTENDS WorkerRun

CONSTANTS t1, t2, t3

Edges(E) == [t \in Task |-> {e[1] : e \in {x \in E : x[2] = t}}]

Join == Edges({<<t1, t3>>, <<t2, t3>>})
Line == Edges({<<t1, t2>>, <<t2, t3>>})
Pair == Edges({<<t1, t2>>})

JoinAndLine == {Join, Line}
OnlyPair == {Pair}

Plain == {[maxRetries |-> 0, allowEdits |-> FALSE]}
Retrying == {[maxRetries |-> 1, allowEdits |-> TRUE]}
Edited == Plain \cup Retrying
=============================================================================
