---------------------------- MODULE MCThreadPool ----------------------------
(* Instances of ThreadPool for TLC: three tasks, the second handed to Execute *)
(* by the first.                                                              *)
EXTENDS ThreadPool

CONSTANTS w1, w2, t1, t2, t3

FirstSpawnsSecond == [t \in Task |-> IF t = t1 THEN t2 ELSE NoTask]
============================================================================
