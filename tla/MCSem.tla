------------------------------- MODULE MCSem --------------------------------
(* Model-checking instance of Sem: threads are interchangeable model       *)
(* values, and the count of a semaphore is bounded by a constraint.         *)
EXTENDS Sem, TLC

CONSTANTS t1, t2, t3, MaxValue

ThreadSymmetry == Permutations(Threads)

ValueBound == \A s \in SemIds : value[s] <= MaxValue
=============================================================================
