------------------------------ MODULE MCKAlloc ------------------------------
(* Model-checking instance of KAlloc: kernel threads are model values and  *)
(* interchangeable.  A lost update of num_alloc keeps allocated[] from      *)
(* filling, so the number of kalloc() calls is bounded by a constraint.    *)
EXTENDS KAlloc, TLC

CONSTANTS t1, t2, MaxAllocs

(* rand_seed after 0 to 4 draws from its initial value 1: the first        *)
(* indices drawn from them cover every residue modulo 2 and 3.             *)
MCSeeds == {SeedAfter(<<0, 1>>, k) : k \in 0..4}

(* numframes below zero, within the history, all of it, and past it.     *)
MCDumpSizes == {-1, 1, 2, 4}

ThreadSymmetry == Permutations(Threads)

AllocBound == Len(allocLog) <= MaxAllocs
=============================================================================
