------------------------------ MODULE MCTestSem ------------------------------
(* Model-checking instance of TestSem: the shells are model values, and    *)
(* interchangeable.                                                        *)
EXTENDS TestSem, TLC

CONSTANTS c1, c2

CopySymmetry == Permutations(Copies)
==============================================================================
