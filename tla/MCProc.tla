------------------------------- MODULE MCProc -------------------------------
(* Model-checking instance of Proc.  The code's limit_total = {64, 32,    *)
(* 16, 8} and limit_rr = {64, 4, 2, 1} are scaled to {2, 1, 1, 1} and      *)
(* {2, 1, 1, 1}: level 0 still runs a process until its slice ends, the    *)
(* upper levels demote after their slice, and every slice divides its      *)
(* level's total.  With StarveFactor 3 the level-3 threshold (3) exceeds   *)
(* NPROC - 1, as the code's 80 exceeds NPROC - 1 = 63.                     *)
EXTENDS Proc

MCLimitTotal == [l \in Layers |-> CASE l = 0 -> 2 [] l = 1 -> 1
                                    [] l = 2 -> 1 [] l = 3 -> 1]
MCLimitRR == [l \in Layers |-> CASE l = 0 -> 2 [] l = 1 -> 1
                                 [] l = 2 -> 1 [] l = 3 -> 1]

(* One-tick slices at every level, for runs about the process lifecycle:   *)
(* every step still passes through demotion, round robin and promotion,    *)
(* with fewer distinct counter values.                                     *)
MCUnitLimit == [l \in Layers |-> 1]
=============================================================================
