------------------------------ MODULE PagePool ------------------------------
(***************************************************************************)
(* What the page allocator promises its callers, with no lists, counters   *)
(* or locks: a pool of pages, each either free or owned by one caller.     *)
(* Acquiring moves one free page, any of them, to the caller; releasing    *)
(* moves a page the caller owns back to the pool.  Nothing else changes    *)
(* the pool.                                                               *)
(***************************************************************************)
CONSTANTS Owners, Pages

VARIABLES free, owned

Init ==
    /\ free = Pages
    /\ owned = [o \in Owners |-> {}]

Acquire(o) ==
    \E p \in free :
        /\ free' = free \ {p}
        /\ owned' = [owned EXCEPT ![o] = @ \cup {p}]

Release(o) ==
    \E p \in owned[o] :
        /\ free' = free \cup {p}
        /\ owned' = [owned EXCEPT ![o] = @ \ {p}]

Next == \E o \in Owners : Acquire(o) \/ Release(o)

Spec == Init /\ [][Next]_<<free, owned>>
=============================================================================
