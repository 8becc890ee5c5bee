--------------------------- MODULE PageProtection ---------------------------
(***************************************************************************)
(* mprotect() and munprotect() of kernel/proc.c on the page table of the   *)
(* calling process, with the processor's TLB beside it.                    *)
(*                                                                         *)
(* A page is named by its page-aligned virtual address.  The page          *)
(* directory is fixed: PresentPDX are the directory slots that hold a      *)
(* page table.  pte[a] is the set of flags of a's entry ("P", "W", "U").   *)
(* tlb[a] is <<f>> when the TLB caches flags f for a, else <<>>; the TLB   *)
(* caches the flags of a translation it has used, and the processor        *)
(* consults it before the page table and may drop an entry at any time.    *)
(* Nothing in proc.c reloads %cr3 or runs invlpg after changing an entry;  *)
(* the TLB is emptied only when switchuvm() loads the page directory.      *)
(*                                                                         *)
(* want[a] records what the user last asked of page a through a call that  *)
(* returned 0: "ro" after mprotect, "rw" after munprotect, "any" before    *)
(* any call or after one that returned -1.  wrote holds the page and the   *)
(* outcome of the latest step when it was a user write, and is empty       *)
(* after any other step.                                                   *)
(***************************************************************************)
EXTENDS Integers, FiniteSets

CONSTANTS
    PGSIZE,        \* 4096
    Pages,         \* the page addresses the model's calls can reach
    PresentPDX,    \* directory slots whose PDE has PTE_P
    InitPTE,       \* [Pages -> SUBSET Flags]: the entries exec/allocuvm left
    Addrs,         \* addr arguments, aligned or not
    Lens           \* len arguments

VARIABLES pte, tlb, killed, want, wrote

vars == <<pte, tlb, killed, want, wrote>>

Flags == {"P", "W", "U"}

(* mmu.h: the directory index is bits 31..22 of the address.              *)
PDX(a) == a \div (1024 * PGSIZE)

PGROUNDDOWN(a) == a - (a % PGSIZE)

(* The pages addr, addr + PGSIZE, ..., last = addr + (len-1)*PGSIZE.       *)
RangeAt(a, i) == a + i * PGSIZE

ASSUME \A a \in Addrs, l \in Lens :
          a = PGROUNDDOWN(a) => \A i \in 0..(l - 1) : RangeAt(a, i) \in Pages

TypeOK ==
    /\ pte \in [Pages -> SUBSET Flags]
    /\ tlb \in [Pages -> {<<>>} \cup {<<f>> : f \in SUBSET Flags}]
    /\ killed \in BOOLEAN
    /\ want \in [Pages -> {"ro", "rw", "any"}]
    /\ wrote \in SUBSET [a : Pages, ok : BOOLEAN]

Init ==
    /\ pte = InitPTE
    /\ tlb = [p \in Pages |-> <<>>]
    /\ killed = FALSE
    /\ want = [p \in Pages |-> "any"]
    /\ wrote = {}

-----------------------------------------------------------------------------
(* The loop of mprotect/munprotect: page i of the range is looked up in    *)
(* the directory; a slot without a page table is passed over, a missing    *)
(* PTE returns -1 at once, a present one is rewritten.  Hole(a, l)        *)
(* is the index of the first missing PTE under a present PDE, or l.        *)
Hole(a, l) ==
    LET holes == {i \in 0..(l - 1) :
                    PDX(RangeAt(a, i)) \in PresentPDX /\ "P" \notin pte[RangeAt(a, i)]}
    IN IF holes = {} THEN l ELSE CHOOSE i \in holes : \A j \in holes : i <= j

(* The pages the loop rewrote before it returned.                          *)
Rewritten(a, l) ==
    {RangeAt(a, i) : i \in {j \in 0..(Hole(a, l) - 1) : PDX(RangeAt(a, j)) \in PresentPDX}}

(* *pte & 0xFFFFFFFD clears PTE_W; *pte | 2 sets it.                       *)
ClearW(f) == f \ {"W"}
SetW(f) == f \cup {"W"}

(* The whole call; setW is FALSE for mprotect and TRUE for munprotect.     *)
ChangeProtection(a, l, setW) ==
    /\ ~killed
    /\ IF a # PGROUNDDOWN(a) \/ l <= 0
         THEN UNCHANGED <<pte, want>>
         ELSE LET done == Rewritten(a, l)
                  r    == IF Hole(a, l) < l THEN -1 ELSE 0
                  span == {RangeAt(a, i) : i \in 0..(l - 1)}
              IN /\ pte' = [p \in Pages |->
                              IF p \notin done THEN pte[p]
                              ELSE IF setW THEN SetW(pte[p]) ELSE ClearW(pte[p])]
                 /\ want' = [p \in Pages |->
                              IF p \notin span THEN want[p]
                              ELSE IF r = -1 THEN "any"
                              ELSE IF setW THEN "rw" ELSE "ro"]
    /\ wrote' = {}
    /\ UNCHANGED <<tlb, killed>>

mprotect(a, l) == ChangeProtection(a, l, FALSE)

munprotect(a, l) == ChangeProtection(a, l, TRUE)

-----------------------------------------------------------------------------
(* The processor.  A user access translates a through the TLB, or walks    *)
(* the tables and caches what it found when the access is allowed.  A     *)
(* denied access is a page fault, and trap() kills the process.            *)
Translation(a) ==
    IF tlb[a] # <<>> THEN tlb[a][1]
    ELSE IF PDX(a) \in PresentPDX THEN pte[a] ELSE {}

Allowed(f, write) == {"P", "U"} \subseteq f /\ (write => "W" \in f)

UserAccess(a, write) ==
    /\ ~killed
    /\ LET f == Translation(a)
       IN IF Allowed(f, write)
            THEN /\ tlb' = [tlb EXCEPT ![a] = <<f>>]
                 /\ UNCHANGED killed
            ELSE /\ killed' = TRUE
                 /\ UNCHANGED tlb
    /\ wrote' = IF write THEN {[a |-> a, ok |-> Allowed(Translation(a), TRUE)]} ELSE {}
    /\ UNCHANGED <<pte, want>>

(* The processor drops one cached translation.                             *)
Evict(a) ==
    /\ tlb[a] # <<>>
    /\ tlb' = [tlb EXCEPT ![a] = <<>>]
    /\ UNCHANGED <<pte, killed, want>>
    /\ wrote' = {}

(* The process is switched out and back in (a timer yield, a sleep, or     *)
(* growproc): switchuvm() loads %cr3, which empties the TLB.               *)
switchuvm ==
    /\ ~killed
    /\ tlb' = [p \in Pages |-> <<>>]
    /\ wrote' = {}
    /\ UNCHANGED <<pte, killed, want>>

Next ==
    \/ \E a \in Addrs, l \in Lens : mprotect(a, l) \/ munprotect(a, l)
    \/ \E a \in Pages, w \in BOOLEAN : UserAccess(a, w)
    \/ \E a \in Pages : Evict(a)
    \/ switchuvm

Spec == Init /\ [][Next]_vars

-----------------------------------------------------------------------------
(* spec.md: mprotect on a range followed by a write to it must fault, and  *)
(* munprotect on the range followed by the same write must not.  A user    *)
(* write to a user page whose last protection call returned 0 succeeds    *)
(* exactly when that call was munprotect.  Violated when the TLB still holds the   *)
(* translation from before the call, since mprotect/munprotect never       *)
(* flush it.                                                               *)
ProtectionTakesEffect ==
    \A w \in wrote :
        "U" \in pte[w.a] /\ want[w.a] # "any" => (w.ok <=> want[w.a] = "rw")
=============================================================================
