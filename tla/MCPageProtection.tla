------------------------- MODULE MCPageProtection --------------------------
(***************************************************************************)
(* The address space of a process of this xv6: user memory from 0, two     *)
(* pages of it (sz = 2 * PGSIZE) and the unmapped page above; the kernel   *)
(* mapped one-to-one from 0xA0000 up to PHYSTOP = 0xE000000 with PTE_W and *)
(* without PTE_U (two pages of its data at 0x10A000); nothing mapped at    *)
(* PHYSTOP, whose directory slot 56 holds no page table.                   *)
(***************************************************************************)
EXTENDS PageProtection, TLC

KData == 1089536          \* 0x10A000
Phystop == 234881024      \* 0xE000000

MCPages == {0, 4096, 8192, KData, KData + 4096, Phystop, Phystop + 4096}

MCInitPTE ==
    (0 :> {"P", "W", "U"}) @@ (4096 :> {"P", "W", "U"}) @@ (8192 :> {})
    @@ (KData :> {"P", "W"}) @@ ((KData + 4096) :> {"P", "W"})
    @@ (Phystop :> {}) @@ ((Phystop + 4096) :> {})

MCPresentPDX == 0..55

MCAddrs == {0, 4096, 1, KData, Phystop}
MCLens == {0, 1, 2}
=============================================================================
