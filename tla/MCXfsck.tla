------------------------------- MODULE MCXfsck ------------------------------
(***************************************************************************)
(* xfsck on a small xv6 image and on single corruptions of it.            *)
(*                                                                         *)
(* fs.h values of xv6: BSIZE 512, NDIRECT 12, NINDIRECT 128, IPB 8,        *)
(* BPB 4096, DIRSIZ 14 (32 entries per block), ROOTINO 1.  The image has   *)
(* mkfs's 200 inodes, so the data area starts at block 29, and 48 data     *)
(* blocks, so it ends at block 76.                                          *)
(*                                                                         *)
(* Good: the root (inode 1, block 29) names a file f (inode 2, blocks 30   *)
(* and 31, 700 bytes) and directories d (inode 3, block 32) and e (inode  *)
(* 4, block 47); d names a file g (inode 30) of 13 blocks: 33..44 direct, *)
(* 46 through the indirect block 45.  Blocks 0..47 are marked.             *)
(***************************************************************************)
EXTENDS Xfsck, TLC

MCSlots == 0..31
MCIndirect == 0..127

(* An inode, with its direct addresses listed and its indirect one.        *)
Ino(type, nlink, size, direct, ind) ==
    [type |-> type, nlink |-> nlink, size |-> size,
     addrs |-> [j \in 0..12 |-> IF j < Len(direct) THEN direct[j + 1]
                                ELSE IF j = 12 THEN ind ELSE 0]]

(* A directory block with the entries <<name, inum>> listed, then empty.   *)
DirBlk(es) ==
    [kind |-> "dir",
     ents |-> [h \in MCSlots |-> IF h < Len(es) THEN [inum |-> es[h + 1][2], name |-> es[h + 1][1]]
                                 ELSE [inum |-> 0, name |-> ""]]]

(* An indirect block with the addresses listed, then zeros.                *)
IndBlk(as) == [kind |-> "ind", words |-> [k \in MCIndirect |-> IF k < Len(as) THEN as[k + 1] ELSE 0]]

RootBlk == DirBlk(<< <<".", 1>>, <<"..", 1>>, <<"f", 2>>, <<"d", 3>>, <<"e", 4>> >>)
DBlk == DirBlk(<< <<".", 3>>, <<"..", 1>>, <<"g", 30>> >>)
EBlk == DirBlk(<< <<".", 4>>, <<"..", 1>> >>)

Good ==
    [sb |-> [size |-> 77, nblocks |-> 48, ninodes |-> 200],
     dip |-> (1 :> Ino(1, 1, 512, <<29>>, 0)) @@ (2 :> Ino(2, 1, 700, <<30, 31>>, 0))
             @@ (3 :> Ino(1, 1, 512, <<32>>, 0)) @@ (4 :> Ino(1, 1, 512, <<47>>, 0))
             @@ (30 :> Ino(2, 1, 6646, [j \in 1..12 |-> 32 + j], 45)),
     blk |-> (29 :> RootBlk) @@ (32 :> DBlk) @@ (47 :> EBlk) @@ (45 :> IndBlk(<<46>>)),
     marked |-> 0..47]

(* One corruption each; the comment names the rule it breaks.              *)
Corrupted == {
    [Good EXCEPT !.sb.size = 70],                                  \* 1
    [Good EXCEPT !.dip[2].type = 7],                               \* 2
    [Good EXCEPT !.dip[2].addrs[0] = 5],                           \* 3, direct
    [Good EXCEPT !.blk[45] = IndBlk(<<100>>)],                     \* 3, indirect
    [Good EXCEPT !.blk[32] = DirBlk(<< <<".", 3>>, <<"g", 30>> >>)],            \* 4, no ..
    [Good EXCEPT !.blk[32] = DirBlk(<< <<".", 1>>, <<"..", 1>>, <<"g", 30>> >>)], \* 4, . wrong
    [Good EXCEPT !.marked = @ \ {30}],                             \* 5
    [Good EXCEPT !.dip[2] = Ino(2, 1, 400, <<30>>, 0)],            \* 6, 31 leaked
    [Good EXCEPT !.marked = @ \cup {60}],                          \* 6, 60 leaked
    [Good EXCEPT !.dip[4].addrs[0] = 31, !.blk = (31 :> EBlk) @@ @,
                 !.marked = @ \ {47}],                             \* 7, e on f's block
    [Good EXCEPT !.dip[30].addrs[0] = 30, !.marked = @ \ {33}],    \* 7, g on f's block
    [Good EXCEPT !.dip[2].size = 2000],                            \* 8, too large
    [Good EXCEPT !.dip[2].size = 512],                             \* 8, at (b-1)*BSIZE
    [Good EXCEPT !.blk[32] = DirBlk(<< <<".", 3>>, <<"..", 1>> >>)],            \* 9, g orphaned
    [Good EXCEPT !.blk[29] = DirBlk(<< <<".", 1>>, <<"..", 1>>, <<"f", 2>>,
                                        <<"d", 3>>, <<"e", 4>>, <<"x", 40>> >>)], \* 10
    [Good EXCEPT !.dip[2].nlink = 2],                              \* 11
    [Good EXCEPT !.blk[29] = DirBlk(<< <<".", 1>>, <<"..", 1>>, <<"f", 2>>,
                                        <<"d", 3>>, <<"e", 4>>, <<"d2", 3>> >>)], \* 12
    [Good EXCEPT !.blk[32] = DirBlk(<< <<".", 3>>, <<"..", 3>>, <<"g", 30>> >>)], \* extra, .. = d
    [Good EXCEPT !.blk[32] = DirBlk(<< <<".", 3>>, <<"..", 4>>, <<"g", 30>> >>)]  \* extra, .. = e
    }

MCImages == {Good} \cup Corrupted
=============================================================================
