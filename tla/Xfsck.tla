-------------------------------- MODULE Xfsck -------------------------------
(***************************************************************************)
(* tools/xfsck.c: the file system checker.  main() maps an image and runs *)
(* twelve numbered checks and one extra check in order; the first that    *)
(* fails prints its message and exits 1, and if none fails it returns 0.  *)
(* Each check is one action.  Its loops, each with an early exit on the   *)
(* first bad element, are quantifiers over the same ranges.               *)
(*                                                                         *)
(* The image is the input, chosen once from the set Images.  It is a      *)
(* record of the superblock, the inode table dip (inodes not in its       *)
(* domain are zero), the contents of the blocks the checks read (blocks   *)
(* not in its domain are zero), and the set of blocks whose bitmap bit is *)
(* 1.  A block holds either directory entries or indirect addresses.      *)
(* File data is not represented: no check reads it.                       *)
(*                                                                         *)
(* fs.h is not part of the repository.  Its constants (BSIZE, NDIRECT,    *)
(* NINDIRECT, IPB, BPB, DIRSIZ, ROOTINO) are CONSTANTS of this module.    *)
(***************************************************************************)
EXTENDS Integers, Sequences, FiniteSets

CONSTANTS BSIZE, NDIRECT, NINDIRECT, IPB, BPB, DIRSIZ, ROOTINO, Images

VARIABLES img,        \* the mapped image (read only)
          pc,         \* the check main() is at, "exit" or "done"
          status,     \* "running", the message printed before exit(1), or "ok"
          dir_inodes  \* dir_inodes[0 .. num_dir-1], as a sequence

vars == <<img, pc, status, dir_inodes>>

(* roundUp((double) a / b): (int) (a / b + 0.99), exactly in integers.     *)
RoundUp(a, b) == (100 * a + 99 * b) \div (100 * b)

(* The layout main() computes from the superblock.                        *)
nb_inodes(im) == RoundUp(im.sb.ninodes, IPB)
nb_bitmap(im) == RoundUp(im.sb.nblocks, BPB)
nb_total(im) == im.sb.nblocks + nb_inodes(im) + nb_bitmap(im) + 3
ib_data(im) == 2 + nb_inodes(im) + 1 + nb_bitmap(im)
ib_end(im) == ib_data(im) + im.sb.nblocks - 1
num_inodes(im) == nb_inodes(im) * IPB
num_dirent == BSIZE \div (DIRSIZ + 2)

(* Where the bitmap pointer of main() points: BBLOCK(0, sb->ninodes).      *)
BBLOCK0(im) == im.sb.ninodes \div IPB + 3

Inodes == 0..(num_inodes(img) - 1)
Slots == 0..(num_dirent - 1)
Direct == 0..(NDIRECT - 1)
Indirect == 0..(NINDIRECT - 1)
index_idb == NDIRECT

EmptyEnt == [inum |-> 0, name |-> ""]
FreeInode == [type |-> 0, nlink |-> 0, size |-> 0, addrs |-> [j \in 0..NDIRECT |-> 0]]

(* dip[i], and block b read as directory entries or as addresses.         *)
Dip(i) == IF i \in DOMAIN img.dip THEN img.dip[i] ELSE FreeInode
Ents(b) == IF b \in DOMAIN img.blk /\ img.blk[b].kind = "dir"
           THEN img.blk[b].ents ELSE [h \in Slots |-> EmptyEnt]
Words(b) == IF b \in DOMAIN img.blk /\ img.blk[b].kind = "ind"
            THEN img.blk[b].words ELSE [k \in Indirect |-> 0]
Marked(a) == a \in img.marked

(* Checks 9 to 12 read a directory's blocks addrs[0 .. NDIRECT-1], then   *)
(* the blocks its indirect block names, without skipping zero addresses.  *)
ReadPos == 0..(NDIRECT + NINDIRECT - 1)
ReadBlock(d, k) == IF k < NDIRECT THEN Dip(d).addrs[k]
                   ELSE Words(Dip(d).addrs[index_idb])[k - NDIRECT]
DirPos == (1..Len(dir_inodes)) \X ReadPos

(* The images this module is checked on keep the bitmap where main()      *)
(* computes it, and give a directory's blocks directory entries and an    *)
(* indirect pointer an address block.                                      *)
ASSUME \A im \in Images :
         /\ BBLOCK0(im) = 2 + nb_inodes(im) + 1
         /\ \A b \in DOMAIN im.blk : im.blk[b].kind \in {"dir", "ind"}
-----------------------------------------------------------------------------
(* The condition under which each check prints its error.                  *)

SuperblockBad == img.sb.size < nb_total(img)

InodeTypeBad == \E i \in Inodes : Dip(i).type \notin {0, 1, 2, 3}

OutOfData(a) == a < ib_data(img) \/ a > ib_end(img)
BadDirect(i) == \E j \in Direct : Dip(i).addrs[j] # 0 /\ OutOfData(Dip(i).addrs[j])
BadIndirect(i) ==
    LET ind == Dip(i).addrs[index_idb]
    IN /\ ind # 0
       /\ \/ OutOfData(ind)
          \/ \E j \in Indirect : Words(ind)[j] # 0 /\ OutOfData(Words(ind)[j])
BadAddress == {i \in Inodes : Dip(i).type # 0 /\ (BadDirect(i) \/ BadIndirect(i))}

(* Mutant: the test that "." names the directory itself is dropped.       *)
DirFormatBadNoSelf ==
    \E i \in Inodes :
        /\ Dip(i).type = 1
        /\ LET e == Ents(Dip(i).addrs[0])
           IN \/ ~\E h \in Slots : e[h].name = "."
              \/ ~\E h \in Slots : e[h].name = ".."
DirFormatBad ==
    \E i \in Inodes :
        /\ Dip(i).type = 1
        /\ LET e == Ents(Dip(i).addrs[0])
           IN \/ \E h \in Slots : e[h].name = "." /\ e[h].inum # i
              \/ ~\E h \in Slots : e[h].name = "."
              \/ ~\E h \in Slots : e[h].name = ".."

(* Check 5 reads the block addrs[NDIRECT] names even when it is 0, and     *)
(* tests every word of it, zero words included.                            *)
BitmapUsedBad ==
    \E i \in Inodes :
        /\ Dip(i).type # 0
        /\ \/ \E j \in 0..NDIRECT : Dip(i).addrs[j] # 0 /\ ~Marked(Dip(i).addrs[j])
           \/ \E j \in Indirect : ~Marked(Words(Dip(i).addrs[index_idb])[j])

(* Check 6 scans blocks 29 .. sb->nblocks-1, and looks in every inode,    *)
(* in use or not.                                                           *)
FirstScanned == 29
BitmapMarkedBad ==
    \E b \in FirstScanned..(img.sb.nblocks - 1) :
        /\ Marked(b)
        /\ ~\E j \in Inodes :
               \/ \E k \in 0..NDIRECT : Dip(j).addrs[k] = b
               \/ \E k \in Indirect : Words(Dip(j).addrs[index_idb])[k] = b

(* Check 7 compares with inodes i .. nb_inodes-1 only.                     *)
DirectTwiceBad ==
    \E i \in Inodes, j \in Direct :
        /\ Dip(i).type # 0
        /\ Dip(i).addrs[j] # 0
        /\ \E k \in i..(nb_inodes(img) - 1), h \in Direct :
               /\ k # i \/ h # j
               /\ Dip(i).addrs[j] = Dip(k).addrs[h]

num_db(i) ==
    Cardinality({j \in Direct : Dip(i).addrs[j] # 0})
    + IF Dip(i).addrs[index_idb] # 0
      THEN Cardinality({j \in Indirect : Words(Dip(i).addrs[index_idb])[j] # 0})
      ELSE 0

(* size is a uint: with num_db = 0 the int bound (num_db-1)*BSIZE becomes  *)
(* a huge unsigned value, and size is below it.                            *)
FileSizeBad ==
    \E i \in Inodes :
        /\ Dip(i).type # 0 /\ Dip(i).size # 0
        /\ \/ Dip(i).size > num_db(i) * BSIZE
           \/ num_db(i) = 0
           \/ Dip(i).size < (num_db(i) - 1) * BSIZE

(* The directories, in increasing inode order.                             *)
DirsInOrder == SelectSeq([k \in 1..num_inodes(img) |-> k - 1], LAMBDA i : Dip(i).type = 1)

Referred(i) == \E p \in DirPos, h \in Slots :
                   Ents(ReadBlock(dir_inodes[p[1]], p[2]))[h].inum = i
NoLoseEndBad == \E i \in Inodes : Dip(i).type # 0 /\ ~Referred(i)

InodeStatusBad ==
    \E p \in DirPos, h \in Slots :
        LET n == Ents(ReadBlock(dir_inodes[p[1]], p[2]))[h].inum
        IN n > 0 /\ Dip(n).type = 0

count_link(i, from) ==
    Cardinality({q \in (1..Len(dir_inodes)) \X ReadPos \X (from..(num_dirent - 1)) :
                   Ents(ReadBlock(dir_inodes[q[1]], q[2]))[q[3]].inum = i})

RefCountBad == \E i \in Inodes : Dip(i).type = 2 /\ count_link(i, 0) # Dip(i).nlink

(* Check 12 counts entries from index 2 of every block, and adds one for  *)
(* the first directory, taken to be the root.                              *)
(* Mutant: counting from index 1, so ".." entries count.                  *)
DirLinksFromOne(x) == count_link(dir_inodes[x], 1) + (IF x = 1 THEN 1 ELSE 0)
DirLinks(x) == count_link(dir_inodes[x], 2) + (IF x = 1 THEN 1 ELSE 0)
DirLinksBad ==
    \E x \in 1..Len(dir_inodes) :
        DirLinks(x) # 1 \/ DirLinks(x) # Dip(dir_inodes[x]).type

(* The extra check: some ".." entry in a direct block of d names a        *)
(* directory with an entry, in one of its direct blocks, for d.            *)
ParentFound(d) ==
    \E k \in Direct, h \in Slots :
        LET e == Ents(Dip(d).addrs[k])[h]
        IN /\ e.name = ".."
           /\ \E j \in Direct, g \in Slots : Ents(Dip(e.inum).addrs[j])[g].inum = d
ParentBad == \E x \in 1..Len(dir_inodes) : ~ParentFound(dir_inodes[x])
-----------------------------------------------------------------------------
(* main() *)

Init ==
    /\ img \in Images
    /\ pc = "superblock"
    /\ status = "running"
    /\ dir_inodes = << >>

(* A check at pc: if its condition holds, fprintf(stderr, ...) and         *)
(* exit(1); otherwise go on to the next check.                             *)
Check(at, bad, msg, next) ==
    /\ pc = at
    /\ \/ /\ bad
          /\ pc' = "exit"
          /\ status' = msg
       \/ /\ ~bad
          /\ pc' = next
          /\ UNCHANGED status
    /\ UNCHANGED <<img, dir_inodes>>

Superblock == Check("superblock", SuperblockBad, "superblock is corrupted", "inode_type")

InodeType == Check("inode_type", InodeTypeBad, "bad inode", "address")

(* Check 3 prints a different message for the direct and the indirect      *)
(* addresses of the first inode that has a bad one.                         *)
AddressValidity ==
    /\ pc = "address"
    /\ \/ /\ BadAddress # {}
          /\ LET i == CHOOSE i \in BadAddress : \A k \in BadAddress : i <= k
             IN status' = IF BadDirect(i) THEN "bad direct address in inode"
                                          ELSE "bad indirect address in inode"
          /\ pc' = "exit"
       \/ /\ BadAddress = {}
          /\ pc' = "dir_format"
          /\ UNCHANGED status
    /\ UNCHANGED <<img, dir_inodes>>

DirFormat == Check("dir_format", DirFormatBad, "directory not properly formatted", "bitmap_used")

BitmapUsed == Check("bitmap_used", BitmapUsedBad,
                    "address used by inode but marked free in bitmap", "bitmap_marked")

BitmapMarked == Check("bitmap_marked", BitmapMarkedBad,
                      "bitmap marks block in use but it is not in use", "direct_once")

DirectOnce == Check("direct_once", DirectTwiceBad,
                    "direct address used more than once", "file_size")

FileSize == Check("file_size", FileSizeBad, "incorrect file size in inode", "dir_inodes")

CollectDirs ==
    /\ pc = "dir_inodes"
    /\ dir_inodes' = DirsInOrder
    /\ pc' = "no_lose_end"
    /\ UNCHANGED <<img, status>>

NoLoseEnd == Check("no_lose_end", NoLoseEndBad,
                   "inode marked used but not found in a directory", "inode_status")

InodeStatus == Check("inode_status", InodeStatusBad,
                     "inode referred to in directory but marked free", "ref_count")

RefCount == Check("ref_count", RefCountBad, "bad reference count for file", "dir_links")

DirLinksOnce == Check("dir_links", DirLinksBad,
                      "directory appears more than once in file system", "parent")

(* The extra check, then return 0.                                          *)
ParentDir ==
    /\ pc = "parent"
    /\ \/ /\ ParentBad
          /\ pc' = "exit"
          /\ status' = "parent directory mismatch"
       \/ /\ ~ParentBad
          /\ pc' = "done"
          /\ status' = "ok"
    /\ UNCHANGED <<img, dir_inodes>>

Next ==
    \/ Superblock \/ InodeType \/ AddressValidity \/ DirFormat
    \/ BitmapUsed \/ BitmapMarked \/ DirectOnce \/ FileSize
    \/ CollectDirs \/ NoLoseEnd \/ InodeStatus \/ RefCount
    \/ DirLinksOnce \/ ParentDir

(* main() runs each check once, in order, and ends.                        *)
Spec == Init /\ [][Next]_vars
-----------------------------------------------------------------------------
(***************************************************************************)
(* What a consistent image is, in the words of the comments above each    *)
(* check, stated over the blocks and entries an image really has rather   *)
(* than over the loops of main().                                          *)
(***************************************************************************)
InUse == {i \in Inodes : Dip(i).type # 0}
Dirs == {i \in Inodes : Dip(i).type = 1}
DataArea == ib_data(img)..ib_end(img)

(* The blocks an inode uses: its data blocks and its indirect block.       *)
DataBlocksOf(i) ==
    LET ind == Dip(i).addrs[index_idb]
    IN ({Dip(i).addrs[j] : j \in Direct}
        \cup (IF ind # 0 THEN {Words(ind)[k] : k \in Indirect} ELSE {})) \ {0}
UsedBy(i) == DataBlocksOf(i) \cup ({Dip(i).addrs[index_idb]} \ {0})

(* The entries of a directory: the slots of its data blocks.               *)
EntriesOf(d) == {<<d, b, h>> : b \in DataBlocksOf(d), h \in Slots}
Ent(e) == Ents(e[2])[e[3]]
AllEntries == UNION {EntriesOf(d) : d \in Dirs}
Links(i) == {e \in AllEntries : Ent(e).inum = i}
SubdirLinks(d) == {e \in Links(d) : Ent(e).name \notin {".", ".."}}

(* 1. The superblock's size covers the layout.                            *)
SuperblockOK == img.sb.size >= nb_total(img)
(* 2. Every inode is free or a directory, file or device.                 *)
TypesOK == \A i \in Inodes : Dip(i).type \in 0..3
(* 3. Every block an inode uses is in the data area.                      *)
AddressesOK == \A i \in InUse : UsedBy(i) \subseteq DataArea
(* 4. Every directory has "." naming itself and "..".                     *)
DirsFormatted ==
    \A d \in Dirs :
        /\ \E e \in EntriesOf(d) : Ent(e).name = "."
        /\ \A e \in EntriesOf(d) : Ent(e).name = "." => Ent(e).inum = d
        /\ \E e \in EntriesOf(d) : Ent(e).name = ".."
(* 5. Every block in use is marked in the bitmap.                         *)
BitmapCoversUse == \A i \in InUse : UsedBy(i) \subseteq img.marked
(* 6. Every data block marked in the bitmap is in use.                    *)
BitmapOnlyUse == \A b \in DataArea \cap img.marked : \E i \in InUse : b \in UsedBy(i)
(* 7. No direct address is used twice.                                    *)
DirectOnceOK ==
    \A i, k \in InUse, j, h \in Direct :
        Dip(i).addrs[j] # 0 /\ <<i, j>> # <<k, h>> => Dip(i).addrs[j] # Dip(k).addrs[h]
(* 8. A size s over b blocks has (b-1)*BSIZE < s <= b*BSIZE.              *)
SizesOK ==
    \A i \in InUse :
        LET b == Cardinality(DataBlocksOf(i))
        IN (b - 1) * BSIZE < Dip(i).size /\ Dip(i).size <= b * BSIZE
(* 9. Every inode in use is named in some directory.                      *)
AllReferenced == \A i \in InUse : Links(i) # {}
(* 10. Every inode a directory names is in use.                           *)
ReferencedInUse == \A e \in AllEntries : Ent(e).inum # 0 => Ent(e).inum \in InUse
(* 11. A file's nlink is the number of entries naming it.                 *)
LinkCountsOK == \A i \in InUse : Dip(i).type = 2 => Dip(i).nlink = Cardinality(Links(i))
(* 12. A directory other than the root is named in exactly one other      *)
(* directory; the root in none.                                            *)
DirsLinkedOnce ==
    \A d \in Dirs : Cardinality(SubdirLinks(d)) = IF d = ROOTINO THEN 0 ELSE 1
(* Extra. A directory's ".." names the directory that names it (the root  *)
(* itself), and that directory names it back.                              *)
ParentsOK ==
    \A d \in Dirs : \A e \in EntriesOf(d) :
        Ent(e).name = ".." =>
            IF d = ROOTINO THEN Ent(e).inum = d
            ELSE \E l \in SubdirLinks(d) : l[1] = Ent(e).inum

(* The rule each message of main() reports broken.                         *)
Broken(msg) ==
    CASE msg = "superblock is corrupted" -> ~SuperblockOK
      [] msg = "bad inode" -> ~TypesOK
      [] msg \in {"bad direct address in inode", "bad indirect address in inode"} -> ~AddressesOK
      [] msg = "directory not properly formatted" -> ~DirsFormatted
      [] msg = "address used by inode but marked free in bitmap" -> ~BitmapCoversUse
      [] msg = "bitmap marks block in use but it is not in use" -> ~BitmapOnlyUse
      [] msg = "direct address used more than once" -> ~DirectOnceOK
      [] msg = "incorrect file size in inode" -> ~SizesOK
      [] msg = "inode marked used but not found in a directory" -> ~AllReferenced
      [] msg = "inode referred to in directory but marked free" -> ~ReferencedInUse
      [] msg = "bad reference count for file" -> ~LinkCountsOK
      [] msg = "directory appears more than once in file system" -> ~DirsLinkedOnce
      [] msg = "parent directory mismatch" -> ~ParentsOK

(* Whenever xfsck exits 1, the image really breaks the rule its message   *)
(* names: no check of main() reports an error in an image that keeps that *)
(* rule, whatever the checks before it let through.                        *)
ErrorIsJustified == status \notin {"running", "ok"} => Broken(status)

(* When xfsck returns 0 the image keeps the rules of checks 1 to 5 and 9  *)
(* to 12: the ones main() enforces for every image checked here.  (Checks *)
(* 6, 7, 8 and the extra check let some broken images through; see the    *)
(* README.)                                                                *)
AcceptedImageSound ==
    status = "ok" =>
        /\ SuperblockOK /\ TypesOK /\ AddressesOK /\ DirsFormatted /\ BitmapCoversUse
        /\ AllReferenced /\ ReferencedInUse /\ LinkCountsOK /\ DirsLinkedOnce
=============================================================================
