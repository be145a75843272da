------------------------------- MODULE FsDisk -------------------------------
(***************************************************************************)
(* The file system on the disk (fs.h) as a value, and the functions of     *)
(* fs.c that read it or build a changed one.  The state machine that uses  *)
(* them is Fs, and Mkfs builds the first one.                              *)
(*                                                                         *)
(* A disk d has the free bit map (bits: the blocks in use), the contents   *)
(* of the data blocks (blk) and the inodes (ino).  d.lw collects the       *)
(* blocks log_write is called on.  d.lost and d.orphans are history: names *)
(* that went away with the directory that held them, and inodes without    *)
(* links that were open when the machine crashed.                          *)
(*                                                                         *)
(* A block has BSIZE units.  A unit stands for what is read and written as *)
(* a whole: a piece of file data, a struct dirent, or a block number in an *)
(* indirect block; <<v, "">> is data or a block number, <<inum, name>> a   *)
(* directory entry, <<0, "">> zeroes.  Offsets and sizes count units.      *)
(***************************************************************************)
EXTENDS Integers, Sequences, FiniteSets, FiniteSetsExt, SequencesExt

CONSTANTS BSIZE,     \* units of a block
          NDIRECT,   \* direct block numbers of an inode
          NBLOCKS,   \* data blocks
          NINODES,   \* inode numbers are 1 .. NINODES - 1
          IPB        \* inodes per block

ASSUME FsDiskAssumption ==
    /\ {BSIZE, NDIRECT, NBLOCKS, IPB} \subseteq Nat \ {0}
    /\ BSIZE > 1 /\ NINODES \in Nat /\ NINODES > 1

NINDIRECT == BSIZE
MAXFILE == NDIRECT + NINDIRECT
ROOTINO == 1
Blocks == 1 .. NBLOCKS
Inums == 1 .. (NINODES - 1)
Offsets == 0 .. (BSIZE - 1)

Zero == <<0, "">>
Data(v) == <<v, "">>
dirent(inum, name) == <<inum, name>>
Inum(unit) == unit[1]
Name(unit) == unit[2]

T_NONE == "none"
T_DIR == "dir"
T_FILE == "file"
T_DEVICE == "device"

\* struct dinode; the in-memory inode has the same fields.
dinode(type, major, nlink) ==
    [type |-> type, major |-> major, nlink |-> nlink, size |-> 0,
     addrs |-> [k \in 0 .. NDIRECT |-> 0]]

NoInode == dinode(T_NONE, 0, 0)

log_write(d, written) == [d EXCEPT !.lw = @ \cup written]

Bitmap == <<"bitmap", 0>>
DataBlock(b) == <<"data", b>>
InodeBlock(inum) == <<"inode", inum \div IPB>>

-----------------------------------------------------------------------------
(* Blocks. *)

\* balloc: the first free block, zeroed; 0 if there is none.
balloc(d) ==
    IF Blocks \subseteq d.bits
    THEN [d |-> d, addr |-> 0]
    ELSE LET b == Min(Blocks \ d.bits)
         IN  [d |-> log_write([d EXCEPT !.bits = @ \cup {b},
                                        !.blk[b] = [o \in Offsets |-> Zero]],
                              {Bitmap, DataBlock(b)}),
              addr |-> b]

\* bfree of every block of bs.
bfree(d, bs) ==
    IF bs = {} THEN d ELSE log_write([d EXCEPT !.bits = @ \ bs], {Bitmap})

\* The address bmap finds for block bn of inode di, 0 if there is none.
Addr(d, di, bn) ==
    IF bn < NDIRECT
    THEN di.addrs[bn]
    ELSE IF di.addrs[NDIRECT] = 0 THEN 0
         ELSE Inum(d.blk[di.addrs[NDIRECT]][bn - NDIRECT])

\* bmap for a block of the indirect block ind, with a new block from balloc.
bmap_indirect(new, di, ind, bn) ==
    [d |-> IF new.addr = 0 THEN new.d
           ELSE log_write([new.d EXCEPT !.blk[ind][bn - NDIRECT] = Data(new.addr)],
                          {DataBlock(ind)}),
     di |-> [di EXCEPT !.addrs[NDIRECT] = ind],
     addr |-> new.addr]

\* bmap for a direct block, or for the first one of the indirect block, which
\* stays with di even if there is no block for the data.
bmap_new(new, di, bn) ==
    IF new.addr = 0
    THEN [d |-> new.d, di |-> di, addr |-> 0]
    ELSE IF bn < NDIRECT
    THEN [d |-> new.d, di |-> [di EXCEPT !.addrs[bn] = new.addr], addr |-> new.addr]
    ELSE bmap_indirect(balloc(new.d), di, new.addr, bn)

\* bmap: the address of block bn of di, allocated if need be; 0 if the disk is
\* full.
bmap(d, di, bn) ==
    IF Addr(d, di, bn) # 0
    THEN [d |-> d, di |-> di, addr |-> Addr(d, di, bn)]
    ELSE IF bn >= NDIRECT /\ di.addrs[NDIRECT] # 0
    THEN bmap_indirect(balloc(d), di, di.addrs[NDIRECT], bn)
    ELSE bmap_new(balloc(d), di, bn)

-----------------------------------------------------------------------------
(* Inodes.  The caller holds the lock of the inode. *)

iupdate(d, inum, di) ==
    log_write([d EXCEPT !.ino[inum] = di], {InodeBlock(inum)})

\* The places of di that hold a block number.
BlockSlots(d, di) ==
    {k \in 0 .. NDIRECT : di.addrs[k] # 0}
      \cup {NDIRECT + 1 + k : k \in {j \in Offsets : di.addrs[NDIRECT] # 0
                                       /\ Inum(d.blk[di.addrs[NDIRECT]][j]) # 0}}

BlockAt(d, di, slot) ==
    IF slot <= NDIRECT THEN di.addrs[slot]
    ELSE Inum(d.blk[di.addrs[NDIRECT]][slot - NDIRECT - 1])

BlocksOf(d, di) == {BlockAt(d, di, k) : k \in BlockSlots(d, di)}

\* bfree panics if a block is free already.
FreesOnce(d, di) ==
    /\ BlocksOf(d, di) \subseteq d.bits
    /\ Cardinality(BlocksOf(d, di)) = Cardinality(BlockSlots(d, di))

\* itrunc without its last step, iupdate.
Truncated(di) == [di EXCEPT !.size = 0, !.addrs = [k \in 0 .. NDIRECT |-> 0]]

itrunc(d, inum, di) == iupdate(bfree(d, BlocksOf(d, di)), inum, Truncated(di))

\* ialloc: the first free inode number gets the type; 0 if there is none.
ialloc(d, type) ==
    LET free == {i \in Inums : d.ino[i].type = T_NONE}
    IN  IF free = {} THEN [d |-> d, inum |-> 0]
        ELSE [d |-> iupdate(d, Min(free), dinode(type, 0, 0)), inum |-> Min(free)]

\* The unit at offset off, which lies inside di and not in a hole.
Unit(d, di, off) == d.blk[Addr(d, di, off \div BSIZE)][off % BSIZE]

\* readi: at most n units from off on.
readi(d, di, off, n) ==
    [k \in 1 .. (IF off > di.size THEN 0 ELSE Min({n, di.size - off})) |->
        Unit(d, di, off + k - 1)]

\* The units, which fit in one block, are copied to m, the block bmap gave.
writei_copy(m, o, units) ==
    IF m.addr = 0 THEN [d |-> m.d, di |-> m.di, tot |-> 0]
    ELSE [d |-> log_write([m.d EXCEPT !.blk[m.addr] =
                              [k \in Offsets |-> IF k \in o .. (o + Len(units) - 1)
                                                 THEN units[k - o + 1] ELSE @[k]]],
                          {DataBlock(m.addr)}),
          di |-> m.di, tot |-> Len(units)]

\* One turn of the loop of writei; tot is what it has written.
writei_block(d, di, off, units) ==
    writei_copy(bmap(d, di, off \div BSIZE), off % BSIZE, units)

\* The inode once the file reaches to end.
Extended(di, end) == IF end > di.size THEN [di EXCEPT !.size = end] ELSE di

\* Fault: the inode is written back only if the size has changed.
writei_end_size_only(w, inum, end) ==
    [w EXCEPT !.d = IF end > w.di.size THEN iupdate(@, inum, Extended(w.di, end)) ELSE @,
              !.di = Extended(@, end)]

\* After the loop, which wrote up to end and left w: bmap may have added a block
\* to the inode even if the size has not changed.
writei_end(w, inum, end) ==
    [w EXCEPT !.d = iupdate(@, inum, Extended(w.di, end)), !.di = Extended(@, end)]

writei_last(w, inum, off) == writei_end(w, inum, off + w.tot)

\* writei of one unit (a directory entry).
writei_entry(d, inum, di, off, unit) ==
    IF off > di.size \/ off + 1 > MAXFILE * BSIZE
    THEN [d |-> d, di |-> di, tot |-> 0]
    ELSE writei_last(writei_block(d, di, off, <<unit>>), inum, off)

-----------------------------------------------------------------------------
(* Directories. *)

Entries(d, di) == {off \in 0 .. (di.size - 1) : Inum(Unit(d, di, off)) # 0}

\* The offsets of the entries of di named name.
Matches(d, di, name) == {off \in Entries(d, di) : Name(Unit(d, di, off)) = name}

\* dirlookup without its iget: inode number and offset, 0 if there is none.
dirlookup(d, di, name) ==
    LET m == Matches(d, di, name)
    IN  IF m = {} THEN [inum |-> 0, off |-> 0]
        ELSE [inum |-> Inum(Unit(d, di, Min(m))), off |-> Min(m)]

\* dirlink: the entry goes to the first empty place, or to the end.
dirlink(d, inum, di, name, target) ==
    IF Matches(d, di, name) # {}
    THEN [d |-> d, di |-> di, tot |-> 0]
    ELSE writei_entry(d, inum, di, Min((0 .. di.size) \ Entries(d, di)),
                      dirent(target, name))

\* isdirempty: entries 0 and 1 are "." and "..".
isdirempty(d, di) == Entries(d, di) \subseteq {0, 1}

=============================================================================
