-------------------------------- MODULE Mkfs --------------------------------
(***************************************************************************)
(* The image that mkfs.c writes: a root directory with the given files, a  *)
(* sequence of [name, data] records.                                       *)
(***************************************************************************)
EXTENDS FsDisk

EmptyDisk ==
    [bits |-> {}, blk |-> [b \in Blocks |-> [o \in Offsets |-> Zero]],
     ino |-> [i \in Inums |-> NoInode], lw |-> {},
     lost |-> [i \in Inums |-> 0], orphans |-> {}]

\* mkfs's ialloc takes the numbers in order, and its files start with a link.
mkfs_ialloc(d, type) ==
    LET linked(a) == [a EXCEPT !.d.ino[a.inum] = dinode(type, 0, 1)]
    IN  linked(ialloc(d, type))

\* Units from offset off on, cut at the ends of blocks.
Chunks(off, units) ==
    LET o == off % BSIZE
        n == (o + Len(units) + BSIZE - 1) \div BSIZE
        at(k) == IF k = 0 THEN 1 ELSE Min({k * BSIZE - o, Len(units)}) + 1
    IN  [k \in 1 .. n |-> SubSeq(units, at(k - 1), at(k) - 1)]

\* A turn of the loop of iappend.
iappend_block(d, inum, units) ==
    LET di == d.ino[inum]
    IN  writei_last(writei_block(d, di, di.size, units), inum, di.size).d

iappend(d, inum, units) ==
    FoldLeft(LAMBDA e, chunk : iappend_block(e, inum, chunk), d, Chunks(d.ino[inum].size, units))

mkfs_file(d, f) ==
    LET fill(a) == iappend(iappend(a.d, ROOTINO, <<dirent(a.inum, f.name)>>), a.inum, f.data)
    IN  fill(mkfs_ialloc(d, T_FILE))

\* The files, as long as there are blocks for them.
RECURSIVE mkfs_files(_, _)
mkfs_files(d, files) ==
    IF files = <<>> \/ d.bits = Blocks THEN d
    ELSE mkfs_files(mkfs_file(d, Head(files)), Tail(files))

\* At the end the root directory is rounded up to the next block.
mkfs(files) ==
    LET root == iappend(mkfs_ialloc(EmptyDisk, T_DIR).d, ROOTINO,
                        <<dirent(ROOTINO, "."), dirent(ROOTINO, "..")>>)
    IN  [mkfs_files(root, files) EXCEPT !.ino[ROOTINO].size = (@ \div BSIZE + 1) * BSIZE,
                                        !.lw = {}]

=============================================================================
