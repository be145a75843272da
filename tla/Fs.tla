--------------------------------- MODULE Fs ---------------------------------
(***************************************************************************)
(* Inodes, directories, paths, open files and the system calls on them     *)
(* (fs.c, file.c, sysfile.c), run by several processes at once, on a disk  *)
(* that commits when no operation is open and may crash.                   *)
(*                                                                         *)
(* The log is used through what AtomicDisk promises: disk is what the      *)
(* buffers say, stable what recovery would find; end_op of the last open   *)
(* operation makes them equal.                                             *)
(*                                                                         *)
(* A process in a call has a stack pc[p] of frames <<label, argument>> of  *)
(* work still to do, the current one first, and its locals in u[p].  A     *)
(* step is what the code does under the locks it takes between two points  *)
(* where another process may interfere; a sleep lock that stays held is    *)
(* recorded in the inode table.                                            *)
(***************************************************************************)
EXTENDS FsDisk

CONSTANTS Procs, Nobody,
          NINODE,       \* entries of the inode table
          NFILE,        \* entries of the file table
          NOFILE,       \* descriptors of a process
          NPIPE,        \* pipes that fit in memory
          PIPESIZE,
          MAXOPBLOCKS,  \* log blocks reserved for an operation
          MAXPATH,
          NDEV          \* device numbers are 0 .. NDEV - 1

ASSUME FsAssumption ==
    /\ {NINODE, NFILE, NOFILE, PIPESIZE, MAXPATH, NDEV} \subseteq Nat \ {0}
    /\ NPIPE \in Nat /\ MAXOPBLOCKS \in Nat /\ MAXOPBLOCKS >= 6
    /\ Nobody \notin Procs

VARIABLES disk, stable,
          inop,      \* the processes between begin_op and end_op
          wrote,     \* the blocks the operation of a process has logged
          itable, ftable, ofile, cwd, pipes,
          tty,       \* the lines typed at the console, the data written to it
          pc, u,
          panic      \* the message of the panic, "" while the machine runs

mem == <<itable, ftable, ofile, cwd, pipes, tty>>
vars == <<disk, stable, inop, wrote, mem, pc, u, panic>>

Slots == 1 .. NINODE
FileSlots == 1 .. NFILE
Fds == 0 .. (NOFILE - 1)

NoEntry == [inum |-> 0, ref |-> 0, valid |-> FALSE, lock |-> Nobody, di |-> NoInode]
NoFile == [ref |-> 0, type |-> "FD_NONE", readable |-> FALSE, writable |-> FALSE,
           ip |-> 0, pipe |-> 0, off |-> 0, major |-> 0]
NoPipe == [q |-> <<>>, readopen |-> FALSE, writeopen |-> FALSE]

\* The locals of the functions on the stack: the inode and the directory they
\* work on, the rest of the path, its last element, an argument of the call;
\* and the result of the last call, with the data it read.
NoLocals == [ip |-> 0, dp |-> 0, path |-> <<>>, name |-> "", x |-> <<>>,
             ret |-> 0, data |-> <<>>]

\* Booting: every process starts in the root directory, without open files.
\* fsinit, iinit and fileinit leave the tables empty.
BootMem(procs) ==
    /\ itable' = [s \in Slots |-> IF s = 1 /\ procs # {}
                                  THEN [NoEntry EXCEPT !.inum = ROOTINO,
                                                       !.ref = Cardinality(procs)]
                                  ELSE NoEntry]
    /\ ftable' = [f \in FileSlots |-> NoFile]
    /\ ofile' = [p \in Procs |-> [fd \in Fds |-> 0]]
    /\ cwd' = [p \in Procs |-> IF p \in procs THEN 1 ELSE 0]
    /\ pipes' = [i \in 1 .. NPIPE |-> NoPipe]
    /\ tty' = [in |-> <<>>, out |-> <<>>]
    /\ inop' = {}
    /\ wrote' = [p \in Procs |-> {}]
    /\ pc' = [p \in Procs |-> <<>>]
    /\ u' = [p \in Procs |-> NoLocals]

FsInit(procs, image) ==
    /\ disk = image
    /\ stable = disk
    /\ itable = [s \in Slots |-> IF s = 1
                                 THEN [NoEntry EXCEPT !.inum = ROOTINO,
                                                      !.ref = Cardinality(procs)]
                                 ELSE NoEntry]
    /\ ftable = [f \in FileSlots |-> NoFile]
    /\ ofile = [p \in Procs |-> [fd \in Fds |-> 0]]
    /\ cwd = [p \in Procs |-> IF p \in procs THEN 1 ELSE 0]
    /\ pipes = [i \in 1 .. NPIPE |-> NoPipe]
    /\ tty = [in |-> <<>>, out |-> <<>>]
    /\ inop = {}
    /\ wrote = [p \in Procs |-> {}]
    /\ pc = [p \in Procs |-> <<>>]
    /\ u = [p \in Procs |-> NoLocals]
    /\ panic = ""

-----------------------------------------------------------------------------
(* Frames. *)

Frame(label, arg) == <<label, arg>>
At(p, label) == panic = "" /\ pc[p] # <<>> /\ pc[p][1][1] = label
Arg(p) == pc[p][1][2]
Rest(p) == Tail(pc[p])
InUser(p) == panic = "" /\ pc[p] = <<>>

Panic(message) ==
    /\ panic' = message
    /\ UNCHANGED <<disk, stable, inop, wrote, mem, pc, u>>

\* A step of p: disk and inode table become d and t, the frames fs replace the
\* current one, the locals become l.  log_write wants an open operation.
Do(p, d, t, fs, l) ==
    /\ disk' = [d EXCEPT !.lw = {}]
    /\ wrote' = [wrote EXCEPT ![p] = @ \cup d.lw]
    /\ itable' = t
    /\ pc' = [pc EXCEPT ![p] = fs \o Rest(p)]
    /\ u' = [u EXCEPT ![p] = l]
    /\ panic' = IF d.lw # {} /\ p \notin inop THEN "log_write outside of trans" ELSE ""
    /\ UNCHANGED <<stable, inop, ftable, ofile, cwd, pipes, tty>>

Returning(p, v) == [u[p] EXCEPT !.ret = v]

-----------------------------------------------------------------------------
(* The inode table. *)

\* iget: the entry of inum, or the first one that is not in use; s = 0 if all
\* are in use (iget panics).
iget(t, inum) ==
    LET hit == {s \in Slots : t[s].ref > 0 /\ t[s].inum = inum}
        empty == {s \in Slots : t[s].ref = 0}
        s == IF hit # {} THEN Min(hit) ELSE IF empty # {} THEN Min(empty) ELSE 0
    IN  [s |-> s,
         t |-> IF hit # {} THEN [t EXCEPT ![s].ref = @ + 1]
               ELSE IF empty # {} THEN [t EXCEPT ![s] = [NoEntry EXCEPT !.inum = inum, !.ref = 1]]
               ELSE t]

idup(t, s) == [t EXCEPT ![s].ref = @ + 1]

\* An entry nobody refers to may be recycled: its fields are dead.
Dropped(t, s) == IF t[s].ref = 1 THEN [t EXCEPT ![s] = NoEntry]
                 ELSE [t EXCEPT ![s].ref = @ - 1]

Free(s) == itable[s].lock = Nobody

\* What the inode says once ilock has it; T_NONE makes ilock panic.
Inode(s) == IF itable[s].valid THEN itable[s].di ELSE disk.ino[itable[s].inum]

ilock(t, s, p, di) == [t EXCEPT ![s].lock = p, ![s].valid = TRUE, ![s].di = di]
iunlock(t, s, di) == [t EXCEPT ![s].lock = Nobody, ![s].valid = TRUE, ![s].di = di]

NoType == "ilock: no type"
NoInodes == "iget: no inodes"

\* Fault: the count is compared as if it had been decremented before.
iput_never_frees(p) ==
    /\ At(p, "iput")
    /\ IF itable[Arg(p)].ref = 0 /\ itable[Arg(p)].di.nlink = 0
       THEN Do(p, disk, itable, <<Frame("iput_free", Arg(p))>>, u[p])
       ELSE Do(p, disk, Dropped(itable, Arg(p)), <<>>, u[p])

\* Fault: frees an inode without links whoever else has it open.
iput_frees_open(p) ==
    /\ At(p, "iput")
    /\ LET s == Arg(p)
           e == itable[s]
       IN  IF e.valid /\ e.di.nlink = 0
           THEN Free(s) /\ Do(p, disk, [itable EXCEPT ![s].lock = p], <<Frame("iput_free", s)>>, u[p])
           ELSE Do(p, disk, Dropped(itable, s), <<>>, u[p])

\* iput: the last reference to an inode without links frees it.  acquiresleep
\* under itable.lock must not have to wait (it would sleep holding a spinlock).
iput(p) ==
    /\ At(p, "iput")
    /\ LET s == Arg(p)
           e == itable[s]
       IN  IF e.ref = 1 /\ e.valid /\ e.di.nlink = 0
           THEN IF ~Free(s) THEN Panic("sched locks")
                ELSE Do(p, disk, [itable EXCEPT ![s].lock = p],
                        <<Frame("iput_free", s)>>, u[p])
           ELSE Do(p, disk, Dropped(itable, s), <<>>, u[p])

\* History: the entries of a directory that is freed name nothing any more.
LostNames(d, di) ==
    [i \in Inums |-> d.lost[i] +
        IF di.type # T_DIR THEN 0
        ELSE Cardinality({off \in Entries(d, di) \ {0, 1} : Inum(Unit(d, di, off)) = i})]

\* iput, the part between its two critical sections.
iput_free(p) ==
    /\ At(p, "iput_free")
    /\ LET s == Arg(p)
           e == itable[s]
           d == [disk EXCEPT !.lost = LostNames(disk, e.di)]
       IN  IF ~FreesOnce(disk, e.di) THEN Panic("freeing free block")
           ELSE Do(p, iupdate(itrunc(d, e.inum, e.di), e.inum,
                              [Truncated(e.di) EXCEPT !.type = T_NONE]),
                   [itable EXCEPT ![s].valid = FALSE, ![s].lock = Nobody, ![s].di = NoInode],
                   <<Frame("iput_dec", s)>>, u[p])

\* The second critical section does not look again: an inode that got the number
\* meanwhile and lost its links again is forgotten (history: orphans).
iput_dec(p) ==
    /\ At(p, "iput_dec")
    /\ LET e == itable[Arg(p)]
           forgotten == {i \in {e.inum} : e.ref = 1 /\ e.valid /\ e.di.nlink = 0}
       IN  Do(p, [disk EXCEPT !.orphans = @ \cup forgotten],
              Dropped(itable, Arg(p)), <<>>, u[p])

iunlockput(p) ==
    /\ At(p, "iunlockput")
    /\ Do(p, disk, [itable EXCEPT ![Arg(p)].lock = Nobody],
          <<Frame("iput", Arg(p))>>, u[p])

\* end_op: the last one commits what everybody wrote.
end_op(p) ==
    /\ At(p, "end_op")
    /\ inop' = inop \ {p}
    /\ stable' = IF inop = {p} THEN disk ELSE stable
    /\ wrote' = [wrote EXCEPT ![p] = {}]
    /\ pc' = [pc EXCEPT ![p] = Rest(p)]
    /\ u' = [u EXCEPT ![p] = IF Rest(p) = <<>>
                             THEN [NoLocals EXCEPT !.ret = u[p].ret, !.data = u[p].data]
                             ELSE @]
    /\ UNCHANGED <<disk, mem, panic>>

-----------------------------------------------------------------------------
(* Paths.  A path is a sequence of names and slashes. *)

IsAbs(path) == path # <<>> /\ path[1] = "/"

SkipSlashes(path) ==
    LET names == {i \in 1 .. Len(path) : path[i] # "/"}
    IN  IF names = {} THEN <<>> ELSE SubSeq(path, Min(names), Len(path))

\* skipelem: the first name of the path, and what follows the slashes after it.
skipelem(path) ==
    LET p == SkipSlashes(path)
    IN  [name |-> p[1], rest |-> SkipSlashes(Tail(p))]

\* Where namex starts.
Start(t, p, path) == IF IsAbs(path) THEN iget(t, ROOTINO)
                     ELSE [s |-> cwd[p], t |-> idup(t, cwd[p])]

\* One path element of namex, or its end.  The lock of u.ip is taken and
\* released within the step.  The argument tells namei ("inode") from
\* nameiparent ("parent"); the result is in u.ip, 0 if there is none.
namex(p) ==
    /\ At(p, "namex")
    /\ LET s == u[p].ip
           path == u[p].path
           elem == skipelem(path)
           di == Inode(s)
           e == dirlookup(disk, di, elem.name)
           g == iget(itable, e.inum)
           none == [u[p] EXCEPT !.ip = 0, !.path = <<>>]
           put == Frame("iput", s)
       IN  IF SkipSlashes(path) = <<>>
           THEN IF Arg(p) = "inode" THEN Do(p, disk, itable, <<>>, u[p])
                ELSE Do(p, disk, itable, <<put>>, none)
           ELSE /\ Free(s)
                /\ IF di.type = T_NONE THEN Panic(NoType)
                   ELSE IF di.type # T_DIR
                   THEN Do(p, disk, iunlock(itable, s, di), <<put>>, none)
                   ELSE IF Arg(p) = "parent" /\ elem.rest = <<>>
                   THEN Do(p, disk, iunlock(itable, s, di), <<>>,
                           [u[p] EXCEPT !.path = <<>>, !.name = elem.name])
                   ELSE IF e.inum = 0
                   THEN Do(p, disk, iunlock(itable, s, di), <<put>>, none)
                   ELSE IF g.s = 0 THEN Panic(NoInodes)
                   ELSE Do(p, disk, iunlock(g.t, s, di),
                           IF elem.rest = <<>> THEN <<put>> ELSE <<put, pc[p][1]>>,
                           [u[p] EXCEPT !.ip = g.s, !.path = elem.rest])

\* A call that is over in one step.
Return(p, v, data) == u' = [u EXCEPT ![p] = [NoLocals EXCEPT !.ret = v, !.data = data]]

Fails(p) == Return(p, -1, <<>>) /\ UNCHANGED <<disk, stable, inop, wrote, mem, pc, panic>>

\* argstr refuses a string that does not fit.
TooLong(path) == Len(path) >= MAXPATH

\* The start of a system call on a path: argstr, begin_op and the start of namex.
PathCall(p, path, want, fs, x) ==
    /\ InUser(p)
    /\ LET g == Start(itable, p, path)
       IN  IF TooLong(path) THEN Fails(p)
           ELSE IF g.s = 0 THEN Panic(NoInodes)
           ELSE /\ inop' = inop \cup {p}
                /\ itable' = g.t
                /\ pc' = [pc EXCEPT ![p] = <<Frame("namex", want)>> \o fs
                                             \o <<Frame("end_op", 0)>>]
                /\ u' = [u EXCEPT ![p] = [NoLocals EXCEPT !.ip = g.s, !.path = path,
                                                          !.x = x, !.ret = -1]]
                /\ UNCHANGED <<disk, stable, wrote, ftable, ofile, cwd, pipes, tty, panic>>

-----------------------------------------------------------------------------
(* create().  The argument of the frames is the type.  The inode is left     *)
(* locked in u.ip, or u.ip is 0.                                             *)

create(p) ==
    /\ At(p, "create")
    /\ LET s == u[p].ip
           di == Inode(s)
           e == dirlookup(disk, di, u[p].name)
           g == iget(itable, e.inum)
       IN  IF s = 0 THEN Do(p, disk, itable, <<>>, u[p])
           ELSE /\ Free(s)
                /\ IF e.inum = 0
                   THEN Do(p, disk, ilock(itable, s, p, di),
                           <<Frame("create_new", Arg(p))>>, [u[p] EXCEPT !.dp = s])
                   ELSE IF g.s = 0 THEN Panic(NoInodes)
                   ELSE Do(p, disk, iunlock(g.t, s, di),
                           <<Frame("iput", s), Frame("create_old", Arg(p))>>,
                           [u[p] EXCEPT !.ip = g.s])

create_old(p) ==
    /\ At(p, "create_old")
    /\ LET s == u[p].ip
           di == Inode(s)
       IN  /\ Free(s)
           /\ IF di.type = T_NONE THEN Panic(NoType)
              ELSE IF Arg(p) = T_FILE /\ di.type \in {T_FILE, T_DEVICE}
              THEN Do(p, disk, ilock(itable, s, p, di), <<>>, u[p])
              ELSE Do(p, disk, iunlock(itable, s, di), <<Frame("iput", s)>>,
                      [u[p] EXCEPT !.ip = 0])

create_new(p) ==
    /\ At(p, "create_new")
    /\ LET a == ialloc(disk, Arg(p))
           g == iget(itable, a.inum)
       IN  IF a.inum = 0
           THEN Do(p, disk, itable, <<Frame("iunlockput", u[p].dp)>>,
                   [u[p] EXCEPT !.ip = 0])
           ELSE IF g.s = 0 THEN Panic(NoInodes)
           ELSE Do(p, a.d, g.t, <<Frame("create_fill", Arg(p))>>,
                   [u[p] EXCEPT !.ip = g.s])

\* The entries "." and ".." of the new directory inum in dp.
DotEntries(d, inum, di, dp) ==
    LET dotdot(dot) == IF dot.tot = 1 THEN dirlink(dot.d, inum, dot.di, "..", dp) ELSE dot
    IN  dotdot(dirlink(d, inum, di, ".", inum))

\* From ilock(ip) to the end, both locks held.
create_fill(p) ==
    /\ At(p, "create_fill")
    /\ LET s == u[p].ip
           dp == u[p].dp
           inum == itable[s].inum
           made == [Inode(s) EXCEPT !.nlink = 1,
                                    !.major = IF Arg(p) = T_DEVICE THEN u[p].x ELSE 0]
           filled == IF Arg(p) = T_DIR
                     THEN DotEntries(iupdate(disk, inum, made), inum, made, itable[dp].inum)
                     ELSE [d |-> iupdate(disk, inum, made), di |-> made, tot |-> 1]
           linked(dots) ==
               IF dots.tot = 1
               THEN dirlink(dots.d, itable[dp].inum, itable[dp].di, u[p].name, inum)
               ELSE [dots EXCEPT !.di = itable[dp].di]
       IN  /\ Free(s)
           /\ \E dots \in {filled} : \E l \in {linked(dots)} :
              LET parent == IF Arg(p) = T_DIR THEN [l.di EXCEPT !.nlink = @ + 1] ELSE l.di
                  gone == [dots.di EXCEPT !.nlink = 0]
              IN  IF l.tot = 1
                  THEN Do(p, IF Arg(p) = T_DIR THEN iupdate(l.d, itable[dp].inum, parent) ELSE l.d,
                          iunlock(ilock(itable, s, p, dots.di), dp, parent),
                          <<Frame("iput", dp)>>, [u[p] EXCEPT !.dp = 0])
                  ELSE Do(p, iupdate(l.d, inum, gone),
                          [iunlock(itable, s, gone) EXCEPT ![dp].di = l.di],
                          <<Frame("iput", s), Frame("iunlockput", dp)>>,
                          [u[p] EXCEPT !.ip = 0, !.dp = 0])

-----------------------------------------------------------------------------
(* open, mkdir, mknod, chdir.                                                *)

\* The flags of open; O_RDONLY is the absence of the others.
O_RDONLY == {}
O_WRONLY == {"WRONLY"}
O_RDWR == {"RDWR"}
O_CREATE == {"CREATE"}
O_TRUNC == {"TRUNC"}

sys_open(p, path, omode) ==
    PathCall(p, path, IF O_CREATE \subseteq omode THEN "parent" ELSE "inode",
             (IF O_CREATE \subseteq omode THEN <<Frame("create", T_FILE)>> ELSE <<>>)
               \o <<Frame("open", 0)>>,
             omode)

FreeFiles == {f \in FileSlots : ftable[f].ref = 0}
FreeFds(p) == {fd \in Fds : ofile[p][fd] = 0}

\* sys_open once it has the inode: locked by create, or to be locked now.
open(p) ==
    /\ At(p, "open")
    /\ LET s == u[p].ip
           di == Inode(s)
           omode == u[p].x
           f == Min(FreeFiles)
           fd == Min(FreeFds(p))
           file == [NoFile EXCEPT !.ref = 1,
                        !.type = IF di.type = T_DEVICE THEN "FD_DEVICE" ELSE "FD_INODE",
                        !.ip = s, !.major = di.major,
                        !.readable = ~(O_WRONLY \subseteq omode),
                        !.writable = omode \cap {"WRONLY", "RDWR"} # {}]
           refused == \/ ~(O_CREATE \subseteq omode) /\ di.type = T_DIR /\ omode # O_RDONLY
                      \/ di.type = T_DEVICE /\ di.major >= NDEV
                      \/ FreeFiles = {} \/ FreeFds(p) = {}
           trunc == O_TRUNC \subseteq omode /\ di.type = T_FILE
           d == IF trunc THEN itrunc(disk, itable[s].inum, di) ELSE disk
       IN  IF s = 0 THEN Do(p, disk, itable, <<>>, u[p])
           ELSE /\ itable[s].lock \in {p, Nobody}
                /\ IF di.type = T_NONE THEN Panic(NoType)
                   ELSE IF refused
                   THEN Do(p, disk, iunlock(itable, s, di), <<Frame("iput", s)>>, u[p])
                   ELSE IF trunc /\ ~FreesOnce(disk, di) THEN Panic("freeing free block")
                   ELSE /\ disk' = [d EXCEPT !.lw = {}]
                        /\ wrote' = [wrote EXCEPT ![p] = @ \cup d.lw]
                        /\ itable' = iunlock(itable, s, IF trunc THEN Truncated(di) ELSE di)
                        /\ ftable' = [ftable EXCEPT ![f] = file]
                        /\ ofile' = [ofile EXCEPT ![p][fd] = f]
                        /\ pc' = [pc EXCEPT ![p] = Rest(p)]
                        /\ u' = [u EXCEPT ![p].ret = fd]
                        /\ UNCHANGED <<stable, inop, cwd, pipes, tty, panic>>

sys_mkdir(p, path) ==
    PathCall(p, path, "parent", <<Frame("create", T_DIR), Frame("made", 0)>>, 0)

sys_mknod(p, path, major) ==
    PathCall(p, path, "parent", <<Frame("create", T_DEVICE), Frame("made", 0)>>, major)

\* The end of sys_mkdir and sys_mknod.
made(p) ==
    /\ At(p, "made")
    /\ IF u[p].ip = 0 THEN Do(p, disk, itable, <<>>, u[p])
       ELSE Do(p, disk, [itable EXCEPT ![u[p].ip].lock = Nobody],
               <<Frame("iput", u[p].ip)>>, Returning(p, 0))

sys_chdir(p, path) == PathCall(p, path, "inode", <<Frame("chdir", 0)>>, 0)

\* p->cwd is assigned after end_op; only p looks at it.
chdir(p) ==
    /\ At(p, "chdir")
    /\ LET s == u[p].ip
           di == Inode(s)
       IN  IF s = 0 THEN Do(p, disk, itable, <<>>, u[p])
           ELSE /\ Free(s)
                /\ IF di.type = T_NONE THEN Panic(NoType)
                   ELSE IF di.type # T_DIR
                   THEN Do(p, disk, iunlock(itable, s, di), <<Frame("iput", s)>>, u[p])
                   ELSE /\ itable' = iunlock(itable, s, di)
                        /\ cwd' = [cwd EXCEPT ![p] = s]
                        /\ pc' = [pc EXCEPT ![p] = <<Frame("iput", cwd[p])>> \o Rest(p)]
                        /\ u' = [u EXCEPT ![p].ret = 0]
                        /\ UNCHANGED <<disk, stable, inop, wrote, ftable, ofile, pipes, tty, panic>>

-----------------------------------------------------------------------------
(* link and unlink.                                                          *)

sys_link(p, old, new) ==
    IF TooLong(new) THEN InUser(p) /\ Fails(p)
    ELSE PathCall(p, old, "inode", <<Frame("link", new)>>, 0)

\* The link count goes up first; u.dp keeps ip while namex looks for the parent.
link(p) ==
    /\ At(p, "link")
    /\ LET s == u[p].ip
           di == Inode(s)
           more == [di EXCEPT !.nlink = @ + 1]
           g == Start(itable, p, Arg(p))
       IN  IF s = 0 THEN Do(p, disk, itable, <<>>, u[p])
           ELSE /\ Free(s)
                /\ IF di.type = T_NONE THEN Panic(NoType)
                   ELSE IF di.type = T_DIR
                   THEN Do(p, disk, iunlock(itable, s, di), <<Frame("iput", s)>>, u[p])
                   ELSE IF g.s = 0 THEN Panic(NoInodes)
                   ELSE Do(p, iupdate(disk, itable[s].inum, more), iunlock(g.t, s, more),
                           <<Frame("namex", "parent"), Frame("link_dir", 0)>>,
                           [u[p] EXCEPT !.dp = s, !.ip = g.s, !.path = Arg(p)])

\* dirlink looks the name up, with a reference it drops if the name exists.
link_dir(p) ==
    /\ At(p, "link_dir")
    /\ LET dp == u[p].ip
           s == u[p].dp
           di == Inode(dp)
           g == iget(itable, dirlookup(disk, di, u[p].name).inum)
           linked == dirlink(disk, itable[dp].inum, di, u[p].name, itable[s].inum)
       IN  IF dp = 0 THEN Do(p, disk, itable, <<Frame("link_bad", s)>>, u[p])
           ELSE /\ Free(dp)
                /\ IF Matches(disk, di, u[p].name) # {}
                   THEN IF g.s = 0 THEN Panic(NoInodes)
                        ELSE Do(p, disk, ilock(g.t, dp, p, di),
                                <<Frame("iput", g.s), Frame("iunlockput", dp),
                                  Frame("link_bad", s)>>, u[p])
                   ELSE \E l \in {linked} :
                        Do(p, l.d, iunlock(itable, dp, l.di),
                           <<Frame("iput", dp), Frame(IF l.tot = 1 THEN "iput" ELSE "link_bad", s)>>,
                           [u[p] EXCEPT !.ip = 0, !.dp = 0, !.ret = IF l.tot = 1 THEN 0 ELSE -1])

\* Fault: the failed link keeps its reference.
link_bad_no_put(p) ==
    /\ At(p, "link_bad")
    /\ LET s == Arg(p)
           less == [Inode(s) EXCEPT !.nlink = @ - 1]
       IN  /\ Free(s)
           /\ Do(p, iupdate(disk, itable[s].inum, less), iunlock(itable, s, less), <<>>, u[p])

link_bad(p) ==
    /\ At(p, "link_bad")
    /\ LET s == Arg(p)
           di == Inode(s)
           less == [di EXCEPT !.nlink = @ - 1]
       IN  /\ Free(s)
           /\ Do(p, iupdate(disk, itable[s].inum, less), iunlock(itable, s, less),
                 <<Frame("iput", s)>>, u[p])

sys_unlink(p, path) == PathCall(p, path, "parent", <<Frame("unlink", 0)>>, 0)

\* The parent stays locked while the inode is looked up and locked.
unlink(p) ==
    /\ At(p, "unlink")
    /\ LET dp == u[p].ip
           di == Inode(dp)
           e == dirlookup(disk, di, u[p].name)
           g == iget(itable, e.inum)
       IN  IF dp = 0 THEN Do(p, disk, itable, <<>>, u[p])
           ELSE /\ Free(dp)
                /\ IF u[p].name \in {".", ".."} \/ e.inum = 0
                   THEN Do(p, disk, iunlock(itable, dp, di), <<Frame("iput", dp)>>, u[p])
                   ELSE IF g.s = 0 THEN Panic(NoInodes)
                   ELSE Do(p, disk, ilock(g.t, dp, p, di), <<Frame("unlink_ip", e.off)>>,
                           [u[p] EXCEPT !.ip = g.s, !.dp = dp])

unlink_ip(p) ==
    /\ At(p, "unlink_ip")
    /\ LET s == u[p].ip
           dp == u[p].dp
           di == Inode(s)
           dpnum == itable[dp].inum
           parent(w) == IF di.type = T_DIR THEN [w.di EXCEPT !.nlink = @ - 1] ELSE w.di
       IN  /\ Free(s)
           /\ IF di.type = T_NONE THEN Panic(NoType)
              ELSE IF di.nlink < 1 THEN Panic("unlink: nlink < 1")
              ELSE IF di.type = T_DIR /\ ~isdirempty(disk, di)
              THEN Do(p, disk, iunlock(itable, s, di),
                      <<Frame("iput", s), Frame("iunlockput", dp)>>, u[p])
              ELSE \E w \in {writei_entry(disk, dpnum, itable[dp].di, Arg(p), Zero)} :
                   IF w.tot # 1 THEN Panic("unlink: writei")
                   ELSE Do(p, IF di.type = T_DIR THEN iupdate(w.d, dpnum, parent(w)) ELSE w.d,
                           iunlock(ilock(itable, s, p, di), dp, parent(w)),
                           <<Frame("iput", dp), Frame("unlink_dec", s)>>, u[p])

unlink_dec(p) ==
    /\ At(p, "unlink_dec")
    /\ LET s == Arg(p)
           less == [itable[s].di EXCEPT !.nlink = @ - 1]
       IN  Do(p, iupdate(disk, itable[s].inum, less), iunlock(itable, s, less),
              <<Frame("iput", s)>>, Returning(p, 0))

-----------------------------------------------------------------------------
(* Descriptors and files.  A call on a descriptor that is not open returns   *)
(* -1 (argfd).                                                               *)

argfd(p, fd) == IF fd \in Fds THEN ofile[p][fd] ELSE 0

sys_dup(p, fd) ==
    /\ InUser(p)
    /\ LET f == argfd(p, fd)
       IN  IF f = 0 \/ FreeFds(p) = {} THEN Fails(p)
           ELSE /\ ofile' = [ofile EXCEPT ![p][Min(FreeFds(p))] = f]
                /\ ftable' = [ftable EXCEPT ![f].ref = @ + 1]
                /\ Return(p, Min(FreeFds(p)), <<>>)
                /\ UNCHANGED <<disk, stable, inop, wrote, itable, cwd, pipes, tty, pc, panic>>

\* The descriptor is free before the file is closed.
sys_close(p, fd) ==
    /\ InUser(p)
    /\ LET f == argfd(p, fd)
       IN  IF f = 0 THEN Fails(p)
           ELSE /\ ofile' = [ofile EXCEPT ![p][fd] = 0]
                /\ pc' = [pc EXCEPT ![p] = <<Frame("fileclose", f)>>]
                /\ Return(p, 0, <<>>)
                /\ UNCHANGED <<disk, stable, inop, wrote, itable, ftable, cwd, pipes, tty, panic>>

pipeclose(ps, i, writable) ==
    LET one == IF writable THEN [ps EXCEPT ![i].writeopen = FALSE]
               ELSE [ps EXCEPT ![i].readopen = FALSE]
    IN  IF one[i].readopen \/ one[i].writeopen THEN one ELSE [ps EXCEPT ![i] = NoPipe]

\* fileclose, with the begin_op of the last close of an inode.
fileclose(p) ==
    /\ At(p, "fileclose")
    /\ LET f == Arg(p)
           ff == ftable[f]
           last == ff.ref = 1
       IN  IF ff.ref < 1 THEN Panic("fileclose")
           ELSE /\ ftable' = [ftable EXCEPT ![f] = IF last THEN NoFile
                                                   ELSE [@ EXCEPT !.ref = @ - 1]]
                /\ pipes' = IF last /\ ff.type = "FD_PIPE"
                            THEN pipeclose(pipes, ff.pipe, ff.writable) ELSE pipes
                /\ IF last /\ ff.type \in {"FD_INODE", "FD_DEVICE"}
                   THEN /\ inop' = inop \cup {p}
                        /\ pc' = [pc EXCEPT ![p] =
                                    <<Frame("iput", ff.ip), Frame("end_op", 0)>> \o Rest(p)]
                   ELSE /\ pc' = [pc EXCEPT ![p] = Rest(p)]
                        /\ UNCHANGED inop
                /\ UNCHANGED <<disk, stable, wrote, itable, ofile, cwd, tty, u, panic>>

sys_fstat(p, fd) ==
    /\ InUser(p)
    /\ LET f == argfd(p, fd)
           s == ftable[f].ip
           di == Inode(s)
       IN  IF f = 0 THEN Fails(p)
           ELSE IF ftable[f].type \notin {"FD_INODE", "FD_DEVICE"} THEN Fails(p)
           ELSE /\ Free(s)
                /\ itable' = iunlock(itable, s, di)
                /\ Return(p, 0, <<itable[s].inum, di.type, di.nlink, di.size>>)
                /\ UNCHANGED <<disk, stable, inop, wrote, ftable, ofile, cwd, pipes, tty, pc, panic>>

-----------------------------------------------------------------------------
(* Reading and writing.                                                      *)

CONSOLE == 1    \* the only device with read and write functions

\* fileread and filewrite give up before they do anything.
CannotRead(f) == f = 0 \/ ~ftable[f].readable
                   \/ (ftable[f].type = "FD_DEVICE" /\ ftable[f].major # CONSOLE)
CannotWrite(f) == f = 0 \/ ~ftable[f].writable
                    \/ (ftable[f].type = "FD_DEVICE" /\ ftable[f].major # CONSOLE)

\* Fault: the result of copyout is not looked at.
readinode_unchecked(p, f, n, good) ==
    LET s == ftable[f].ip
        di == Inode(s)
        data == readi(disk, di, ftable[f].off, n)
    IN  /\ Free(s)
        /\ itable' = iunlock(itable, s, di)
        /\ ftable' = [ftable EXCEPT ![f].off = @ + Len(data)]
        /\ Return(p, Len(data), data)
        /\ UNCHANGED <<disk, stable, inop, wrote, ofile, cwd, pipes, tty, pc, panic>>

\* fileread of an inode; good units of the user's buffer can be written to, and
\* a copyout that fails gives -1 and leaves the offset.
readinode(p, f, n, good) ==
    LET s == ftable[f].ip
        di == Inode(s)
        data == readi(disk, di, ftable[f].off, n)
        ok == Len(data) <= good
    IN  /\ Free(s)
        /\ itable' = iunlock(itable, s, di)
        /\ ftable' = [ftable EXCEPT ![f].off = IF ok THEN @ + Len(data) ELSE @]
        /\ IF ok THEN Return(p, Len(data), data) ELSE Return(p, -1, <<>>)
        /\ UNCHANGED <<disk, stable, inop, wrote, ofile, cwd, pipes, tty, pc, panic>>

\* piperead as Fifo promises it: wait while the pipe is empty and has a writer.
\* A copyout that fails loses the unit it was for.
piperead(p, i, n, good) ==
    LET q == pipes[i].q
        m == Min({n, Len(q), good})
        taken == Min({n, Len(q), good + 1})
    IN  /\ q # <<>> \/ ~pipes[i].writeopen
        /\ pipes' = [pipes EXCEPT ![i].q = SubSeq(q, taken + 1, Len(q))]
        /\ Return(p, m, SubSeq(q, 1, m))
        /\ UNCHANGED <<disk, stable, inop, wrote, itable, ftable, ofile, cwd, tty, pc, panic>>

\* consoleread of a line that fits; an empty line is end of file.
readconsole(p) ==
    /\ tty.in # <<>>
    /\ tty' = [tty EXCEPT !.in = Tail(@)]
    /\ Return(p, Len(Head(tty.in)), Head(tty.in))
    /\ UNCHANGED <<disk, stable, inop, wrote, itable, ftable, ofile, cwd, pipes, pc, panic>>

sys_read(p, fd, n, good) ==
    /\ InUser(p)
    /\ LET f == argfd(p, fd)
       IN  IF CannotRead(f) THEN Fails(p)
           ELSE CASE ftable[f].type = "FD_PIPE" -> piperead(p, ftable[f].pipe, n, good)
                  [] ftable[f].type = "FD_DEVICE" -> readconsole(p)
                  [] ftable[f].type = "FD_INODE" -> readinode(p, f, n, good)
                  [] ftable[f].type = "FD_NONE" -> Panic("fileread")

writeconsole(p, units) ==
    /\ tty' = [tty EXCEPT !.out = @ \o units]
    /\ Return(p, Len(units), <<>>)
    /\ UNCHANGED <<disk, stable, inop, wrote, itable, ftable, ofile, cwd, pipes, pc, panic>>

\* Only the first good units can be read from user memory: pipewrite and
\* consolewrite stop there and return the number so far.  The rest of the call
\* is done by frames; n is what it returns if all goes well.
sys_write(p, fd, units, good) ==
    /\ InUser(p)
    /\ LET f == argfd(p, fd)
           some == SubSeq(units, 1, Min({good, Len(units)}))
           go(label, data) ==
                        /\ pc' = [pc EXCEPT ![p] = <<Frame(label, [f |-> f, rest |-> data,
                                                       good |-> good, n |-> Len(data)])>>]
                        /\ Return(p, 0, <<>>)
                        /\ UNCHANGED <<disk, stable, inop, wrote, mem, panic>>
       IN  IF CannotWrite(f) THEN Fails(p)
           ELSE CASE ftable[f].type = "FD_PIPE" -> go("pipewrite", some)
                  [] ftable[f].type = "FD_DEVICE" -> writeconsole(p, some)
                  [] ftable[f].type = "FD_INODE" -> go("filewrite", units)
                  [] ftable[f].type = "FD_NONE" -> Panic("filewrite")

\* pipewrite as Fifo promises it: as much as fits, then wait for space.
pipewrite(p) ==
    /\ At(p, "pipewrite")
    /\ LET a == Arg(p)
           i == ftable[a.f].pipe
           room == PIPESIZE - Len(pipes[i].q)
           m == IF room < Len(a.rest) THEN room ELSE Len(a.rest)
           rest == SubSeq(a.rest, m + 1, Len(a.rest))
           end == rest = <<>> \/ ~pipes[i].readopen
       IN  /\ room > 0 \/ end
           /\ pipes' = IF pipes[i].readopen
                       THEN [pipes EXCEPT ![i].q = @ \o SubSeq(a.rest, 1, m)] ELSE pipes
           /\ pc' = [pc EXCEPT ![p] = IF end THEN Rest(p)
                                      ELSE <<Frame("pipewrite", [a EXCEPT !.rest = rest])>> \o Rest(p)]
           /\ u' = [u EXCEPT ![p].ret = IF a.rest # <<>> /\ ~pipes[i].readopen THEN -1 ELSE a.n]
           /\ UNCHANGED <<disk, stable, inop, wrote, itable, ftable, ofile, cwd, tty, panic>>

\* Fault: a call is one operation, whatever its size.
MaxWrite_all == MAXFILE * BSIZE

\* One operation of filewrite writes at most this much.
MaxWrite == ((MAXOPBLOCKS - 1 - 1 - 2) \div 2) * BSIZE

filewrite(p) ==
    /\ At(p, "filewrite")
    /\ LET a == Arg(p)
           n1 == IF Len(a.rest) > MaxWrite THEN MaxWrite ELSE Len(a.rest)
       IN  IF a.rest = <<>> THEN Do(p, disk, itable, <<>>, Returning(p, a.n))
           ELSE /\ inop' = inop \cup {p}
                /\ pc' = [pc EXCEPT ![p] = <<Frame("writei", [a |-> a, n1 |-> n1, tot |-> 0]),
                                             Frame("end_op", 0)>> \o Rest(p)]
                /\ UNCHANGED <<disk, stable, wrote, mem, u, panic>>

\* The end of one operation of filewrite: writei returned r, of n1 units.
Written(p, w, d, di, r) ==
    LET f == w.a.f
        s == ftable[f].ip
        rest == SubSeq(w.a.rest, w.n1 + 1, Len(w.a.rest))
        again == [w.a EXCEPT !.rest = rest, !.good = @ - w.n1]
    IN  /\ disk' = [d EXCEPT !.lw = {}]
        /\ wrote' = [wrote EXCEPT ![p] = @ \cup d.lw]
        /\ itable' = iunlock(itable, s, di)
        /\ ftable' = [ftable EXCEPT ![f].off = IF r > 0 THEN @ + r ELSE @]
        /\ pc' = [pc EXCEPT ![p] = IF r = w.n1 /\ rest # <<>>
                                   THEN <<Head(Rest(p)), Frame("filewrite", again)>> \o Tail(Rest(p))
                                   ELSE Rest(p)]
        /\ u' = [u EXCEPT ![p].ret = IF r = w.n1 THEN w.a.n ELSE -1]
        /\ panic' = IF p \in inop THEN "" ELSE "log_write outside of trans"
        /\ UNCHANGED <<stable, inop, ofile, cwd, pipes, tty>>

\* A turn of the loop of writei.  The inode stays locked until the last one,
\* which does the iupdate.  A copyin that fails ends the loop.
writei(p) ==
    /\ At(p, "writei")
    /\ LET w == Arg(p)
           s == ftable[w.a.f].ip
           inum == itable[s].inum
           di == Inode(s)
           start == ftable[w.a.f].off
           off == start + w.tot
           m == Min({w.n1 - w.tot, BSIZE - (off % BSIZE)})
           uncopied(b) == [d |-> b.d, di |-> b.di, tot |-> 0]
           turn == IF w.tot + m > w.a.good
                   THEN uncopied(bmap(disk, di, off \div BSIZE))
                   ELSE writei_block(disk, di, off, SubSeq(w.a.rest, w.tot + 1, w.tot + m))
       IN  /\ itable[s].lock \in {p, Nobody}
           /\ IF start > di.size \/ start + w.n1 > MAXFILE * BSIZE
              THEN Written(p, w, disk, di, -1)
              ELSE \E wr \in {turn} :
                   IF wr.tot > 0 /\ w.tot + m < w.n1
                   THEN Do(p, wr.d, ilock(itable, s, p, wr.di),
                           <<Frame("writei", [w EXCEPT !.tot = @ + m])>>, u[p])
                   ELSE \E e \in {writei_last(wr, inum, off)} :
                        Written(p, w, e.d, e.di, w.tot + e.tot)

-----------------------------------------------------------------------------
(* pipe, exec.                                                               *)

\* sys_pipe up to the first filealloc of pipealloc; the next step is the rest.
\* good: the user's array of descriptors can be written.
sys_pipe(p, good) ==
    /\ InUser(p)
    /\ IF FreeFiles = {} THEN Fails(p)
       ELSE /\ ftable' = [ftable EXCEPT ![Min(FreeFiles)].ref = 1]
            /\ pc' = [pc EXCEPT ![p] = <<Frame("pipe", [rf |-> Min(FreeFiles), good |-> good])>>]
            /\ Return(p, -1, <<>>)
            /\ UNCHANGED <<disk, stable, inop, wrote, itable, ofile, cwd, pipes, tty, panic>>

pipe(p) ==
    /\ At(p, "pipe")
    /\ LET rf == Arg(p).rf
           wf == Min(FreeFiles)
           idle == {i \in 1 .. NPIPE : ~pipes[i].readopen /\ ~pipes[i].writeopen}
           i == Min(idle)
           end == [NoFile EXCEPT !.ref = 1, !.type = "FD_PIPE", !.pipe = i]
           fd0 == Min(FreeFds(p))
           fd1 == Min(FreeFds(p) \ {fd0})
           got == Arg(p).good /\ Cardinality(FreeFds(p)) > 1
       IN  IF FreeFiles = {} \/ idle = {}
           THEN /\ pc' = [pc EXCEPT ![p] = <<Frame("fileclose", rf)>> \o Rest(p)]
                /\ UNCHANGED <<ftable, ofile, pipes, u>>
           ELSE /\ pipes' = [pipes EXCEPT ![i] = [q |-> <<>>, readopen |-> TRUE, writeopen |-> TRUE]]
                /\ ftable' = [ftable EXCEPT ![rf] = [end EXCEPT !.readable = TRUE],
                                            ![wf] = [end EXCEPT !.writable = TRUE]]
                /\ ofile' = IF got THEN [ofile EXCEPT ![p][fd0] = rf, ![p][fd1] = wf] ELSE ofile
                /\ pc' = [pc EXCEPT ![p] =
                            (IF got THEN <<>> ELSE <<Frame("fileclose", rf), Frame("fileclose", wf)>>)
                              \o Rest(p)]
                /\ u' = [u EXCEPT ![p] = IF got THEN [@ EXCEPT !.ret = 0, !.data = <<fd0, fd1>>] ELSE @]
    /\ UNCHANGED <<disk, stable, inop, wrote, itable, cwd, tty, panic>>

ELF_MAGIC == 127

sys_exec(p, path) == PathCall(p, path, "inode", <<Frame("exec", 0)>>, 0)

\* What exec does with the file; Vm has what it does with the memory.
exec(p) ==
    /\ At(p, "exec")
    /\ LET s == u[p].ip
           di == Inode(s)
           image == readi(disk, di, 0, di.size)
       IN  IF s = 0 THEN Do(p, disk, itable, <<>>, u[p])
           ELSE /\ Free(s)
                /\ IF di.type = T_NONE THEN Panic(NoType)
                   ELSE Do(p, disk, iunlock(itable, s, di), <<Frame("iput", s)>>,
                           IF image # <<>> /\ image[1] = Data(ELF_MAGIC)
                           THEN [u[p] EXCEPT !.ret = 0, !.data = image] ELSE u[p])

-----------------------------------------------------------------------------

\* A step inside a system call.
KernelStep(p) ==
    \/ iput(p) \/ iput_free(p) \/ iput_dec(p) \/ iunlockput(p) \/ end_op(p)
    \/ namex(p)
    \/ create(p) \/ create_old(p) \/ create_new(p) \/ create_fill(p)
    \/ open(p) \/ made(p) \/ chdir(p)
    \/ link(p) \/ link_dir(p) \/ link_bad(p)
    \/ unlink(p) \/ unlink_ip(p) \/ unlink_dec(p)
    \/ fileclose(p) \/ pipewrite(p) \/ filewrite(p) \/ writei(p)
    \/ pipe(p) \/ exec(p)

\* syscall(): a call is a tuple of the name of its function and the arguments.
Syscall(p, c) ==
    \/ c[1] = "open" /\ sys_open(p, c[2], c[3])
    \/ c[1] = "mkdir" /\ sys_mkdir(p, c[2])
    \/ c[1] = "mknod" /\ sys_mknod(p, c[2], c[3])
    \/ c[1] = "chdir" /\ sys_chdir(p, c[2])
    \/ c[1] = "link" /\ sys_link(p, c[2], c[3])
    \/ c[1] = "unlink" /\ sys_unlink(p, c[2])
    \/ c[1] = "dup" /\ sys_dup(p, c[2])
    \/ c[1] = "close" /\ sys_close(p, c[2])
    \/ c[1] = "fstat" /\ sys_fstat(p, c[2])
    \/ c[1] = "read" /\ sys_read(p, c[2], c[3], c[4])
    \/ c[1] = "write" /\ sys_write(p, c[2], c[3], c[4])
    \/ c[1] = "pipe" /\ sys_pipe(p, c[2])
    \/ c[1] = "exec" /\ sys_exec(p, c[2])

\* The machine crashes, recovers the last commit and boots.
Crash(procs) ==
    /\ panic = ""
    /\ stable' = [stable EXCEPT !.orphans = @ \cup
                    {i \in Inums : stable.ino[i].type # T_NONE /\ stable.ino[i].nlink = 0}]
    /\ disk' = stable'
    /\ BootMem(procs)
    /\ UNCHANGED panic

-----------------------------------------------------------------------------
(* What the file system promises.                                            *)

\* Bitmaps, tables and descriptors stay within their ranges.
FsTypeOK ==
    /\ {disk.bits, stable.bits} \subseteq SUBSET Blocks
    /\ inop \subseteq Procs
    /\ \A s \in Slots : itable[s].lock \in Procs \cup {Nobody} /\ itable[s].ref \in Nat
    /\ \A p \in Procs : \A fd \in Fds : ofile[p][fd] \in FileSlots \cup {0}
    /\ cwd \in [Procs -> Slots \cup {0}]
    /\ panic \in STRING

Allocated(d) == {i \in Inums : d.ino[i].type # T_NONE}
Dirs(d) == {i \in Inums : d.ino[i].type = T_DIR}
Child(d, i, off) == Inum(Unit(d, d.ino[i], off))

\* The entries other than "." and "..", as pairs <<directory, offset>>.
Links(d) == UNION {{<<i, off>> : off \in Entries(d, d.ino[i]) \ {0, 1}} : i \in Dirs(d)}
LinksTo(d, j) == {l \in Links(d) : Child(d, l[1], l[2]) = j}
Named(d, j) == j = ROOTINO \/ LinksTo(d, j) # {}

\* Every block of the disk is free or belongs to one place of one inode, and a
\* file has no holes.
BlocksPartitioned(d) ==
    LET places == UNION {{<<i, k>> : k \in BlockSlots(d, d.ino[i])} : i \in Allocated(d)}
    IN  /\ d.bits = {BlockAt(d, d.ino[l[1]], l[2]) : l \in places}
        /\ Cardinality(d.bits) = Cardinality(places)
        /\ \A i \in Inums \ Allocated(d) : BlockSlots(d, d.ino[i]) = {}
        /\ \A i \in Allocated(d) : \A bn \in 0 .. (MAXFILE - 1) :
             bn * BSIZE < d.ino[i].size => Addr(d, d.ino[i], bn) # 0

\* Every entry names an allocated inode, no directory has a name twice, and a
\* directory that has a name has "." and "..".
DirectoriesSound(d) ==
    \A i \in Dirs(d) :
        /\ \A off \in Entries(d, d.ino[i]) : off > 1 => Child(d, i, off) \in Allocated(d)
        /\ Cardinality({Name(Unit(d, d.ino[i], off)) : off \in Entries(d, d.ino[i])})
             = Cardinality(Entries(d, d.ino[i]))
        /\ Named(d, i) => /\ dirlookup(d, d.ino[i], ".").inum = i
                          /\ dirlookup(d, d.ino[i], "..").inum \in Dirs(d)

\* nlink counts the names of an inode, for a directory also the ".." of its
\* subdirectories; names that went away with their directory still count.
LinkCounts(d) ==
    \A i \in Allocated(d) :
        d.ino[i].nlink = Cardinality(LinksTo(d, i)) + d.lost[i]
                         + (IF i = ROOTINO THEN 1 ELSE 0)
                         + Cardinality({j \in Dirs(d) \ {ROOTINO} :
                                          Named(d, j) /\ dirlookup(d, d.ino[j], "..").inum = i})

\* Whatever calls were in progress, the state that recovery finds on the disk
\* (log.c, recover_from_log) is a consistent file system: no block used twice or
\* leaked, no entry for a free inode, link counts that equal the names.  (It
\* changes only when the last operation ends, so that is when to look.)
CrashConsistent ==
    inop = {} => /\ BlocksPartitioned(stable)
                 /\ DirectoriesSound(stable)
                 /\ LinkCounts(stable)

Idle == panic = "" /\ \A p \in Procs : pc[p] = <<>>

\* The references an inode-table entry should have.
InodeRefs(s) == Cardinality({p \in Procs : cwd[p] = s})
                + Cardinality({f \in FileSlots : ftable[f].ref > 0 /\ ftable[f].ip = s})

\* The tables keep their types, and when no call is in progress every reference
\* is accounted for: an inode by working directories and open files, a file by
\* descriptors, an end of a pipe by a file; no lock and no operation is left
\* behind, on any error path, and what the table caches is what the disk holds.
RefsCounted ==
    /\ FsTypeOK
    /\ Idle =>
        /\ inop = {}
        /\ \A s \in Slots :
             /\ itable[s].ref = InodeRefs(s) /\ itable[s].lock = Nobody
             /\ itable[s].valid => itable[s].di = disk.ino[itable[s].inum]
             /\ \A t \in Slots \ {s} : itable[s].ref > 0 /\ itable[t].ref > 0
                                       => itable[s].inum # itable[t].inum
        /\ \A f \in FileSlots :
             ftable[f].ref = Cardinality({l \in Procs \X Fds : ofile[l[1]][l[2]] = f})
        /\ \A i \in 1 .. NPIPE :
             /\ pipes[i].readopen <=> \E f \in FileSlots : ftable[f].pipe = i /\ ftable[f].readable
             /\ pipes[i].writeopen <=> \E f \in FileSlots : ftable[f].pipe = i /\ ftable[f].writable

\* An inode without links is freed once nobody uses it (iput, fs.c): when no
\* call is in progress, an allocated inode has a link or a reference.
NoneForgotten ==
    Idle => \A i \in Allocated(disk) :
                \/ disk.ino[i].nlink > 0
                \/ \E s \in Slots : itable[s].ref > 0 /\ itable[s].inum = i

\* There are two exceptions to that and no other: an inode that was open without
\* links when the machine crashed, which nothing looks for after a reboot, and
\* one that iput_dec forgot.
NoLeak ==
    Idle => \A i \in Allocated(disk) :
                \/ disk.ino[i].nlink > 0
                \/ \E s \in Slots : itable[s].ref > 0 /\ itable[s].inum = i
                \/ i \in disk.orphans

\* The checks the code ends in panic() for never fail: no block is freed twice,
\* no entry leads to a free inode, nothing is logged outside an operation, and
\* iput never has to wait for a sleep lock ("so this acquiresleep() won't
\* block", fs.c).
NoFsPanic == panic = ""

\* An operation logs fewer distinct blocks than begin_op reserves for it, which
\* is what Log needs for log_write not to overflow.
OpFits == \A p \in Procs : Cardinality(wrote[p]) < MAXOPBLOCKS

=============================================================================
