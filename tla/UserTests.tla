----------------------------- MODULE UserTests ------------------------------
(***************************************************************************)
(* The test programs of user/usertests.c that use files, pipes and         *)
(* processes, as scripts: sequences of system calls, each with what the    *)
(* program does about its result.                                          *)
(*                                                                         *)
(* An instruction is a call (as Fs dispatches it, or fork, wait, exit),    *)
(* what is wanted of its result, and the script to go on with otherwise.   *)
(* Descriptors are the numbers the kernel hands out: 0, 1 and 2 are the    *)
(* console, so a program's first file is 3.  The loops of a program are    *)
(* unrolled, with the bounds below in place of its own; a loop that reads  *)
(* to the end of a file and looks at the contents is one read.  Messages   *)
(* before exit(1) are left out.                                            *)
(***************************************************************************)
EXTENDS Fs

CONSTANTS Rounds,       \* turns of a loop that repeats the same
          NCHILD        \* children of a test that forks several

ASSUME UserTestsAssumption == Rounds \in Nat \ {0} /\ NCHILD \in 1 .. 3

Text(w) == <<1, w>>                         \* one unit of text
Fill(w, n) == [i \in 1 .. n |-> Text(w)]    \* memset
SZ == BSIZE - 1                             \* less than a block, one operation
BIG == MaxWrite + BSIZE                     \* more than one operation

-----------------------------------------------------------------------------
(* Calls and instructions. *)

Open(path, omode) == <<"open", path, omode>>
Mkdir(path) == <<"mkdir", path>>
Mknod(path, major) == <<"mknod", path, major>>
Chdir(path) == <<"chdir", path>>
Link(old, new) == <<"link", old, new>>
Unlink(path) == <<"unlink", path>>
Dup(fd) == <<"dup", fd>>
Close(fd) == <<"close", fd>>
Fstat(fd) == <<"fstat", fd>>
Read(fd, n) == <<"read", fd, n, n>>
ReadBad(fd, n) == <<"read", fd, n, 0>>
Write(fd, units) == <<"write", fd, units, Len(units)>>
WriteBad(fd, units) == <<"write", fd, units, 0>>
Pipe == <<"pipe", TRUE>>
Exec(path) == <<"exec", path>>
Fork(script) == <<"fork", script>>
Wait == <<"wait">>

Instr(call, want, else) == [call |-> call, want |-> want, else |-> else]

Exit(status) == <<Instr(<<"exit", status>>, <<"any">>, <<>>)>>
Do1(call) == <<Instr(call, <<"any">>, <<>>)>>               \* result ignored
Must(call) == <<Instr(call, <<"ok">>, Exit(1))>>
MustFail(call) == <<Instr(call, <<"fail">>, Exit(1))>>
Gives(call, n) == <<Instr(call, <<"ret", n>>, Exit(1))>>
Reads(fd, n, units) == <<Instr(Read(fd, n), <<"data", units>>, Exit(1))>>
None(call) == <<Instr(call, <<"none">>, Exit(1))>>          \* 0 or -1
Goto(label) == Do1(<<"goto", label>>)
Or(call, else) == <<Instr(call, <<"ok">>, else)>>
Writes(fd, units) == Gives(Write(fd, units), Len(units))

\* fork a child that ends; wait for a child with status 0; close(open(path)).
Spawn(script) == Must(Fork(script \o Exit(0)))
Reap == <<Instr(Wait, <<"status", 0>>, Exit(1))>>
Touch(path, omode) == Do1(Open(path, omode)) \o Do1(Close(3))

For(n, S(_)) == FlattenSeq([i \in 1 .. n |-> S(i)])
Repeat(n, script) == For(n, LAMBDA i : script)

RW == O_CREATE \cup O_RDWR
WO == O_CREATE \cup O_WRONLY
README == <<"README">>

-----------------------------------------------------------------------------
(* Arguments the kernel must refuse. *)

copyin ==
    Must(Open(<<"copyin1">>, WO)) \o MustFail(WriteBad(3, Fill("x", BIG)))
    \o Do1(Close(3)) \o Do1(Unlink(<<"copyin1">>))
    \o None(WriteBad(1, Fill("x", BIG)))
    \o Must(Pipe) \o None(WriteBad(4, Fill("x", BIG))) \o Do1(Close(3)) \o Do1(Close(4))

copyout ==
    Must(Open(README, O_RDONLY)) \o None(ReadBad(3, BIG)) \o Do1(Close(3))
    \o Must(Pipe) \o Writes(4, Fill("x", 1)) \o None(ReadBad(3, BIG))
    \o Do1(Close(3)) \o Do1(Close(4))

\* A path that fills the kernel's buffer.
copyinstr2 ==
    LET b == [i \in 1 .. MAXPATH |-> "x"]
    IN  Gives(Unlink(b), -1) \o Gives(Open(b, WO), -1) \o Gives(Link(b, b), -1)
        \o Gives(Exec(b), -1)

rwsbrk ==
    Must(Open(<<"rwsbrk">>, WO)) \o MustFail(WriteBad(3, Fill("x", SZ)))
    \o Do1(Close(3)) \o Do1(Unlink(<<"rwsbrk">>))
    \o Must(Open(README, O_RDONLY)) \o MustFail(ReadBad(3, SZ)) \o Do1(Close(3))

\* A write that fails must not keep the block it allocated.
badwrite ==
    LET junk == <<"junk">>
    IN  Do1(Unlink(junk))
        \o Repeat(NBLOCKS, Must(Open(junk, WO)) \o Do1(WriteBad(3, Fill("x", 1)))
                             \o Do1(Close(3)) \o Do1(Unlink(junk)))
        \o Must(Open(junk, WO)) \o Writes(3, Fill("x", 1)) \o Do1(Close(3)) \o Do1(Unlink(junk))

-----------------------------------------------------------------------------
(* Truncation. *)

truncfile == <<"truncfile">>

truncate1 ==
    Do1(Unlink(truncfile))
    \o Do1(Open(truncfile, WO \cup O_TRUNC)) \o Do1(Write(3, Fill("a", 4))) \o Do1(Close(3))
    \o Do1(Open(truncfile, O_RDONLY)) \o Gives(Read(3, BIG), 4)
    \o Do1(Open(truncfile, O_WRONLY \cup O_TRUNC))
    \o Do1(Open(truncfile, O_RDONLY)) \o Gives(Read(5, BIG), 0)
    \o Gives(Read(3, BIG), 0)
    \o Do1(Write(4, Fill("a", 6)))
    \o Gives(Read(5, BIG), 6) \o Gives(Read(3, BIG), 2)
    \o Do1(Unlink(truncfile)) \o Do1(Close(4)) \o Do1(Close(3)) \o Do1(Close(5))

truncate2 ==
    Do1(Unlink(truncfile))
    \o Do1(Open(truncfile, WO \cup O_TRUNC)) \o Do1(Write(3, Fill("a", 4)))
    \o Do1(Open(truncfile, O_WRONLY \cup O_TRUNC))
    \o Gives(Write(3, Fill("x", 1)), -1)
    \o Do1(Unlink(truncfile)) \o Do1(Close(3)) \o Do1(Close(4))

truncate3 ==
    Touch(truncfile, WO \cup O_TRUNC)
    \o Spawn(Repeat(Rounds, Must(Open(truncfile, O_WRONLY)) \o Writes(3, Fill("1", SZ))
                              \o Do1(Close(3))
                              \o Do1(Open(truncfile, O_RDONLY)) \o Do1(Read(3, BIG))
                              \o Do1(Close(3))))
    \o Repeat(Rounds, Must(Open(truncfile, WO \cup O_TRUNC)) \o Writes(3, Fill("x", 1))
                        \o Do1(Close(3)))
    \o <<Instr(Wait, <<"status", 0>>, Do1(Unlink(truncfile)) \o Exit(1))>>
    \o Do1(Unlink(truncfile))

-----------------------------------------------------------------------------
(* iput inside and outside of operations. *)

iputdir == <<"iputdir">>

iputtest ==
    Must(Mkdir(iputdir)) \o Must(Chdir(iputdir)) \o Must(Unlink(<<"..", "/", "iputdir">>))
    \o Must(Chdir(<<"/">>))

exitiputtest ==
    Spawn(Must(Mkdir(iputdir)) \o Must(Chdir(iputdir)) \o Must(Unlink(<<"..", "/", "iputdir">>)))
    \o Reap

openiputtest ==
    Must(Mkdir(<<"oidir">>)) \o Spawn(MustFail(Open(<<"oidir">>, O_RDWR)))
    \o Gives(Unlink(<<"oidir">>), 0) \o Reap

-----------------------------------------------------------------------------
(* Files. *)

opentest ==
    Must(Open(<<"echo">>, O_RDONLY)) \o Do1(Close(3)) \o MustFail(Open(<<"doesnotexist">>, O_RDONLY))

writetest ==
    LET small == <<"small">>
    IN  Must(Open(small, RW))
        \o Repeat(Rounds, Writes(3, Fill("a", SZ)) \o Writes(3, Fill("b", SZ))) \o Do1(Close(3))
        \o Must(Open(small, O_RDONLY)) \o Gives(Read(3, 2 * Rounds * SZ), 2 * Rounds * SZ)
        \o Do1(Close(3)) \o Must(Unlink(small))

\* Every block of the largest file, then its contents.
writebig ==
    LET big == <<"big">>
        block(i) == [Fill("x", BSIZE) EXCEPT ![1] = Data(i)]
    IN  Must(Open(big, RW)) \o For(MAXFILE, LAMBDA i : Writes(3, block(i))) \o Do1(Close(3))
        \o Must(Open(big, O_RDONLY)) \o For(MAXFILE, LAMBDA i : Reads(3, BSIZE, block(i)))
        \o Gives(Read(3, BSIZE), 0) \o Do1(Close(3)) \o Must(Unlink(big))

a0123 == << <<"a0">>, <<"a1">>, <<"a2">>, <<"a3">> >>

createtest ==
    For(4, LAMBDA i : Touch(a0123[i], RW)) \o For(4, LAMBDA i : Do1(Unlink(a0123[i])))

\* Writes larger than an operation.
bigwrite ==
    LET f == <<"bigwrite">>
    IN  Do1(Unlink(f))
        \o FlattenSeq([k \in 1 .. 2 |->
              LET sz == <<SZ, (MAXFILE * BSIZE) \div 2>>[k]
              IN  Must(Open(f, RW)) \o Writes(3, Fill("x", sz)) \o Writes(3, Fill("x", sz))
                  \o Do1(Close(3)) \o Do1(Unlink(f))])

\* Half a write at a time is read back; sz does not divide the block.
bigfile ==
    LET f == <<"bigfile.dat">>
        sz == 2 * SZ
    IN  Do1(Unlink(f)) \o Must(Open(f, RW))
        \o For(3, LAMBDA i : Writes(3, [k \in 1 .. sz |-> Data(i)])) \o Do1(Close(3))
        \o Must(Open(f, O_RDONLY))
        \o For(6, LAMBDA i : Reads(3, SZ, [k \in 1 .. SZ |-> Data((i + 1) \div 2)]))
        \o Gives(Read(3, SZ), 0) \o Do1(Close(3)) \o Do1(Unlink(f))

unlinkread ==
    LET f == <<"unlinkread">>
        hello == Fill("h", SZ)
    IN  Must(Open(f, RW)) \o Do1(Write(3, hello)) \o Do1(Close(3))
        \o Must(Open(f, O_RDWR)) \o Gives(Unlink(f), 0)
        \o Do1(Open(f, RW)) \o Do1(Write(4, Fill("y", 1))) \o Do1(Close(4))
        \o Reads(3, BIG, hello) \o Writes(3, Fill("h", BSIZE)) \o Do1(Close(3)) \o Do1(Unlink(f))

linktest ==
    LET lf1 == <<"lf1">>
        lf2 == <<"lf2">>
    IN  Do1(Unlink(lf1)) \o Do1(Unlink(lf2))
        \o Must(Open(lf1, RW)) \o Writes(3, Fill("h", SZ)) \o Do1(Close(3))
        \o Must(Link(lf1, lf2)) \o Do1(Unlink(lf1)) \o MustFail(Open(lf1, O_RDONLY))
        \o Must(Open(lf2, O_RDONLY)) \o Gives(Read(3, BIG), SZ) \o Do1(Close(3))
        \o MustFail(Link(lf2, lf2)) \o Do1(Unlink(lf2))
        \o MustFail(Link(lf2, lf1)) \o MustFail(Link(<<".">>, lf1))

-----------------------------------------------------------------------------
(* Directories. *)

dirtest ==
    Must(Mkdir(<<"dir0">>)) \o Must(Chdir(<<"dir0">>)) \o Must(Chdir(<<"..">>))
    \o Must(Unlink(<<"dir0">>))

subdir ==
    LET ff == <<"ff">>
        dd == <<"dd">>
        dd_ff == <<"dd", "/", "ff">>
        dd_dd == <<"dd", "/", "dd">>
        dd_dd_ff == <<"dd", "/", "dd", "/", "ff">>
        dd_dd_ffff == <<"dd", "/", "dd", "/", "ffff">>
        dd_dd_xx == <<"dd", "/", "dd", "/", "xx">>
        dd_ff_ff == <<"dd", "/", "ff", "/", "ff">>
        dd_xx_ff == <<"dd", "/", "xx", "/", "ff">>
    IN  Do1(Unlink(ff)) \o Gives(Mkdir(dd), 0)
        \o Must(Open(dd_ff, RW)) \o Do1(Write(3, Fill("f", 2))) \o Do1(Close(3))
        \o MustFail(Unlink(dd)) \o Gives(Mkdir(<<"/">> \o dd_dd), 0)
        \o Must(Open(dd_dd_ff, RW)) \o Do1(Write(3, Fill("F", 2))) \o Do1(Close(3))
        \o Must(Open(<<"dd", "/", "dd", "/", "..", "/", "ff">>, O_RDONLY))
        \o Reads(3, BIG, Fill("f", 2)) \o Do1(Close(3))
        \o Gives(Link(dd_dd_ff, dd_dd_ffff), 0) \o Gives(Unlink(dd_dd_ff), 0)
        \o MustFail(Open(dd_dd_ff, O_RDONLY))
        \o Gives(Chdir(dd), 0) \o Gives(Chdir(<<"dd", "/", "..", "/", "..", "/", "dd">>), 0)
        \o Gives(Chdir(<<"dd", "/", "..", "/", "..", "/", "..", "/", "dd">>), 0)
        \o Gives(Chdir(<<".", "/", "..">>), 0)
        \o Must(Open(dd_dd_ffff, O_RDONLY)) \o Gives(Read(3, BIG), 2) \o Do1(Close(3))
        \o MustFail(Open(dd_dd_ff, O_RDONLY))
        \o MustFail(Open(dd_ff_ff, RW)) \o MustFail(Open(dd_xx_ff, RW))
        \o MustFail(Open(dd, O_CREATE)) \o MustFail(Open(dd, O_RDWR)) \o MustFail(Open(dd, O_WRONLY))
        \o MustFail(Link(dd_ff_ff, dd_dd_xx)) \o MustFail(Link(dd_xx_ff, dd_dd_xx))
        \o MustFail(Link(dd_ff, dd_dd_ffff))
        \o MustFail(Mkdir(dd_ff_ff)) \o MustFail(Mkdir(dd_xx_ff)) \o MustFail(Mkdir(dd_dd_ffff))
        \o MustFail(Unlink(dd_xx_ff)) \o MustFail(Unlink(dd_ff_ff))
        \o MustFail(Chdir(dd_ff)) \o MustFail(Chdir(<<"dd", "/", "xx">>))
        \o Gives(Unlink(dd_dd_ffff), 0) \o Gives(Unlink(dd_ff), 0) \o MustFail(Unlink(dd))
        \o Must(Unlink(dd_dd)) \o Must(Unlink(dd))

rmdot ==
    LET dots == <<"dots">>
    IN  Gives(Mkdir(dots), 0) \o Gives(Chdir(dots), 0)
        \o MustFail(Unlink(<<".">>)) \o MustFail(Unlink(<<"..">>)) \o Gives(Chdir(<<"/">>), 0)
        \o MustFail(Unlink(dots \o <<"/", ".">>)) \o MustFail(Unlink(dots \o <<"/", "..">>))
        \o Gives(Unlink(dots), 0)

dirfile ==
    LET f == <<"dirfile">>
        xx == f \o <<"/", "xx">>
    IN  Must(Open(f, O_CREATE)) \o Do1(Close(3)) \o MustFail(Chdir(f))
        \o MustFail(Open(xx, O_RDONLY)) \o MustFail(Open(xx, O_CREATE))
        \o MustFail(Mkdir(xx)) \o MustFail(Unlink(xx)) \o MustFail(Link(README, xx))
        \o Gives(Unlink(f), 0)
        \o MustFail(Open(<<".">>, O_RDWR))
        \o Do1(Open(<<".">>, O_RDONLY)) \o None(Write(3, Fill("x", 1))) \o Do1(Close(3))

\* More directories than the inode table has entries, one inside the other.
iref ==
    LET d == <<"irefd">>
    IN  Repeat(NINODE + 1,
               Gives(Mkdir(d), 0) \o Gives(Chdir(d), 0)
               \o Do1(Mkdir(<<>>)) \o Do1(Link(README, <<>>)) \o Touch(<<>>, O_CREATE)
               \o Touch(<<"xx">>, O_CREATE) \o Do1(Unlink(<<"xx">>)))
        \o Repeat(NINODE + 1, Do1(Chdir(<<"..">>)) \o Do1(Unlink(d)))
        \o Do1(Chdir(<<"/">>))

\* Names enough for the root directory to need its indirect block.
bigdir ==
    LET bd == <<"bd">>
        x == << <<"x0">>, <<"x1">>, <<"x2">>, <<"x3">>, <<"x4">> >>
    IN  Do1(Unlink(bd)) \o Must(Open(bd, O_CREATE)) \o Do1(Close(3))
        \o For(Len(x), LAMBDA i : Gives(Link(bd, x[i]), 0)) \o Do1(Unlink(bd))
        \o For(Len(x), LAMBDA i : Gives(Unlink(x[i]), 0))

-----------------------------------------------------------------------------
(* Pipes and processes. *)

exectest ==
    LET f == <<"echo-ok">>
    IN  Do1(Unlink(f))
        \o Must(Fork(Do1(Close(1)) \o Gives(Open(f, WO), 1)
                     \o <<Instr(Exec(<<"echo">>), <<"exec", <<"echo", "OK">>>>, Exit(1))>> \o Exit(1)))
        \o Reap
        \o Must(Open(f, O_RDONLY))
        \o <<Instr(Read(3, 1), <<"data", <<Text("OK")>>>>, Do1(Unlink(f)) \o Exit(1))>>
        \o Do1(Unlink(f))

\* What comes through the pipe is what was sent, however the reads cut it.
pipe1 ==
    LET seq == [i \in 1 .. 2 * SZ |-> Data(i)]
    IN  Gives(Pipe, 0)
        \o Spawn(Do1(Close(3)) \o Writes(4, SubSeq(seq, 1, SZ)) \o Writes(4, SubSeq(seq, SZ + 1, 2 * SZ)))
        \o Do1(Close(4)) \o <<Instr(Read(3, 1), <<"stream", 3, seq, 1>>, Exit(1))>>
        \o Do1(Close(3)) \o Reap

exitwait ==
    For(Rounds, LAMBDA i : Must(Fork(Exit(i - 1))) \o <<Instr(Wait, <<"child", i - 1>>, Exit(1))>>)

reparent ==
    Repeat(Rounds, Spawn(Must(Fork(Exit(0)))) \o <<Instr(Wait, <<"pid">>, Exit(1))>>)

twochildren ==
    Repeat(Rounds, Must(Fork(Exit(0))) \o Must(Fork(Exit(0))) \o Do1(Wait) \o Do1(Wait))

forkfork ==
    Repeat(2, Spawn(Must(Fork(Exit(0))) \o Do1(Wait))) \o Repeat(2, Reap)

\* Both forks of the child copy it: its own child runs the second one too.
reparent2 ==
    Must(Fork(Do1(Fork(Do1(Fork(Exit(0))) \o Exit(0))) \o Do1(Fork(Exit(0))) \o Exit(0)))
    \o Do1(Wait)

\* All the forks that succeed are waited for, and then none is left.
forktest ==
    LET N == Cardinality(Procs)
        stop(n) == IF n = 0 THEN Exit(1)
                   ELSE Repeat(n, Must(Wait)) \o Gives(Wait, -1) \o Exit(0)
    IN  For(N, LAMBDA n : Or(Fork(Exit(0)), stop(n - 1))) \o Exit(1)

\* Two processes write through the same file: no write gets lost.
sharedfd ==
    LET f == <<"sharedfd">>
    IN  Do1(Unlink(f)) \o Must(Open(f, RW))
        \o Spawn(Repeat(Rounds, Writes(3, Fill("c", SZ))))
        \o Repeat(Rounds, Writes(3, Fill("p", SZ))) \o Reap
        \o Do1(Close(3)) \o Must(Open(f, O_RDONLY))
        \o <<Instr(Read(3, MAXFILE * BSIZE),
                   <<"bag", Fill("c", Rounds * SZ) \o Fill("p", Rounds * SZ)>>, Exit(1))>>
        \o Do1(Close(3)) \o Do1(Unlink(f))

\* Several processes write different files.
fourfiles ==
    LET f == << <<"f0">>, <<"f1">>, <<"f2">> >>
    IN  For(NCHILD, LAMBDA i : Do1(Unlink(f[i]))
                      \o Spawn(Must(Open(f[i], RW)) \o Repeat(2, Writes(3, Fill(f[i][1], SZ)))))
        \o Repeat(NCHILD, Reap)
        \o For(NCHILD, LAMBDA i : Do1(Open(f[i], O_RDONLY)) \o Reads(3, BIG, Fill(f[i][1], 2 * SZ))
                                  \o Do1(Close(3)) \o Do1(Unlink(f[i])))

\* Two processes create, link and unlink the same names.
concreate ==
    LET C == << <<"C0">>, <<"C1">>, <<"C2">> >>
        make(i) == IF i = 2 THEN Do1(Link(C[1], C[2])) ELSE Must(Open(C[i], RW)) \o Do1(Close(3))
        look(i) == Touch(C[i], O_RDONLY)
        drop(i) == Repeat(2, Do1(Unlink(C[i])))
    IN  For(3, LAMBDA i : Do1(Unlink(C[i])) \o Spawn(make(i)) \o make(i) \o Reap)
        \o Do1(Open(<<".">>, O_RDONLY))
        \o <<Instr(Read(3, MAXFILE * BSIZE), <<"lists", {"C0", "C1", "C2"}>>, Exit(1))>> \o Do1(Close(3))
        \o For(3, LAMBDA i : Spawn(IF i = 1 THEN look(i) ELSE drop(i))
                             \o (IF i = 2 THEN look(i) ELSE drop(i)) \o Do1(Wait))

\* The operations are the ones the code's generator gives for its two seeds.
linkunlink ==
    LET x == <<"x">>
        create1 == Touch(x, RW)
        link1 == Do1(Link(<<"cat">>, x))
        unlink1 == Do1(Unlink(x))
    IN  unlink1 \o Spawn(create1 \o link1 \o link1 \o create1)
        \o create1 \o unlink1 \o link1 \o create1 \o Do1(Wait)

manywrites ==
    LET b == << <<"ba">>, <<"bb">>, <<"bc">> >>
        once(c) == Must(Open(b[c], RW)) \o Writes(3, Fill("x", BSIZE)) \o Do1(Close(3))
    IN  For(NCHILD, LAMBDA c : Spawn(Do1(Unlink(b[c]))
                                     \o Repeat(Rounds, once(c) \o Do1(Unlink(b[c])))
                                     \o Do1(Unlink(b[c]))))
        \o Repeat(NCHILD, Reap)

-----------------------------------------------------------------------------
(* A full disk and no inodes left. *)

zz == << <<"z0">>, <<"z1">>, <<"z2">>, <<"z3">>, <<"z4">>, <<"z5">>, <<"z6">>, <<"z7">>,
         <<"z8">>, <<"z9">>, <<"za">>, <<"zb">> >>
bigs == << <<"big0">>, <<"big1">>, <<"big2">> >>

UnlinkAll(fs) == For(Len(fs), LAMBDA i : Do1(Unlink(fs[i])))

\* Create the files zz until one fails; done is what follows.
CreateAll(done) ==
    For(Len(zz), LAMBDA i : Do1(Unlink(zz[i])) \o Or(Open(zz[i], RW \cup O_TRUNC), done) \o Do1(Close(3)))
    \o done

diskfull ==
    LET fill == Repeat(MAXFILE, <<Instr(Write(3, Fill("x", BSIZE)), <<"ret", BSIZE>>,
                                        Do1(Close(3)) \o Do1(Close(3)) \o Goto("diskfull_zz"))>>)
    IN  Do1(Unlink(<<"diskfulldir">>))
        \o For(Len(bigs), LAMBDA i : Do1(Unlink(bigs[i]))
                            \o Or(Open(bigs[i], RW \cup O_TRUNC), Goto("diskfull_zz"))
                            \o fill \o Do1(Close(3)))
        \o Goto("diskfull_zz")

\* No block is left: names fit into the directory until its last block is full.
diskfull_zz == CreateAll(Goto("diskfull_end"))

diskfull_end ==
    Do1(Mkdir(<<"diskfulldir">>)) \o Do1(Unlink(<<"diskfulldir">>))
    \o UnlinkAll(zz) \o UnlinkAll(bigs) \o Exit(0)

outofinodes == CreateAll(Goto("outofinodes_end"))
outofinodes_end == UnlinkAll(zz) \o Exit(0)

-----------------------------------------------------------------------------
(* The driver.                                                               *)

TestNames ==
    {"copyin", "copyout", "copyinstr2", "rwsbrk", "badwrite", "truncate1", "truncate2", "truncate3",
     "iputtest", "exitiputtest", "openiputtest", "opentest", "writetest", "writebig", "createtest",
     "bigwrite", "bigfile", "unlinkread", "linktest", "dirtest", "subdir", "rmdot", "dirfile", "iref",
     "bigdir", "exectest", "pipe1", "exitwait", "reparent", "twochildren", "forkfork", "reparent2",
     "forktest", "sharedfd", "fourfiles", "concreate", "linkunlink", "manywrites",
     "diskfull", "outofinodes"}

Test(s) ==
    CASE s = "copyin" -> copyin [] s = "copyout" -> copyout [] s = "copyinstr2" -> copyinstr2
      [] s = "rwsbrk" -> rwsbrk [] s = "badwrite" -> badwrite
      [] s = "truncate1" -> truncate1 [] s = "truncate2" -> truncate2 [] s = "truncate3" -> truncate3
      [] s = "iputtest" -> iputtest [] s = "exitiputtest" -> exitiputtest
      [] s = "openiputtest" -> openiputtest [] s = "opentest" -> opentest
      [] s = "writetest" -> writetest [] s = "writebig" -> writebig [] s = "createtest" -> createtest
      [] s = "bigwrite" -> bigwrite [] s = "bigfile" -> bigfile [] s = "unlinkread" -> unlinkread
      [] s = "linktest" -> linktest [] s = "dirtest" -> dirtest [] s = "subdir" -> subdir
      [] s = "rmdot" -> rmdot [] s = "dirfile" -> dirfile [] s = "iref" -> iref
      [] s = "bigdir" -> bigdir [] s = "exectest" -> exectest [] s = "pipe1" -> pipe1
      [] s = "exitwait" -> exitwait [] s = "reparent" -> reparent [] s = "twochildren" -> twochildren
      [] s = "forkfork" -> forkfork [] s = "reparent2" -> reparent2 [] s = "forktest" -> forktest
      [] s = "sharedfd" -> sharedfd [] s = "fourfiles" -> fourfiles
      [] s = "concreate" -> concreate
      [] s = "linkunlink" -> linkunlink [] s = "manywrites" -> manywrites
      [] s = "diskfull" -> diskfull [] s = "outofinodes" -> outofinodes

\* main, drivetests, runtests and run for one test, which gets a process of its
\* own.  Without an argument the program runs all tests one after the other,
\* which no line asks for; countfree, about free pages, is left out.
usertests(argv) ==
    IF Len(argv) > 2 THEN Do1(Write(1, <<Text("Usage")>>)) \o Exit(1)
    ELSE IF argv[2] \in TestNames
    THEN Must(Fork(Test(argv[2]) \o Exit(0)))
         \o <<Instr(Wait, <<"status", 0>>, Do1(Write(1, <<Text("FAILED")>>)) \o Exit(1))>>
         \o Do1(Write(1, <<Text("OK")>>)) \o Exit(0)
    ELSE Do1(Write(1, <<Text("NO TESTS")>>)) \o Exit(1)

=============================================================================
