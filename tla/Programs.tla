------------------------------ MODULE Programs ------------------------------
(***************************************************************************)
(* The system as its user sees it: init starts the shell, the shell reads  *)
(* a line from the console, parses it and runs it with fork, exec, wait,   *)
(* pipe, dup and redirections, and the programs are echo, cat, ls, ln, rm, *)
(* mkdir and usertests.  The kernel below is Fs, with pipes as Fifo and    *)
(* processes as ProcTree promise them.                                     *)
(*                                                                         *)
(* A process is a script, as UserTests describes.  Before its next call it *)
(* looks at the result of the last one: prog[p] holds what was wanted of   *)
(* it, and Todo(p) is the script that follows.  An executable is a file    *)
(* that holds the magic number and the name of its program.                *)
(***************************************************************************)
EXTENDS UserTests, Mkfs, Sh, TLC

CONSTANTS Files,        \* what mkfs puts on the disk
          Lines,        \* the lines that may be entered
          Chars,        \* the characters that may be typed
          MaxTyped      \* length of the lines that are only parsed

VARIABLES state,        \* of each slot: "unused", "run", "zombie"
          parent,
          xstate,
          prog,         \* [want, else, todo, pid]: see above; pid of the last fork
          typed,        \* the line at the keyboard
          entered

procvars == <<state, parent, xstate>>
allvars == <<vars, procvars, prog, typed, entered>>

initproc == 1
FirstDisk == mkfs(Files)

NoProg == [want |-> <<"any">>, else |-> <<>>, todo |-> <<>>, pid |-> 0]
Running(script) == [NoProg EXCEPT !.todo = script]

-----------------------------------------------------------------------------
(* init and the programs that it and the shell start. *)

Say(fd, w) == Do1(Write(fd, <<Text(w)>>))
ExecArgs(path, argv) == <<Instr(Exec(path), <<"exec", argv>>, <<>>)>>

init ==
    <<Instr(Open(<<"console">>, O_RDWR), <<"ok">>,
            Do1(Mknod(<<"console">>, CONSOLE)) \o Do1(Open(<<"console">>, O_RDWR))
            \o Goto("init_dup"))>>
    \o Goto("init_dup")

init_dup == Do1(Dup(0)) \o Do1(Dup(0)) \o Goto("init_sh")

\* wait until it is the shell that has exited.
init_sh ==
    Say(1, "init: starting sh")
    \o Or(Fork(ExecArgs(<<"sh">>, <<"sh">>) \o Say(1, "init: exec failed") \o Exit(1)),
          Say(1, "init: fork failed") \o Exit(1))
    \o Goto("init_wait")

init_wait == <<Instr(Wait, <<"shell">>, Say(1, "init: wait error") \o Exit(1))>>

echo(argv) ==
    For(Len(argv) - 1, LAMBDA i : Say(1, argv[i + 1]) \o Say(1, IF i + 1 < Len(argv) THEN " " ELSE "\n"))
    \o Exit(0)

CATBUF == BSIZE \div 2
cat_fd(fd) == <<Instr(Read(fd, CATBUF), <<"cat", fd>>, Say(2, "cat: error") \o Exit(1))>>

cat(argv) ==
    IF Len(argv) = 1 THEN cat_fd(0) \o Exit(0)
    ELSE For(Len(argv) - 1, LAMBDA i :
               Or(Open(<<argv[i + 1]>>, O_RDONLY), Say(2, "cat: cannot open") \o Exit(1))
               \o cat_fd(3) \o Do1(Close(3)))
         \o Exit(0)

\* The calls for the arguments in turn, up to the first that fails.
ForArgs(calls) ==
    IF calls = <<>> THEN Say(2, "Usage") \o Exit(1)
    ELSE For(Len(calls), LAMBDA i : Or(calls[i], Say(2, "failed") \o Exit(0))) \o Exit(0)

rm(argv) == ForArgs([i \in 1 .. Len(argv) - 1 |-> Unlink(<<argv[i + 1]>>)])
mkdir(argv) == ForArgs([i \in 1 .. Len(argv) - 1 |-> Mkdir(<<argv[i + 1]>>)])

ln(argv) ==
    IF Len(argv) # 3 THEN Say(2, "Usage") \o Exit(1)
    ELSE Or(Link(<<argv[2]>>, <<argv[3]>>), Say(2, "failed") \o Exit(0)) \o Exit(0)

\* What ls prints of a file: its name, and what fstat gave.
LsWords(name, st) == <<name, st[2], ToString(st[1]), ToString(st[4])>>
LsPrint(name, st) == For(4, LAMBDA i : Say(1, LsWords(name, st)[i]))

ls_entry(path) == <<Instr(Read(3, 1), <<"ls_entry", path>>, <<>>)>>

ls_stat(path, name, rest) ==
    LET fails == Say(1, "ls: cannot stat") \o ls_entry(path) \o rest
    IN  Or(Open(path \o <<"/", name>>, O_RDONLY), fails)
        \o <<Instr(Fstat(4), <<"ls_stat", path, name>>, Do1(Close(4)) \o fails)>> \o rest

RECURSIVE ls(_)
ls(paths) ==
    IF paths = <<>> THEN Exit(0)
    ELSE Or(Open(<<Head(paths)>>, O_RDONLY), Say(2, "ls: cannot open") \o ls(Tail(paths)))
         \o <<Instr(Fstat(3), <<"ls", <<Head(paths)>>>>,
                    Say(2, "ls: cannot stat") \o Do1(Close(3)) \o ls(Tail(paths)))>>
         \o Do1(Close(3)) \o ls(Tail(paths))

ls_main(argv) == ls(IF Len(argv) < 2 THEN <<".">> ELSE Tail(argv))

-----------------------------------------------------------------------------
(* The shell. *)

panic_sh(message) == Say(2, message) \o Exit(1)
fork1(script) == <<Instr(Fork(script), <<"ok">>, panic_sh("fork"))>>

RedirFd(kind) == IF kind = "<" THEN 0 ELSE 1
RedirMode(kind) == CASE kind = "<" -> O_RDONLY
                     [] kind = ">" -> O_WRONLY \cup O_CREATE \cup O_TRUNC
                     [] kind = "+" -> O_WRONLY \cup O_CREATE

\* Fault: dup before the close, which frees the number dup should give.
PipeChild_dup_first(fd, end, script) ==
    Do1(Dup(end)) \o Do1(Close(fd)) \o Do1(Close(3)) \o Do1(Close(4)) \o script

\* The child of a pipeline that has end as its descriptor fd.
PipeChild(fd, end, script) ==
    Do1(Close(fd)) \o Do1(Dup(end)) \o Do1(Close(3)) \o Do1(Close(4)) \o script

\* Fault: the shell keeps its write end of the pipe.
RunPipe_keeps_end(left, right) ==
    <<Instr(Pipe, <<"ok">>, panic_sh("pipe"))>>
    \o fork1(PipeChild(1, 4, left)) \o fork1(PipeChild(0, 3, right))
    \o Do1(Close(3)) \o Do1(Wait) \o Do1(Wait) \o Exit(0)

RunPipe(left, right) ==
    <<Instr(Pipe, <<"ok">>, panic_sh("pipe"))>>
    \o fork1(PipeChild(1, 4, left)) \o fork1(PipeChild(0, 3, right))
    \o Do1(Close(3)) \o Do1(Close(4)) \o Do1(Wait) \o Do1(Wait) \o Exit(0)

RunList(left, right) == fork1(left) \o Do1(Wait) \o right

RECURSIVE runcmd(_)
runcmd(cmd) ==
    CASE cmd[1] = "PANIC" -> panic_sh("syntax")
      [] cmd[1] = "EXEC" ->
           IF cmd[2] = <<>> THEN Exit(1)
           ELSE ExecArgs(<<cmd[2][1]>>, cmd[2]) \o Say(2, "exec failed") \o Exit(0)
      [] cmd[1] = "REDIR" ->
           Do1(Close(RedirFd(cmd[3][1])))
           \o Or(Open(<<cmd[3][2]>>, RedirMode(cmd[3][1])), Say(2, "open failed") \o Exit(1))
           \o runcmd(cmd[2])
      [] cmd[1] = "LIST" -> RunList(runcmd(cmd[2]), runcmd(cmd[3]))
      [] cmd[1] = "PIPE" -> RunPipe(runcmd(cmd[2]), runcmd(cmd[3]))
      [] cmd[1] = "BACK" -> fork1(runcmd(cmd[2])) \o Exit(0)

\* Descriptors 0, 1 and 2 are inherited, so the first open gives 3.
sh == Do1(Open(<<"console">>, O_RDWR)) \o Do1(Close(3)) \o Goto("sh_getcmd")

sh_getcmd == Say(2, "$ ") \o <<Instr(Read(0, 1), <<"line">>, <<>>)>>

\* A turn of the loop of main for a line of input.
sh_line(buf) ==
    LET line == SubSeq(buf, SkipBlanks(buf, 1), Len(buf))
        name == SubSeq(line, 3, Len(line))
    IN  (IF line = <<>> THEN <<>>
         ELSE IF Len(line) > 2 /\ line[1] = "cd" /\ line[2] = " "
         THEN <<Instr(Chdir(name), <<"ok">>, Say(2, "cannot cd") \o Goto("sh_getcmd"))>>
         ELSE fork1(runcmd(parsecmd(line))) \o Do1(Wait))
        \o Goto("sh_getcmd")

Script(label) ==
    CASE label = "init_dup" -> init_dup
      [] label = "init_sh" -> init_sh
      [] label = "init_wait" -> init_wait
      [] label = "sh_getcmd" -> sh_getcmd
      [] label = "diskfull_zz" -> diskfull_zz
      [] label = "diskfull_end" -> diskfull_end
      [] label = "outofinodes_end" -> outofinodes_end

\* What exec starts: the program that the image names.
Program(image, argv) ==
    CASE image[2] = Text("sh") -> sh
      [] image[2] = Text("echo") -> echo(argv)
      [] image[2] = Text("cat") -> cat(argv)
      [] image[2] = Text("ls") -> ls_main(argv)
      [] image[2] = Text("ln") -> ln(argv)
      [] image[2] = Text("rm") -> rm(argv)
      [] image[2] = Text("mkdir") -> mkdir(argv)
      [] image[2] = Text("usertests") -> usertests(argv)
-----------------------------------------------------------------------------
(* The next call of a process. *)

Resolve(script) ==
    IF script # <<>> /\ script[1].call[1] = "goto" THEN Script(script[1].call[2]) ELSE script

\* The result of the last call is what the program wants.
Passed(p) ==
    LET w == prog[p].want
        ret == u[p].ret
        data == u[p].data
    IN  CASE w[1] = "ok" -> ret >= 0
          [] w[1] = "fail" -> ret < 0
          [] w[1] = "none" -> ret <= 0
          [] w[1] = "ret" -> ret = w[2]
          [] w[1] = "data" -> data = w[2]
          [] w[1] = "bag" -> /\ Len(data) = Len(w[2])
                             /\ \A x \in Range(w[2]) :
                                  Cardinality({i \in DOMAIN data : data[i] = x})
                                    = Cardinality({i \in DOMAIN w[2] : w[2][i] = x})
          [] w[1] = "lists" -> \A x \in w[2] :
                  Cardinality({i \in DOMAIN data : Inum(data[i]) # 0 /\ Name(data[i]) = x}) = 1
          [] w[1] = "status" -> data = <<w[2]>>
          [] w[1] = "child" -> ret = prog[p].pid /\ data = <<w[2]>>
          [] w[1] = "pid" -> ret = prog[p].pid
          [] w[1] \in {"shell", "cat", "ls", "ls_stat"} -> ret >= 0
          [] w[1] = "stream" -> IF ret = 0 THEN w[3] = <<>> ELSE ret > 0 /\ IsPrefix(data, w[3])
          [] w[1] \in {"any", "exec", "line", "ls_entry"} -> TRUE

\* The script p goes on with: the loops that depend on a result are here.
Todo(p) ==
    LET w == prog[p].want
        todo == prog[p].todo
        ret == u[p].ret
        data == u[p].data
    IN  Resolve(
          IF ~Passed(p) THEN prog[p].else
          ELSE CASE w[1] = "exec" /\ ret = 0 -> Program(data, w[2])
                 [] w[1] = "line" -> IF ret = 0 THEN Exit(0) ELSE Resolve(sh_line(data[1]))
                 [] w[1] = "shell" -> IF ret = prog[p].pid THEN init_sh ELSE init_wait
                 [] w[1] = "cat" /\ ret > 0 ->
                      <<Instr(Write(1, data), <<"ret", ret>>, Say(2, "cat: error") \o Exit(1))>>
                      \o cat_fd(w[2]) \o todo
                 [] w[1] = "ls" ->
                      (IF data[2] = T_DIR THEN ls_entry(w[2]) ELSE LsPrint(Last(w[2]), data)) \o todo
                 [] w[1] = "ls_entry" /\ ret = 1 ->
                      IF Inum(data[1]) = 0 THEN ls_entry(w[2]) \o todo
                      ELSE ls_stat(w[2], Name(data[1]), todo)
                 [] w[1] = "ls_stat" ->
                      Do1(Close(4)) \o LsPrint(w[3], data) \o ls_entry(w[2]) \o todo
                 [] w[1] = "stream" /\ ret > 0 ->
                      <<Instr(Read(w[2], 2 * w[4]),
                              <<"stream", w[2], SubSeq(w[3], ret + 1, Len(w[3])), 2 * w[4]>>,
                              Exit(1))>> \o todo
                 [] OTHER -> todo)

\* The call is made: what follows it is kept.
Called(p, script) ==
    [prog[p] EXCEPT !.want = script[1].want, !.else = script[1].else, !.todo = Tail(script)]

-----------------------------------------------------------------------------
(* fork, exit, wait. *)

Live(p) == state[p] = "run" /\ InUser(p)
Kids(p) == {q \in Procs : state[q] # "unused" /\ parent[q] = p}

\* fork: a free slot, the open files and the directory of the parent.
fork(p, script, rest) ==
    LET free == {q \in Procs : state[q] = "unused"}
        np == Min(free)
        shares(f) == Cardinality({fd \in Fds : ofile[p][fd] = f})
    IN  IF free = {}
        THEN /\ Fails(p)
             /\ prog' = [prog EXCEPT ![p] = rest]
             /\ UNCHANGED procvars
        ELSE /\ state' = [state EXCEPT ![np] = "run"]
             /\ parent' = [parent EXCEPT ![np] = p]
             /\ ftable' = [f \in FileSlots |-> [ftable[f] EXCEPT !.ref = @ + shares(f)]]
             /\ ofile' = [ofile EXCEPT ![np] = ofile[p]]
             /\ itable' = idup(itable, cwd[p])
             /\ cwd' = [cwd EXCEPT ![np] = cwd[p]]
             /\ u' = [u EXCEPT ![p] = [NoLocals EXCEPT !.ret = np], ![np] = NoLocals]
             /\ prog' = [prog EXCEPT ![p] = [rest EXCEPT !.pid = np], ![np] = Running(script)]
             /\ UNCHANGED <<disk, stable, inop, wrote, pipes, tty, pc, panic, xstate>>

\* exit: the files are closed, then the directory is put.  A close that is not
\* the last one of its file only counts down.
exit(p, status) ==
    IF p = initproc THEN Panic("init exiting") /\ UNCHANGED <<procvars, prog>>
    ELSE LET shares(f) == Cardinality({fd \in Fds : ofile[p][fd] = f})
             last == {f \in FileSlots : shares(f) > 0 /\ ftable[f].ref = shares(f)}
         IN  /\ ftable' = [f \in FileSlots |-> [ftable[f] EXCEPT !.ref =
                             @ - IF f \in last THEN shares(f) - 1 ELSE shares(f)]]
             /\ pc' = [pc EXCEPT ![p] =
                         SetToSeq({Frame("fileclose", f) : f \in last})
                         \o <<Frame("exit_cwd", 0), Frame("exit", status)>>]
             /\ ofile' = [ofile EXCEPT ![p] = [fd \in Fds |-> 0]]
             /\ prog' = [prog EXCEPT ![p] = NoProg]
             /\ u' = [u EXCEPT ![p] = NoLocals]
             /\ UNCHANGED <<disk, stable, inop, wrote, itable, cwd, pipes, tty, panic, procvars>>

\* Fault: the directory is not put.
exit_cwd_kept(p) ==
    /\ At(p, "exit_cwd")
    /\ inop' = inop \cup {p}
    /\ pc' = [pc EXCEPT ![p] = <<Frame("end_op", 0)>> \o Rest(p)]
    /\ cwd' = [cwd EXCEPT ![p] = 0]
    /\ UNCHANGED <<disk, stable, wrote, itable, ftable, ofile, pipes, tty, u, panic>>

exit_cwd(p) ==
    /\ At(p, "exit_cwd")
    /\ inop' = inop \cup {p}
    /\ pc' = [pc EXCEPT ![p] = <<Frame("iput", cwd[p]), Frame("end_op", 0)>> \o Rest(p)]
    /\ cwd' = [cwd EXCEPT ![p] = 0]
    /\ UNCHANGED <<disk, stable, wrote, itable, ftable, ofile, pipes, tty, u, panic>>

\* The children go to init, and the process is a zombie.
exit_zombie(p) ==
    /\ At(p, "exit")
    /\ state' = [state EXCEPT ![p] = "zombie"]
    /\ xstate' = [xstate EXCEPT ![p] = Arg(p)]
    /\ parent' = [q \in Procs |-> IF q \in Kids(p) THEN initproc ELSE parent[q]]
    /\ pc' = [pc EXCEPT ![p] = <<>>]
    /\ UNCHANGED <<disk, stable, inop, wrote, mem, u, panic, prog>>

\* wait: any child that is a zombie; it sleeps while there is none.
wait(p, rest) ==
    /\ prog' = [prog EXCEPT ![p] = rest]
    /\ IF Kids(p) = {} THEN Fails(p) /\ UNCHANGED procvars
       ELSE \E q \in Kids(p) :
              /\ state[q] = "zombie"
              /\ state' = [state EXCEPT ![q] = "unused"]
              /\ parent' = [parent EXCEPT ![q] = 0]
              /\ xstate' = [xstate EXCEPT ![q] = 0]
              /\ u' = [u EXCEPT ![p] = [NoLocals EXCEPT !.ret = q, !.data = <<xstate[q]>>]]
              /\ UNCHANGED <<disk, stable, inop, wrote, mem, pc, panic>>

-----------------------------------------------------------------------------

\* The next call of the program in p.
UserStep(p) ==
    /\ entered
    /\ Live(p)
    /\ \E script \in {Todo(p)} :
       LET c == script[1].call
           rest == Called(p, script)
       IN  CASE c[1] = "fork" -> fork(p, c[2], rest)
             [] c[1] = "exit" -> exit(p, c[2])
             [] c[1] = "wait" -> wait(p, rest)
             [] OTHER -> /\ Syscall(p, c)
                         /\ prog' = [prog EXCEPT ![p] = rest]
                         /\ UNCHANGED procvars
    /\ UNCHANGED <<typed, entered>>

SystemStep(p) ==
    /\ \/ (KernelStep(p) \/ exit_cwd(p)) /\ UNCHANGED <<procvars, prog>>
       \/ exit_zombie(p)
    /\ UNCHANGED <<typed, entered>>

Type ==
    /\ ~entered /\ Len(typed) < MaxTyped
    /\ \E c \in Chars : typed' = Append(typed, c)
    /\ UNCHANGED <<vars, procvars, prog, entered>>

\* ^U kills the line that is being typed (consoleintr).
KillLine ==
    /\ ~entered /\ typed # <<>>
    /\ typed' = <<>>
    /\ UNCHANGED <<vars, procvars, prog, entered>>

\* A line is entered, and then the end of input.
Enter ==
    /\ ~entered /\ typed = <<>>
    /\ typed' \in Lines
    /\ entered' = TRUE
    /\ tty' = [tty EXCEPT !.in = << <<typed'>>, <<>> >>]
    /\ UNCHANGED <<disk, stable, inop, wrote, itable, ftable, ofile, cwd, pipes, pc, u, panic>>
    /\ UNCHANGED <<procvars, prog>>

\* The line was run, and the system waits for input again.
Done ==
    /\ entered /\ panic = "" /\ tty.in = <<>>
    /\ {p \in Procs : state[p] # "unused"} = {initproc, prog[initproc].pid}
    /\ \A p \in {initproc, prog[initproc].pid} : Live(p) /\ Todo(p)[1].call[1] \in {"wait", "read"}

Init ==
    /\ FsInit({initproc}, FirstDisk)
    /\ state = [p \in Procs |-> IF p = initproc THEN "run" ELSE "unused"]
    /\ parent = [p \in Procs |-> 0]
    /\ xstate = [p \in Procs |-> 0]
    /\ prog = [p \in Procs |-> IF p = initproc THEN Running(init) ELSE NoProg]
    /\ typed = <<>>
    /\ entered = FALSE

Next ==
    \/ Type \/ KillLine \/ Enter
    \/ \E p \in Procs : UserStep(p) \/ SystemStep(p)
    \/ Done /\ UNCHANGED allvars

Spec == Init /\ [][Next]_allvars

-----------------------------------------------------------------------------
(* What a command means, without processes, descriptors or pipes.            *)
(*                                                                           *)
(* An outcome is what the command writes, as <<descriptor, unit>> in order,  *)
(* and the files it leaves (a function from names to contents).              *)

Outcome(tr, fs) == [tr |-> tr, fs |-> fs]
Says(fd, units) == [i \in 1 .. Len(units) |-> <<fd, units[i]>>]
Only(tr, fd) == LET chosen == SelectSeq(tr, LAMBDA e : e[1] = fd)
                IN  [i \in 1 .. Len(chosen) |-> chosen[i][2]]
Other(tr, fd) == SelectSeq(tr, LAMBDA e : e[1] # fd)

\* All the ways to merge two sequences.
RECURSIVE Merges(_, _)
Merges(s, t) ==
    IF s = <<>> THEN {t} ELSE IF t = <<>> THEN {s}
    ELSE {<<s[1]>> \o m : m \in Merges(Tail(s), t)} \cup {<<t[1]>> \o m : m \in Merges(s, Tail(t))}

With(fs, f, units) == (f :> units) @@ fs

EchoText(argv) ==
    FlattenSeq([i \in 1 .. (Len(argv) - 1) |->
                  <<Text(argv[i + 1]), Text(IF i + 1 < Len(argv) THEN " " ELSE "\n")>>])

\* cat stops at the first file that is missing.
CatTrace(files, fs) ==
    LET missing == {i \in DOMAIN files : files[i] \notin DOMAIN fs}
        n == IF missing = {} THEN Len(files) ELSE Min(missing) - 1
    IN  Says(1, FlattenSeq([i \in 1 .. n |-> fs[files[i]]]))
        \o IF missing = {} THEN <<>> ELSE Says(2, <<Text("cat: cannot open")>>)

\* ls shows a file, or what is in a directory, in the order of the entries.
LsTrace(name) ==
    LET words(n, i) == LsWords(n, <<i, disk.ino[i].type, 0, disk.ino[i].size>>)
        list(di) == FlattenSeq([k \in 1 .. di.size |->
                      LET e == Unit(disk, di, k - 1)
                      IN  IF Inum(e) = 0 THEN <<>> ELSE words(Name(e), Inum(e))])
        found == dirlookup(disk, disk.ino[ROOTINO], name).inum
    IN  IF found = 0 THEN Says(2, <<Text("ls: cannot open")>>)
        ELSE LET out == IF disk.ino[found].type = T_DIR THEN list(disk.ino[found])
                        ELSE words(name, found)
             IN  Says(1, [i \in DOMAIN out |-> Text(out[i])])

\* The arguments of rm before the first that names no file.
Removed(argv, fs) ==
    LET missing == {i \in 2 .. Len(argv) : argv[i] \notin DOMAIN fs}
    IN  {argv[i] : i \in 2 .. (IF missing = {} THEN Len(argv) ELSE Min(missing) - 1)}

Linked(argv, fs) == argv[2] \in DOMAIN fs /\ argv[3] \notin DOMAIN fs

ExecFiles(argv, fs) ==
    IF argv = <<>> THEN fs
    ELSE CASE argv[1] = "rm" -> Restrict(fs, DOMAIN fs \ Removed(argv, fs))
           [] argv[1] = "ln" /\ Linked(argv, fs) -> With(fs, argv[3], fs[argv[2]])
           [] OTHER -> fs

ExecMeaning(argv, in, fs) ==
    IF argv = <<>> THEN <<>>
    ELSE CASE argv[1] = "echo" -> Says(1, EchoText(argv))
           [] argv[1] = "cat" -> IF Len(argv) = 1 THEN Says(1, in) ELSE CatTrace(Tail(argv), fs)
           [] argv[1] = "ls" -> FlattenSeq([i \in 1 .. Max({1, Len(argv) - 1}) |->
                                  LsTrace(IF Len(argv) = 1 THEN "." ELSE argv[i + 1])])
           [] argv[1] = "rm" /\ Removed(argv, fs) = Range(Tail(argv)) -> <<>>
           [] argv[1] = "ln" /\ Linked(argv, fs) -> <<>>
           [] argv[1] = "mkdir" /\ Range(Tail(argv)) \cap DOMAIN fs = {} -> <<>>
           [] argv[1] \in {"rm", "ln", "mkdir"} -> Says(2, <<Text("failed")>>)
           [] OTHER -> Says(2, <<Text("exec failed")>>)

\* What the file f holds when out was written to it from the start: >> does not
\* move the offset to the end.
Overwritten(old, out) == out \o SubSeq(old, Len(out) + 1, Len(old))

RECURSIVE Meaning(_, _, _)
Meaning(cmd, in, fs) ==
    CASE cmd[1] = "PANIC" -> {Outcome(Says(2, <<Text("syntax")>>), fs)}
      [] cmd[1] = "EXEC" -> {Outcome(ExecMeaning(cmd[2], in, fs), ExecFiles(cmd[2], fs))}
      [] cmd[1] = "BACK" -> Meaning(cmd[2], in, fs)
      [] cmd[1] = "LIST" ->
           UNION {UNION {{Outcome(tr, r.fs) : tr \in IF cmd[2][1] = "BACK" THEN Merges(l.tr, r.tr)
                                                     ELSE {l.tr \o r.tr}}
                         : r \in Meaning(cmd[3], in, l.fs)} : l \in Meaning(cmd[2], in, fs)}
      [] cmd[1] = "PIPE" ->
           UNION {UNION {{Outcome(tr, r.fs) : tr \in Merges(Other(l.tr, 1), r.tr)}
                         : r \in Meaning(cmd[3], Only(l.tr, 1), l.fs)} : l \in Meaning(cmd[2], in, fs)}
      [] cmd[1] = "REDIR" ->
           LET f == cmd[3][2]
               old == IF f \in DOMAIN fs /\ cmd[3][1] = "+" THEN fs[f] ELSE <<>>
           IN  IF cmd[3][1] # "<"
               THEN {Outcome(Other(o.tr, 1), With(o.fs, f, Overwritten(old, Only(o.tr, 1))))
                     : o \in Meaning(cmd[2], in, With(fs, f, old))}
               ELSE IF f \in DOMAIN fs THEN Meaning(cmd[2], fs[f], fs)
               ELSE {Outcome(Says(2, <<Text("open failed")>>), fs)}

\* The files of the root directory, as far as they are text.
Contents(d) ==
    LET root == d.ino[ROOTINO]
        texts == {off \in Entries(d, root) \ {0, 1} : d.ino[Inum(Unit(d, root, off))].type = T_FILE}
        at(n) == CHOOSE off \in texts : Name(Unit(d, root, off)) = n
    IN  [n \in {Name(Unit(d, root, off)) : off \in texts} |->
           LET di == d.ino[Inum(Unit(d, root, at(n)))] IN readi(d, di, 0, di.size)]

LineMeaning(line) ==
    LET fs == Contents(FirstDisk)
    IN  IF SkipBlanks(line, 1) > Len(line) THEN {Outcome(<<>>, fs)}
        ELSE IF line[1] = "cd"
        THEN {Outcome(IF line[3] = "/" THEN <<>> ELSE Says(2, <<Text("cannot cd")>>), fs)}
        ELSE Meaning(Grammar(line), <<>>, fs)

-----------------------------------------------------------------------------
(* Properties. *)

IsTest == typed # <<>> /\ typed[1] = "usertests"

\* Processes form a tree with init at its root (fork, exit, wait, reparent), and
\* what a process that does not exist held was given back.
ProcsTypeOK ==
    /\ \A p \in Procs : state[p] \in {"unused", "run", "zombie"}
    /\ \A p \in Procs : state[p] # "unused" /\ p # initproc =>
         parent[p] \in Procs /\ state[parent[p]] = "run"
    /\ \A p \in Procs : state[p] # "run" => cwd[p] = 0 /\ pc[p] = <<>>

\* No test of usertests fails, however its processes interleave (usertests.c: a
\* test that finds something wrong exits with status 1, and run() says FAILED).
TestsPass == Text("FAILED") \notin Range(tty.out)

\* The recursive descent of parsecmd builds the tree that the grammar gives to
\* the line, or finds the same lines wrong (sh.c, parseline and below).
ParseMatches == ~entered => parsecmd(typed) = Grammar(typed)

\* What init and the shell say when they are ready.
Prompts == {Text("init: starting sh"), Text("$ ")}

\* When a line was run, the console shows (besides the prompts) and the disk holds what the command
\* means: every byte went through the right descriptor to the right place, in
\* an order that the command allows (sh.c runcmd; fork, exec, pipe, dup).
ShellMeaning ==
    Done /\ ~IsTest =>
        \E o \in LineMeaning(typed) :
            /\ SelectSeq(tty.out, LAMBDA x : x \notin Prompts) = [i \in DOMAIN o.tr |-> o.tr[i][2]]
            /\ Contents(disk) = o.fs

\* The processes form a tree (ProcsTypeOK), and when a line was run, nothing of
\* it is left in the kernel: the only open file is the console, six times; no
\* pipe; two references to the root directory; no inode without a name, except
\* those that iput forgets (see NoneForgotten); and no file of a test, except
\* the one of linkunlink (exit, fileclose, iput).
CleanExit ==
    /\ ProcsTypeOK
    /\ Done =>
        /\ \A f \in FileSlots : ftable[f].ref > 0 => ftable[f].type = "FD_DEVICE" /\ ftable[f].ref = 6
        /\ \A i \in 1 .. NPIPE : pipes[i] = NoPipe
        /\ \A s \in Slots : itable[s].ref > 0 =>
               itable[s].ref = IF itable[s].inum = ROOTINO THEN 2
                               ELSE IF itable[s].di.type = T_DEVICE THEN 1 ELSE 0
        /\ \A i \in Allocated(disk) : Named(disk, i) \/ i \in disk.orphans
        /\ IsTest => DOMAIN Contents(disk) \subseteq DOMAIN Contents(FirstDisk) \cup {"x"}

\* p sleeps in a call: in wait without a zombie, in a read of an empty pipe that
\* has a writer or of the console without input, or in a write to a full pipe.
Sleeps(p) ==
    IF pc[p] # <<>>
    THEN At(p, "pipewrite") /\ LET i == ftable[Arg(p).f].pipe
                               IN  Len(pipes[i].q) = PIPESIZE /\ pipes[i].readopen
    ELSE \E c \in {Todo(p)[1].call} :
         \/ c[1] = "wait" /\ Kids(p) # {} /\ \A q \in Kids(p) : state[q] # "zombie"
         \/ /\ c[1] = "read"
            /\ LET f == argfd(p, c[2])
               IN  /\ ~CannotRead(f)
                   /\ \/ /\ ftable[f].type = "FD_PIPE"
                         /\ pipes[ftable[f].pipe].q = <<>> /\ pipes[ftable[f].pipe].writeopen
                      \/ ftable[f].type = "FD_DEVICE" /\ tty.in = <<>>

\* Not everyone waits for everyone: when all processes sleep, the line has been
\* run and it is the shell that waits for the next one (pipe ends that are never
\* closed, a wait for a child that waits for its parent).
NoHang ==
    entered /\ panic = "" /\ (\A p \in Procs : state[p] = "run" => Sleeps(p)) => Done

=============================================================================
