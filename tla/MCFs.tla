-------------------------------- MODULE MCFs --------------------------------
(***************************************************************************)
(* Fs with two processes that, after a few calls that set the scene, make  *)
(* any of a set of calls in any order, and with crashes.  Directories are  *)
(* made in the root directory only: Fs does panic if two nested            *)
(* directories are removed under a process that is in the inner one and    *)
(* then looks up "..".                                                     *)
(***************************************************************************)
EXTENDS Fs, Mkfs

CONSTANTS p1, p2,
          MaxCalls,     \* calls after the scene is set
          MaxCrashes

VARIABLES scene, calls, crashes

mcvars == <<vars, scene, calls, crashes>>

MCFiles == <<[name |-> "f", data |-> <<Data(1)>>]>>

F == <<"/", "f">>
D == <<"/", "d">>
X == <<"x">>

\* p1 has /f open and p2 is in the directory /d.
Scene == << <<p1, <<"mkdir", D>>>>,
            <<p1, <<"open", F, O_RDWR>>>>,
            <<p2, <<"chdir", D>>>> >>

\* More than one operation can write, and more than the direct blocks hold.
Long == [i \in 1 .. 7 |-> Data(2)]

Calls(p) ==
    {<<"open", X, O_CREATE \cup O_RDWR>>,
     <<"open", F, O_WRONLY \cup O_TRUNC>>,
     <<"mkdir", D>>,
     <<"chdir", D>>, <<"chdir", <<"..">>>>,
     <<"unlink", D>>, <<"unlink", X>>, <<"unlink", F>>,
     <<"link", F, X>>,
     <<"close", 0>>}
    \cup (IF p = p1 THEN {<<"write", 0, Long, good>> : good \in {4, 7}} ELSE {})

MCInit == FsInit(Procs, mkfs(MCFiles)) /\ scene = Scene /\ calls = 0 /\ crashes = 0

MCNext ==
    \/ /\ scene # <<>> /\ Idle
       /\ Syscall(Head(scene)[1], Head(scene)[2])
       /\ scene' = Tail(scene)
       /\ UNCHANGED <<calls, crashes>>
    \/ /\ scene = <<>> /\ calls < MaxCalls
       /\ \E p \in Procs : \E c \in Calls(p) : Syscall(p, c)
       /\ calls' = calls + 1
       /\ UNCHANGED <<scene, crashes>>
    \/ /\ \E p \in Procs : KernelStep(p)
       /\ UNCHANGED <<scene, calls, crashes>>
    \/ /\ scene = <<>> /\ crashes < MaxCrashes
       /\ Crash(Procs)
       /\ crashes' = crashes + 1
       /\ UNCHANGED <<scene, calls>>
    \/ /\ Idle /\ scene = <<>> /\ calls = MaxCalls
       /\ UNCHANGED mcvars

MCSpec == MCInit /\ [][MCNext]_mcvars
=============================================================================
