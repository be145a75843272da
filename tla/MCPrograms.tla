----------------------------- MODULE MCPrograms -----------------------------
(***************************************************************************)
(* Programs with lines for every construct of the shell, and with the      *)
(* tests of usertests.                                                     *)
(***************************************************************************)
EXTENDS Programs

Image(name) == [name |-> name, data |-> <<Data(ELF_MAGIC), Text(name)>>]

MCFiles == <<Image("sh"), Image("echo"), Image("cat"), Image("usertests"),
             Image("ls"), Image("ln"), Image("rm"), Image("mkdir"),
             [name |-> "README", data |-> Fill("r", 5)]>>

\* Words are separated by blanks, as they must be.
Spaced(ws) ==
    LET chars(w) == IF w = ">>" THEN <<">", ">">> ELSE <<w>>
    IN  FlattenSeq([i \in 1 .. Len(ws) |-> IF i = 1 THEN chars(ws[i]) ELSE <<" ">> \o chars(ws[i])])

ShellLines ==
    {Spaced(ws) : ws \in {
        <<"echo", "a", "b">>,
        <<"echo", "a", ">", "f", ";", "cat", "f">>,
        <<"echo", "a", "|", "cat">>,
        <<"cat", "README", "|", "cat", ">", "f", ";", "cat", "f", "f">>,
        <<"(", "echo", "a", "|", "cat", ")", ">", "f", ";", "cat", "f">>,
        <<"cat", "<", "nofile">>,
        <<"cat", "nofile", "README">>,
        <<"cat", "<", "README">>,
        <<"echo", "a", ">", "f", ">", "g", ";", "cat", "f", "g">>,
        <<"(", "echo", "a", "&", ")", ";", "echo", "b">>,
        <<"nosuch", ";", "echo", "a", "&">>,
        <<"echo", "a", "|", "nosuch">>,
        <<"cat", "README", ">", "f", ";", "echo", "a", ">>", "f", ";", "cat", "f">>,
        <<"echo", "a", "|", "(", "cat", ";", "echo", "b", ")">>,
        <<"echo", "a", "&", "echo", "b">>,
        <<"ls">>, <<"ls", "README", "nofile">>,
        <<"mkdir", "d", ";", "ls", "d">>, <<"mkdir", "README", "d">>,
        <<"ln", "README", "f", ";", "rm", "README", ";", "cat", "f">>,
        <<"ln", "nofile", "f", ";", "rm", "echo", "nofile", "cat">>,
        <<"cd", "nosuch">>, <<"cd", "/">>,
        <<"README">>, <<"usertests", "nosuch">>, <<"usertests", "a", "b">>, <<" ">>}}

TestLines == {<<"usertests", " ", t>> : t \in TestNames}

MCLines == ShellLines \cup TestLines
=============================================================================
