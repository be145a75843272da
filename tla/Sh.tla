--------------------------------- MODULE Sh ---------------------------------
(***************************************************************************)
(* The parser of the shell (sh.c), and a grammar it should agree with.     *)
(*                                                                         *)
(* A line is a sequence of characters: a blank, one of the symbols, or a   *)
(* word, which stands for the characters of a word without its end.  A     *)
(* position s in the line stands for the pointer *ps; Len(line) + 1 is es. *)
(***************************************************************************)
EXTENDS Integers, Sequences, FiniteSets, SequencesExt

CONSTANT MAXARGS

ASSUME ShAssumption == MAXARGS \in Nat \ {0}

whitespace == {" "}
symbols == {"<", "|", ">", "&", ";", "(", ")"}

\* The character at s; "" is the zero at the end of the string.
CharAt(line, s) == IF s > Len(line) THEN "" ELSE line[s]

\* The trees, and what a panic leaves.
execcmd(argv) == <<"EXEC", argv>>
redircmd(cmd, r) == <<"REDIR", cmd, r>>
pipecmd(left, right) == <<"PIPE", left, right>>
listcmd(left, right) == <<"LIST", left, right>>
backcmd(cmd) == <<"BACK", cmd>>
SyntaxError == <<"PANIC">>

Redirs(cmd, rs) == FoldLeft(redircmd, cmd, rs)

Parsed(cmd, s) == [ok |-> TRUE, cmd |-> cmd, s |-> s]
NotParsed == [ok |-> FALSE, cmd |-> SyntaxError, s |-> 0]

-----------------------------------------------------------------------------

SkipBlanks(line, s) ==
    CHOOSE t \in s .. (Len(line) + 1) :
        /\ CharAt(line, t) \notin whitespace
        /\ \A i \in s .. (t - 1) : CharAt(line, i) \in whitespace

\* gettoken: the kind of the token ("a" is a word, "+" is >>), the token and
\* the position after it and the blanks that follow.
gettoken(line, s) ==
    LET token(q, c, twice) ==
            [tok |-> IF twice THEN "+" ELSE IF c \in symbols \cup {""} THEN c ELSE "a",
             word |-> c,
             s |-> IF c = "" THEN q
                   ELSE SkipBlanks(line, IF twice THEN q + 2 ELSE q + 1)]
        at(q) == token(q, CharAt(line, q),
                       CharAt(line, q) = ">" /\ CharAt(line, q + 1) = ">")
    IN  at(SkipBlanks(line, s))

peek(line, s, toks) == CharAt(line, SkipBlanks(line, s)) \in toks

\* parseredirs: the redirections from s on, as <<kind, file>>.
RECURSIVE parseredirs(_, _, _)
parseredirs(line, s, rs) ==
    LET file(t, f) == IF f.tok # "a" THEN [ok |-> FALSE, rs |-> <<>>, s |-> 0]
                      ELSE parseredirs(line, f.s, Append(rs, <<t.tok, f.word>>))
        redir(t) == file(t, gettoken(line, t.s))
    IN  IF ~peek(line, s, {"<", ">"}) THEN [ok |-> TRUE, rs |-> rs, s |-> s]
        ELSE redir(gettoken(line, s))

\* The loop of parseexec, which has argv and the redirections rs so far.
RECURSIVE parseargs(_, _, _, _)
parseargs(line, s, argv, rs) ==
    LET next(t, more) == IF ~more.ok THEN NotParsed
                         ELSE parseargs(line, more.s, Append(argv, t.word), more.rs)
        arg(t) == IF t.tok = "" THEN Parsed(Redirs(execcmd(argv), rs), s)
                  ELSE IF t.tok # "a" \/ Len(argv) + 1 >= MAXARGS THEN NotParsed
                  ELSE next(t, parseredirs(line, t.s, rs))
    IN  IF peek(line, s, {"|", ")", "&", ";"}) THEN Parsed(Redirs(execcmd(argv), rs), s)
        ELSE arg(gettoken(line, s))

RECURSIVE parseline(_, _), parsepipe(_, _), parseblock(_, _)

parseexec(line, s) ==
    LET args(r) == IF r.ok THEN parseargs(line, r.s, <<>>, r.rs) ELSE NotParsed
    IN  IF peek(line, s, {"("}) THEN parseblock(line, s)
        ELSE args(parseredirs(line, s, <<>>))

parseblock(line, s) ==
    LET block(cmd, r) == IF r.ok THEN Parsed(Redirs(cmd, r.rs), r.s) ELSE NotParsed
        close(body) ==
            IF ~body.ok THEN NotParsed
            ELSE IF ~peek(line, body.s, {")"}) THEN NotParsed
            ELSE block(body.cmd, parseredirs(line, gettoken(line, body.s).s, <<>>))
    IN  close(parseline(line, gettoken(line, s).s))

\* Fault: the right side of a pipe is a single command.
parsepipe_once(line, s) ==
    LET both(left, right) == IF ~right.ok THEN NotParsed
                             ELSE Parsed(pipecmd(left.cmd, right.cmd), right.s)
        rest(left) == IF ~left.ok \/ ~peek(line, left.s, {"|"}) THEN left
                      ELSE both(left, parseexec(line, gettoken(line, left.s).s))
    IN  rest(parseexec(line, s))

parsepipe(line, s) ==
    LET both(left, right) == IF ~right.ok THEN NotParsed
                             ELSE Parsed(pipecmd(left.cmd, right.cmd), right.s)
        rest(left) == IF ~left.ok \/ ~peek(line, left.s, {"|"}) THEN left
                      ELSE both(left, parsepipe(line, gettoken(line, left.s).s))
    IN  rest(parseexec(line, s))

\* The loop of parseline over "&".
RECURSIVE parseback(_, _)
parseback(line, r) ==
    IF r.ok /\ peek(line, r.s, {"&"})
    THEN parseback(line, Parsed(backcmd(r.cmd), gettoken(line, r.s).s))
    ELSE r

parseline(line, s) ==
    LET both(first, next) == IF ~next.ok THEN NotParsed
                             ELSE Parsed(listcmd(first.cmd, next.cmd), next.s)
        rest(first) == IF ~first.ok \/ ~peek(line, first.s, {";"}) THEN first
                       ELSE both(first, parseline(line, gettoken(line, first.s).s))
    IN  rest(parseback(line, parsepipe(line, s)))

\* parsecmd; nulterminate ends the words in place, which are values here.
parsecmd(line) ==
    LET whole(r) == IF r.ok /\ SkipBlanks(line, r.s) = Len(line) + 1 THEN r.cmd
                    ELSE SyntaxError
    IN  whole(parseline(line, 1))

-----------------------------------------------------------------------------
(* The grammar, by cutting a line at its operators from the loosest one on.  *)

\* The line without its blanks, with >> as one symbol.
RECURSIVE Tokens(_)
Tokens(line) ==
    IF line = <<>> THEN <<>>
    ELSE IF Head(line) \in whitespace THEN Tokens(Tail(line))
    ELSE IF Len(line) > 1 /\ line[1] = ">" /\ line[2] = ">"
    THEN <<">>">> \o Tokens(SubSeq(line, 3, Len(line)))
    ELSE <<Head(line)>> \o Tokens(Tail(line))

IsWord(t) == t \notin symbols \cup {">>"}
RedirKind(t) == IF t = ">>" THEN "+" ELSE t
Count(ts, i, t) == Cardinality({j \in 1 .. i : ts[j] = t})
Depth(ts, i) == Count(ts, i, "(") - Count(ts, i, ")")
Balanced(ts) == Depth(ts, Len(ts)) = 0 /\ \A i \in 1 .. Len(ts) : Depth(ts, i) >= 0

\* The places of t outside parentheses.
Cuts(ts, t) == {i \in 1 .. Len(ts) : ts[i] = t /\ Depth(ts, i) = 0}
First(S) == CHOOSE i \in S : \A j \in S : i <= j
Before(ts, i) == SubSeq(ts, 1, i - 1)
After(ts, i) == SubSeq(ts, i + 1, Len(ts))

\* ts as words and redirections only: those places hold a redirection.
RedirPlaces(ts) == {i \in 1 .. Len(ts) : ts[i] \in {"<", ">", ">>"}}
FilePlaces(ts) == {i + 1 : i \in RedirPlaces(ts)}
Flat(ts) == /\ \A i \in 1 .. Len(ts) : IsWord(ts[i]) \/ i \in RedirPlaces(ts)
            /\ \A i \in FilePlaces(ts) : i <= Len(ts) /\ IsWord(ts[i])
InOrder(S) == SetToSortSeq(S, LAMBDA a, b : a < b)
RedirsOf(ts) == [k \in 1 .. Cardinality(RedirPlaces(ts)) |->
                   LET i == InOrder(RedirPlaces(ts))[k] IN <<RedirKind(ts[i]), ts[i + 1]>>]
WordsOf(ts) == LET ws == InOrder((1 .. Len(ts)) \ (RedirPlaces(ts) \cup FilePlaces(ts)))
               IN  [k \in 1 .. Len(ws) |-> ts[ws[k]]]

\* A tree of two parts is an error if one of them is.
Both(l, r, tree) == IF SyntaxError \in {l, r} THEN SyntaxError ELSE tree

RECURSIVE Line(_)

Simple(ts) ==
    IF ts # <<>> /\ ts[1] = "("
    THEN LET close == First({i \in 1 .. Len(ts) : Depth(ts, i) = 0})
             body == Line(SubSeq(ts, 2, close - 1))
             rest == After(ts, close)
         IN  IF body = SyntaxError \/ ~Flat(rest) THEN SyntaxError
             ELSE IF WordsOf(rest) # <<>> THEN SyntaxError
             ELSE Redirs(body, RedirsOf(rest))
    ELSE IF ~Flat(ts) THEN SyntaxError
    ELSE IF Len(WordsOf(ts)) >= MAXARGS THEN SyntaxError
    ELSE Redirs(execcmd(WordsOf(ts)), RedirsOf(ts))

RECURSIVE Pipeline(_)
Pipeline(ts) ==
    IF Cuts(ts, "|") = {} THEN Simple(ts)
    ELSE LET i == First(Cuts(ts, "|"))
             l == Simple(Before(ts, i))
             r == Pipeline(After(ts, i))
         IN  Both(l, r, pipecmd(l, r))

RECURSIVE Background(_)
Background(ts) ==
    IF ts # <<>> /\ ts[Len(ts)] = "&"
    THEN LET c == Background(Before(ts, Len(ts))) IN Both(c, c, backcmd(c))
    ELSE IF Cuts(ts, "&") # {} THEN SyntaxError ELSE Pipeline(ts)

Line(ts) ==
    IF Cuts(ts, ";") = {} THEN Background(ts)
    ELSE LET i == First(Cuts(ts, ";"))
             l == Background(Before(ts, i))
             r == Line(After(ts, i))
         IN  Both(l, r, listcmd(l, r))

Grammar(line) ==
    LET balanced(ts) == IF Balanced(ts) THEN Line(ts) ELSE SyntaxError
    IN  balanced(Tokens(line))

=============================================================================
