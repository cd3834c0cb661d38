-------------------------------- MODULE Shell --------------------------------
(***************************************************************************)
(* The shell (sh.c): the parser, nulterminate, and the descriptors that    *)
(* runcmd gives each command.  A line is a sequence of characters, a       *)
(* position in it an index; "a" stands for every character that is neither *)
(* white space nor a symbol.  Parsing works on r = [s, cmd, err], the      *)
(* position, the command so far and the text of the panic, if any.         *)
(***************************************************************************)
EXTENDS Integers, Sequences

CONSTANT MAXARGS

whitespace == {" "}
symbols == {"<", "|", ">", "&", ";", "(", ")"}

(* The character at a position; the NUL at the end. *)
At(l, i) == IF i <= Len(l) THEN l[i] ELSE ""

RECURSIVE skip(_, _, _)
skip(l, i, stop) == IF i > Len(l) \/ l[i] \in stop THEN i ELSE skip(l, i + 1, stop)
Visible == {"a"} \cup symbols
blanks(l, i) == skip(l, i, Visible)

(* The token at q. *)
Token(l, q) ==
  LET c == At(l, q)
      more == c = ">" /\ At(l, q + 1) = ">"
      eq == CASE c = "" -> q
              [] c \in symbols -> IF more THEN q + 2 ELSE q + 1
              [] OTHER -> skip(l, q, whitespace \cup symbols)
  IN [tok |-> IF c = "" \/ (c \in symbols /\ ~more) THEN c ELSE IF more THEN "+" ELSE "a",
      q |-> q, eq |-> eq, s |-> blanks(l, eq)]
gettoken(l, ps) == Token(l, blanks(l, ps))

peek(l, ps, toks) == At(l, blanks(l, ps)) \in toks

execcmd == [type |-> "EXEC", argv |-> <<>>]
redircmd(c, file, fd) == [type |-> "REDIR", cmd |-> c, file |-> file, fd |-> fd]
pipecmd(left, right) == [type |-> "PIPE", left |-> left, right |-> right]
listcmd(left, right) == [type |-> "LIST", left |-> left, right |-> right]
backcmd(c) == [type |-> "BACK", cmd |-> c]

Fail(r, what) == [r EXCEPT !.err = what]

Redirected(r, t, f) ==
  LET fd == IF t.tok = "<" THEN 0 ELSE 1
  IN IF f.tok # "a" THEN Fail(r, "missing file for redirection")
     ELSE [r EXCEPT !.s = f.s, !.cmd = redircmd(@, <<f.q, f.eq>>, fd)]
RECURSIVE parseredirs(_, _)
Redirection(l, r, t) == parseredirs(l, Redirected(r, t, gettoken(l, t.s)))
parseredirs(l, r) ==
  IF r.err # "" \/ ~peek(l, r.s, {"<", ">"}) THEN r
  ELSE Redirection(l, r, gettoken(l, r.s))

(* redirs wrap the execcmd whose argv grows: Argued puts a word into it. *)
RECURSIVE Argued(_, _)
Argued(c, w) ==
  IF c.type = "REDIR" THEN [c EXCEPT !.cmd = Argued(@, w)] ELSE [c EXCEPT !.argv = Append(@, w)]

AddArg(r, t, argc) ==
  IF t.tok # "a" THEN Fail(r, "syntax")
  ELSE IF argc + 1 >= MAXARGS THEN Fail(r, "too many args")
  ELSE [r EXCEPT !.s = t.s, !.cmd = Argued(@, <<t.q, t.eq>>)]
(* The loop of parseexec: a token of 0, at the end of the line, ends it too. *)
RECURSIVE parseargs(_, _, _)
parseargs(l, r, argc) ==
  IF r.err # "" \/ peek(l, r.s, {"|", ")", "&", ";", ""}) THEN r
  ELSE parseargs(l, parseredirs(l, AddArg(r, gettoken(l, r.s), argc)), argc + 1)

RECURSIVE parseline(_, _)
Closed(l, r) ==
  IF r.err # "" THEN r
  ELSE IF ~peek(l, r.s, {")"}) THEN Fail(r, "syntax - missing )")
  ELSE parseredirs(l, [r EXCEPT !.s = gettoken(l, @).s])
parseblock(l, s) == Closed(l, parseline(l, gettoken(l, s).s))

parseexec(l, s) ==
  IF peek(l, s, {"("}) THEN parseblock(l, s)
  ELSE parseargs(l, parseredirs(l, [s |-> s, err |-> "", cmd |-> execcmd]), 0)

RECURSIVE parsepipe(_, _)
Piped(l, r) ==
  IF r.err # "" \/ ~peek(l, r.s, {"|"}) THEN r
  ELSE [parsepipe(l, gettoken(l, r.s).s) EXCEPT !.cmd = pipecmd(r.cmd, @)]
parsepipe(l, s) == Piped(l, parseexec(l, s))

RECURSIVE parseback(_, _)
parseback(l, r) ==
  IF r.err # "" \/ ~peek(l, r.s, {"&"}) THEN r
  ELSE parseback(l, [r EXCEPT !.s = gettoken(l, @).s, !.cmd = backcmd(@)])

Sequel(l, r) ==
  IF r.err # "" \/ ~peek(l, r.s, {";"}) THEN r
  ELSE [parseline(l, gettoken(l, r.s).s) EXCEPT !.cmd = listcmd(r.cmd, @)]
parseline(l, s) == Sequel(l, parseback(l, parsepipe(l, s)))

Whole(l, r) == IF r.err = "" /\ blanks(l, r.s) <= Len(l) THEN Fail(r, "leftovers") ELSE r
parsecmd(l) == Whole(l, parseline(l, 1))

(* Mutant: the name of a redirection's file is not ended. *)
Efile_not(c) == {}

(* nulterminate: the positions that become NUL. *)
Efile(c) == {c.file[2]}

RECURSIVE nulterminate(_)
nulterminate(c) ==
  CASE c.type = "EXEC" -> {c.argv[i][2] : i \in DOMAIN c.argv}
    [] c.type = "REDIR" -> nulterminate(c.cmd) \cup Efile(c)
    [] c.type \in {"PIPE", "LIST"} -> nulterminate(c.left) \cup nulterminate(c.right)
    [] c.type = "BACK" -> nulterminate(c.cmd)

-----------------------------------------------------------------------------
(* runcmd.  fds maps a descriptor to what it is open on; close, open, dup  *)
(* and pipe are the system calls' (fdalloc takes the lowest free one).     *)
(* The result is the set of processes that come to exec, or to wait (argv  *)
(* <<>>), each with its descriptors; `bad' are the files that cannot be    *)
(* opened, and `at' tells the pipes of one line apart.                     *)

Free == <<"free", <<>>>>
close(fds, fd) == [fds EXCEPT ![fd] = Free]
Lowest(fds) == CHOOSE n \in DOMAIN fds :
                 fds[n] = Free /\ \A m \in 0 .. n - 1 : fds[m] # Free
opened(fds, o) == [fds EXCEPT ![Lowest(fds)] = o]

(* The child's end of a pipe: close(fd), dup(p[fd]), close both. *)
ChildEnd(fds, fd, r, w) ==
  LET o == fds[IF fd = 0 THEN r ELSE w] IN close(close(opened(close(fds, fd), o), r), w)

(* Mutant: the parent of a pipe keeps its write end. *)
ParentEnds_one(fds, r, w) == close(fds, r)

ParentEnds(fds, r, w) == close(close(fds, r), w)

RECURSIVE runcmd(_, _, _, _)
runcmd(c, fds, bad, at) ==
  CASE c.type = "EXEC" -> IF c.argv = <<>> THEN {} ELSE {[argv |-> c.argv, fds |-> fds]}
    [] c.type = "REDIR" ->
         IF c.file \in bad THEN {}
         ELSE runcmd(c.cmd, opened(close(fds, c.fd), <<"file", c.file>>), bad, at)
    [] c.type = "LIST" ->
         runcmd(c.left, fds, bad, Append(at, "l")) \cup {[argv |-> <<>>, fds |-> fds]}
           \cup runcmd(c.right, fds, bad, Append(at, "r"))
    [] c.type = "PIPE" ->
         LET r == Lowest(fds)
             f1 == opened(fds, <<"read", at>>)
             w == Lowest(f1)
             f2 == opened(f1, <<"write", at>>)
         IN runcmd(c.left, ChildEnd(f2, 1, r, w), bad, Append(at, "l"))
              \cup runcmd(c.right, ChildEnd(f2, 0, r, w), bad, Append(at, "r"))
              \cup {[argv |-> <<>>, fds |-> ParentEnds(f2, r, w)]}
    [] c.type = "BACK" -> runcmd(c.cmd, fds, bad, Append(at, "l"))

(* main opens the console until descriptors 0, 1 and 2 are taken. *)
Console == [fd \in 0 .. 5 |-> IF fd < 3 THEN <<"console", <<>>>> ELSE Free]

-----------------------------------------------------------------------------
(* What the shell promises of a line. *)

(* The grammar, on the kinds of the line's tokens. *)
RECURSIVE Kinds(_, _)
Kinds(l, s) ==
  LET t == gettoken(l, s) IN IF t.tok = "" THEN <<>> ELSE <<t.tok>> \o Kinds(l, t.s)

Sub(t, i, j) == IF i <= j /\ j <= Len(t) THEN SubSeq(t, i, j) ELSE <<>>
Redirs(t) ==
  /\ Len(t) % 2 = 0
  /\ \A i \in DOMAIN t : IF i % 2 = 1 THEN t[i] \in {"<", ">", "+"} ELSE t[i] = "a"
Simple(t) ==
  \A i \in DOMAIN t : \/ t[i] = "a"
                      \/ t[i] \in {"<", ">", "+"} /\ Sub(t, i + 1, i + 1) = <<"a">>

RECURSIVE IsLine(_)
IsCommand(t) ==
  \/ Simple(t)
  \/ /\ t # <<>> /\ t[1] = "("
     /\ \E i \in 2 .. Len(t) : /\ t[i] = ")"
                               /\ IsLine(Sub(t, 2, i - 1))
                               /\ Redirs(Sub(t, i + 1, Len(t)))
RECURSIVE IsPipe(_)
IsPipe(t) ==
  \/ IsCommand(t)
  \/ \E i \in DOMAIN t : /\ t[i] = "|"
                         /\ IsCommand(Sub(t, 1, i - 1))
                         /\ IsPipe(Sub(t, i + 1, Len(t)))
IsLine(t) ==
  \E i \in 0 .. Len(t) :
    /\ IsPipe(Sub(t, 1, i))
    /\ \E j \in i .. Len(t) :
         /\ \A k \in i + 1 .. j : t[k] = "&"
         /\ j = Len(t) \/ (t[j + 1] = ";" /\ IsLine(Sub(t, j + 2, Len(t))))

(* The words of a line are its longest runs of plain characters. *)
RunsOf(l) ==
  {w \in (1 .. Len(l)) \X (2 .. Len(l) + 1) :
     /\ w[1] < w[2] /\ \A i \in w[1] .. w[2] - 1 : l[i] = "a"
     /\ At(l, w[2]) # "a" /\ (w[1] = 1 \/ l[w[1] - 1] # "a")}
RECURSIVE WordsOf(_)
WordsOf(c) ==
  CASE c.type = "EXEC" -> c.argv
    [] c.type = "REDIR" -> Append(WordsOf(c.cmd), c.file)
    [] c.type = "BACK" -> WordsOf(c.cmd)
    [] OTHER -> WordsOf(c.left) \o WordsOf(c.right)

(* A command reads `in' and writes `out', except where a redirection or a  *)
(* pipe says otherwise.                                                    *)
RECURSIVE Meant(_, _, _, _, _)
Meant(c, in, out, bad, at) ==
  LET with(o) == [fd \in 0 .. 5 |-> CASE fd = 0 -> in [] fd = 1 -> o
                                      [] fd = 2 -> <<"console", <<>>>> [] OTHER -> Free]
  IN CASE c.type = "EXEC" -> IF c.argv = <<>> THEN {} ELSE {[argv |-> c.argv, fds |-> with(out)]}
       [] c.type = "REDIR" ->
            IF c.file \in bad THEN {}
            ELSE IF c.fd = 0 THEN Meant(c.cmd, <<"file", c.file>>, out, bad, at)
            ELSE Meant(c.cmd, in, <<"file", c.file>>, bad, at)
       [] c.type = "LIST" -> Meant(c.left, in, out, bad, Append(at, "l"))
            \cup {[argv |-> <<>>, fds |-> with(out)]} \cup Meant(c.right, in, out, bad, Append(at, "r"))
       [] c.type = "PIPE" -> Meant(c.left, in, <<"write", at>>, bad, Append(at, "l"))
            \cup {[argv |-> <<>>, fds |-> with(out)]}
            \cup Meant(c.right, <<"read", at>>, out, bad, Append(at, "r"))
       [] c.type = "BACK" -> Meant(c.cmd, in, out, bad, Append(at, "l"))

(* parsecmd accepts a line exactly when it is one of the grammar, unless a *)
(* command has too many arguments, and panics on every other.              *)
GrammarOf(l, r) == r.err = "too many args" \/ (r.err = "" <=> IsLine(Kinds(l, 1)))

(* The parsed command holds each word of the line once, and once           *)
(* nulterminate has cut the line each word ends where its token did.       *)
WordsKept(l, r, ws) ==
  /\ {ws[i] : i \in DOMAIN ws} = RunsOf(l)
  /\ \A i, j \in DOMAIN ws : ws[i] = ws[j] => i = j
  /\ \A w \in RunsOf(l) : nulterminate(r.cmd) \cap (w[1] .. w[2]) = {w[2]}

Parsed(l, r) == GrammarOf(l, r) /\ (r.err = "" => WordsKept(l, r, WordsOf(r.cmd)))

(* Every process of a command has exactly the descriptors meant for it: no *)
(* process but the writers of a pipe keeps its write end, so that its      *)
(* reader meets the end of the file.                                       *)
Plumbed(l, r) ==
  r.err = "" =>
    \A bad \in {{}} \cup {{w} : w \in RunsOf(l)} :
      runcmd(r.cmd, Console, bad, <<>>) = Meant(r.cmd, Console[0], Console[1], bad, <<>>)
====
