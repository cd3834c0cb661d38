------------------------------ MODULE Routines ------------------------------
(***************************************************************************)
(* Pure routines of the kernel and of the user library, each with the      *)
(* reference definition that it is checked against: path elements and      *)
(* directory names (fs.c, string.c), system call arguments (syscall.c),    *)
(* numbers (console.c, printf.c, ulib.c), lines and patterns (ulib.c,      *)
(* grep.c, wc.c).  Text is a sequence of characters; Nul is the NUL.       *)
(***************************************************************************)
EXTENDS Integers, Sequences, FiniteSets, FiniteSetsExt

CONSTANTS
  DIRSIZ,       \* bytes of a name in a directory
  WORD,         \* the number of values of a machine word (2^32)
  MAXSZ,        \* the largest p->sz (KERNBASE, half of WORD)
  INTSIZE,      \* bytes in an int, 4
  MAXARGV,      \* entries of argv in sys_exec
  MAXLINE,      \* bytes of the buffer that gets fills
  GREPBUF       \* bytes of grep's buffer

Nul == "0"
Drop(s, n) == SubSeq(s, n + 1, Len(s))
Take(s, n) == SubSeq(s, 1, n)
(* s[0] of a C string. *)
First(s) == IF s = <<>> THEN Nul ELSE s[1]

RECURSIVE Scan(_, _)
(* The number of leading characters of s that are in cs. *)
Scan(s, cs) == IF s # <<>> /\ s[1] \in cs THEN 1 + Scan(Tail(s), cs) ELSE 0
Letters == {"a", "b"}

-----------------------------------------------------------------------------
(* Names.  name is namex's buffer of DIRSIZ bytes, which still holds what  *)
(* the elements before have left in it.                                    *)

memmove(dst, src, n) == Take(src, n) \o Drop(dst, n)

(* Mutant: a short name is not ended. *)
Ended_not(name, len) == name

Ended(name, len) == [name EXCEPT ![len + 1] = Nul]

skipelem(path, name) ==
  LET p == Drop(path, Scan(path, {"/"}))
      len == Scan(p, Letters)
      rest == Drop(p, len)
  IN [found |-> p # <<>>,
      path |-> Drop(rest, Scan(rest, {"/"})),
      name |-> IF len >= DIRSIZ THEN memmove(name, p, DIRSIZ)
               ELSE Ended(memmove(name, p, len), len)]

RECURSIVE strncmp(_, _, _)
strncmp(p, q, n) ==
  IF n > 0 /\ p[1] # Nul /\ p[1] = q[1] THEN strncmp(Tail(p), Tail(q), n - 1)
  ELSE n = 0 \/ p[1] = q[1]
namecmp(s, t) == strncmp(s, t, DIRSIZ)

(* The n bytes that strncpy leaves at s. *)
RECURSIVE strncpy(_, _)
strncpy(t, n) ==
  IF n = 0 THEN <<>>
  ELSE IF t[1] = Nul THEN [i \in 1 .. n |-> Nul]
  ELSE <<t[1]>> \o strncpy(Tail(t), n - 1)

(* What safestrcpy writes at s, from a t that ends in a NUL. *)
RECURSIVE safestrcpy(_, _)
safestrcpy(t, n) ==
  IF n <= 0 THEN <<>>
  ELSE IF n = 1 \/ t[1] = Nul THEN <<Nul>>
  ELSE <<t[1]>> \o safestrcpy(Tail(t), n - 1)

(* The contents of name after each round of namex. *)
RECURSIVE names(_, _)
names(path, name) ==
  LET e == skipelem(path, name)
  IN IF e.found THEN <<e.name>> \o names(e.path, e.name) ELSE <<>>

-----------------------------------------------------------------------------
(* System call arguments.  Addresses and ints are words; Signed is the    *)
(* reading of one as an int.                                               *)

Signed(w) == IF w >= WORD \div 2 THEN w - WORD ELSE w

(* Mutant: the start is not compared, and the sum wraps. *)
Beyond_wrap(addr, size, sz) == (addr + size) % WORD > sz

Beyond(addr, size, sz) == addr >= sz \/ (addr + size) % WORD > sz
fetchint(addr, sz) == ~Beyond(addr, INTSIZE, sz)
(* nuls: where there is a NUL.  -1, or the length. *)
fetchstr(addr, nuls, sz) ==
  IF addr >= sz \/ ~\E n \in nuls : addr <= n /\ n < sz THEN -1
  ELSE (CHOOSE n \in nuls : addr <= n /\ n < sz /\ \A m \in nuls : m < addr \/ n <= m) - addr
argint(n, esp, sz) == fetchint((esp + INTSIZE + INTSIZE * n) % WORD, sz)
argptr(i, size, sz) == ~(Signed(size) < 0 \/ Beyond(i, size, sz))

(* sys_exec's loop: vec[a] is the word at address a of the caller. *)
RECURSIVE fetchargv(_, _, _, _, _)
fetchargv(i, uargv, vec, nuls, sz) ==
  LET a == (uargv + INTSIZE * i) % WORD
  IN IF i >= MAXARGV \/ ~fetchint(a, sz) THEN [ok |-> FALSE, argv |-> <<>>]
     ELSE IF vec[a] = 0 THEN [ok |-> TRUE, argv |-> <<>>]
     ELSE IF fetchstr(vec[a], nuls, sz) < 0 THEN [ok |-> FALSE, argv |-> <<>>]
     ELSE LET r == fetchargv(i + 1, uargv, vec, nuls, sz)
          IN [r EXCEPT !.argv = <<vec[a]>> \o @]

-----------------------------------------------------------------------------
(* Numbers. *)

RECURSIVE digits(_, _)
digits(x, base) ==
  IF x \div base = 0 THEN <<x % base>> ELSE digits(x \div base, base) \o <<x % base>>
Magnitude(xx, sign) == IF sign THEN (-xx) % WORD ELSE xx % WORD
printint(xx, base, sign) ==
  LET neg == sign /\ xx < 0
  IN [neg |-> neg, digits |-> digits(Magnitude(xx, neg), base)]

RECURSIVE atoi(_)
atoi(s) ==
  IF s = <<>> THEN 0 ELSE (atoi(Take(s, Len(s) - 1)) * 10 + s[Len(s)]) % WORD

-----------------------------------------------------------------------------
(* Lines and patterns. *)

Newline == "n"

RECURSIVE gets(_, _)
gets(in, i) ==
  IF i + 1 >= MAXLINE \/ in = <<>> THEN <<>>
  ELSE IF in[1] = Newline THEN <<in[1]>>
  ELSE <<in[1]>> \o gets(Tail(in), i + 1)

(* wc: n = [l, w, c, inword], the counts and the state of its loop. *)
RECURSIVE wc(_, _)
wc(in, n) ==
  LET blank == in[1] = Newline
  IN IF in = <<>> THEN n
     ELSE wc(Tail(in), [l |-> n.l + (IF blank THEN 1 ELSE 0),
                        w |-> n.w + (IF ~blank /\ ~n.inword THEN 1 ELSE 0),
                        c |-> n.c + 1, inword |-> ~blank])

(* Mutant: .* stops before the last character. *)
StarRun_short(c, text) == IF c = "." THEN Len(text) - 1 ELSE Scan(text, {c})

(* The characters of text after which matchstar's loop still goes on. *)
StarRun(c, text) == IF c = "." THEN Len(text) ELSE Scan(text, {c})

RECURSIVE matchhere(_, _)
matchstar(c, re, text) == \E n \in 0 .. StarRun(c, text) : matchhere(re, Drop(text, n))

matchhere(re, text) ==
  IF re = <<>> THEN TRUE
  ELSE IF First(Tail(re)) = "*" THEN matchstar(re[1], Drop(re, 2), text)
  ELSE IF re = <<"$">> THEN text = <<>>
  ELSE text # <<>> /\ re[1] \in {".", text[1]} /\ matchhere(Tail(re), Tail(text))

match(re, text) ==
  IF First(re) = "^" THEN matchhere(Tail(re), text)
  ELSE \E n \in 0 .. Len(text) : matchhere(re, Drop(text, n))

(* grep's loop over the lines in its buffer: the lines written, and what   *)
(* is left after the last newline.                                         *)
RECURSIVE greplines(_, _)
greplines(re, buf) ==
  LET len == Scan(buf, Letters)
      line == Take(buf, len)
      r == greplines(re, Drop(buf, len + 1))
  IN IF len = Len(buf) THEN [out |-> <<>>, rest |-> buf]
     ELSE [r EXCEPT !.out = (IF match(re, line) THEN <<line>> ELSE <<>>) \o @]

(* grep, of what is left to read: a read returns no more than it asks for,  *)
(* than there is, and than the next of `reads`, which a file never limits   *)
(* and a pipe or the console does.  A buffer without a newline is dropped   *)
(* (m = 0), and a last line without one is never looked at.                 *)
RECURSIVE grep(_, _, _, _)
grep(re, in, buf, reads) ==
  LET room == GREPBUF - Len(buf) - 1
      n == Min({room, Len(in), reads[1]})
      full == buf \o Take(in, n)
      r == greplines(re, full)
  IN IF n = 0 THEN <<>>
     ELSE r.out \o grep(re, Drop(in, n), IF r.rest = full THEN <<>> ELSE r.rest,
                        Append(Tail(reads), reads[1]))

-----------------------------------------------------------------------------
(* What each of them is checked against. *)

(* The elements of a path are its longest runs without a slash. *)
RECURSIVE Elements(_, _)
Elements(s, cs) ==
  LET run == Scan(s, cs)
  IN IF s = <<>> THEN <<>>
     ELSE IF run = 0 THEN Elements(Tail(s), cs)
     ELSE <<Take(s, run)>> \o Elements(Drop(s, run), cs)
Short(name) == IF Len(name) > DIRSIZ THEN Take(name, DIRSIZ) ELSE name

(* namex meets the elements of the path in order, and finds in a directory *)
(* the entry that dirlink made for an element exactly when the two agree   *)
(* in their first DIRSIZ characters, whatever longer names the buffer held *)
(* before (skipelem, strncpy, namecmp); the copy that exec keeps of a name *)
(* always ends (safestrcpy).                                               *)
NamesResolve(path) ==
  LET junk == [i \in 1 .. DIRSIZ |-> "b"]
      ns == names(path, junk)
      es == Elements(path, Letters)
      copy == safestrcpy(Append(path, Nul), DIRSIZ)
  IN /\ Len(ns) = Len(es)
     /\ \A i, j \in DOMAIN es :
          namecmp(ns[i], strncpy(ns[j], DIRSIZ)) <=> Short(es[i]) = Short(es[j])
     /\ Len(copy) <= DIRSIZ /\ copy[Len(copy)] = Nul
     /\ Take(copy, Len(copy) - 1) = Take(path, Len(copy) - 1)
     /\ Len(copy) - 1 = Len(path) \/ Len(copy) = DIRSIZ

(* What fetchint, argint and argptr accept lies in the caller's memory,    *)
(* with no overflow of the address, and they accept all that does; an argv *)
(* that sys_exec accepts has room for its null pointer, and its strings    *)
(* end inside.                                                             *)
ArgsInside(addr, size) ==
  \A sz \in 0 .. MAXSZ :
    /\ fetchint(addr, sz) <=> addr < sz /\ addr + INTSIZE <= sz
    /\ \A n \in 0 .. 2 :
         LET a == (addr + INTSIZE * (n + 1)) % WORD
         IN argint(n, addr, sz) <=> a + INTSIZE <= sz
    /\ argptr(addr, size, sz) <=> size < WORD \div 2 /\ addr < sz /\ addr + size <= sz
    /\ \A nul \in 0 .. MAXSZ :
         LET vec == [a \in 0 .. WORD - 1 |-> IF a >= size THEN 0 ELSE a + 1]
             r == fetchargv(0, addr, vec, {nul}, sz)
         IN r.ok => /\ Len(r.argv) < MAXARGV
                    /\ addr + INTSIZE * (Len(r.argv) + 1) <= sz
                    /\ \A i \in DOMAIN r.argv : r.argv[i] <= nul /\ nul < sz

(* printint prints the int it is given, the most negative one included,    *)
(* and atoi reads back what %d printed.                                    *)
RECURSIVE ValueOf(_, _)
ValueOf(ds, base) ==
  IF ds = <<>> THEN 0 ELSE ValueOf(Take(ds, Len(ds) - 1), base) * base + ds[Len(ds)]
NumbersKept(w) ==
  LET d == printint(Signed(w), 10, TRUE)
      x == printint(Signed(w), 16, FALSE)
  IN /\ (IF d.neg THEN -ValueOf(d.digits, 10) ELSE ValueOf(d.digits, 10)) = Signed(w)
     /\ ~x.neg /\ ValueOf(x.digits, 16) = w
     /\ d.digits = <<0>> \/ d.digits[1] # 0
     /\ ~d.neg => atoi(d.digits) = w

(* The language of a pattern, one item at a time. *)
RECURSIVE InLanguage(_, _, _)
InLanguage(re, t, i) ==
  LET is(c, x) == c = "." \/ c = x
      star == i < Len(re) /\ re[i + 1] = "*"
  IN IF i > Len(re) \/ (i = Len(re) /\ re[i] = "$") THEN t = <<>>
     ELSE \E n \in 0 .. Len(t) :
            /\ star \/ n = 1
            /\ \A k \in 1 .. n : is(re[i], t[k])
            /\ InLanguage(re, Drop(t, n), IF star THEN i + 2 ELSE i + 1)
(* A trailing $ is an anchor, unless a star makes it a character. *)
RECURSIVE Anchored(_)
Anchored(re) == IF re = <<>> THEN FALSE ELSE IF First(Tail(re)) = "*" THEN Anchored(Drop(re, 2))
                ELSE re = <<"$">> \/ Anchored(Tail(re))
Found(re, text) ==
  LET from == IF First(re) = "^" THEN 2 ELSE 1
  IN \E i \in 0 .. (IF from = 2 THEN 0 ELSE Len(text)), j \in 0 .. Len(text) :
       /\ i <= j /\ (Anchored(Drop(re, from - 1)) => j = Len(text))
       /\ InLanguage(re, SubSeq(text, i + 1, j), from)

(* match finds a pattern in a line exactly when some part of the line is   *)
(* in the pattern's language.                                              *)
PatternsFound(re, texts) == \A t \in texts : match(re, t) <=> Found(re, t)

(* The lines of a text, each with its newline but perhaps the last. *)
RECURSIVE LinesOf(_)
LinesOf(t) ==
  LET len == Scan(t, Letters)
  IN IF t = <<>> THEN <<>>
     ELSE IF len = Len(t) THEN <<t>> ELSE <<Take(t, len + 1)>> \o LinesOf(Drop(t, len + 1))

(* Reading on with gets gives back the input, line by line, in pieces that *)
(* fit; wc counts what there is.  grep, whatever its reads return, writes   *)
(* in order only ends of lines that match; and it writes the lines that     *)
(* match, whole and all of them, when no line is longer than its buffer or  *)
(* than a read: of a file that ends in a newline nothing is missed, of a    *)
(* pipe the front of a line that comes in parts is.                         *)
RECURSIVE AllGets(_)
AllGets(t) == LET g == gets(t, 0) IN IF g = <<>> THEN <<>> ELSE <<g>> \o AllGets(Drop(t, Len(g)))
RECURSIVE Joined(_)
Joined(ss) == IF ss = <<>> THEN <<>> ELSE ss[1] \o Joined(Tail(ss))
(* What reads return at most: all of the buffer, or less, in turn. *)
Reads == {<<GREPBUF>>, <<1>>, <<3>>, <<GREPBUF, 2>>, <<1, 3>>}
EndOf(s, t) == Len(s) <= Len(t) /\ s = Drop(t, Len(t) - Len(s))
Fits(s, reads) == \A i \in DOMAIN reads : Len(s) <= reads[i]
LinesRead(t, re) ==
  LET gs == AllGets(t)
      ls == LinesOf(t)
      n == wc(t, [l |-> 0, w |-> 0, c |-> 0, inword |-> FALSE])
      Ends(l) == l[Len(l)] = Newline
      Wanted(l) == Ends(l) /\ Found(re, Take(l, Len(l) - 1))
      wanted == SelectSeq(ls, Wanted)
  IN /\ Joined(gs) = t
     /\ \A i \in DOMAIN gs : Len(gs[i]) < MAXLINE /\ Len(LinesOf(gs[i])) = 1
     /\ \A i \in 1 .. Len(gs) - 1 : Ends(gs[i]) \/ Len(gs[i]) = MAXLINE - 1
     /\ n.l = Len(SelectSeq(ls, Ends)) /\ n.w = Len(Elements(t, Letters)) /\ n.c = Len(t)
     /\ \A reads \in Reads :
          LET out == grep(re, t, <<>>, reads)
          IN /\ \E from \in [DOMAIN out -> DOMAIN ls] :
                  \A i \in DOMAIN out :
                    /\ Found(re, out[i]) /\ Ends(ls[from[i]])
                    /\ EndOf(Append(out[i], Newline), ls[from[i]])
                    /\ \A j \in 1 .. i - 1 : from[j] < from[i]
             /\ (\A i \in DOMAIN ls : Len(ls[i]) < GREPBUF /\ Fits(ls[i], reads)) =>
                  out = [i \in DOMAIN wanted |-> Take(wanted[i], Len(wanted[i]) - 1)]
====
