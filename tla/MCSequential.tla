---------------------------- MODULE MCSequential ----------------------------
(***************************************************************************)
(* The sequential parts for TLC, one at a time: `part' is chosen in the    *)
(* initial state, and only that part's variables move.  Memory, FileData   *)
(* and Malloc are state machines; the parser and the routines are given    *)
(* every argument up to a length, which grows one character at a time.     *)
(***************************************************************************)
EXTENDS Memory, FileData, Malloc, Shell, Routines

CONSTANTS P0, P1

VARIABLES part, arg
seqvars == <<vars, filevars, heapvars, part, arg>>

-----------------------------------------------------------------------------
(* Memory: pages of 6 words, 6 pages of user memory in 3 page tables, and   *)
(* too few pages for two processes of the larger size.                      *)

Seg(vaddr, memsz, filesz) ==
  [vaddr |-> vaddr, memsz |-> memsz, filesz |-> filesz, read |-> TRUE]
Unread(seg) == [seg EXCEPT !.read = FALSE]

MCPrograms == {
  <<Seg(0, 4, 4)>>,                   \* part of a page
  <<Seg(0, 6, 6), Seg(6, 8, 2)>>,     \* text, and data with a bss
  <<Seg(12, 1, 1), Seg(0, 6, 6)>>,    \* out of order
  <<Seg(0, 6, 6), Seg(9, 4, 4)>>,     \* not aligned
  <<Seg(0, 6, 6), Unread(Seg(6, 6, 6))>>,
  <<Seg(0, 2, 4)>>, <<Seg(6, 70, 1)>>, \* sizes that do not add up, or wrap
  <<Seg(0, 36, 1)>>, <<Seg(0, 24, 6)>>, \* no room, or none for the stack
  <<>>}

(* Vectors that fill the stack, overrun it by a word, reach below the guard *)
(* page, go round the end of the address space to the devices and to what  *)
(* lies below them, and are too many.                                       *)
MCArgs == {<<>>, <<1>>, <<2>>, <<7>>, <<14>>, <<26>>, <<34>>, <<1, 1>>, <<1, 1, 1>>}
MCExecs ==
  {[prog |-> g, args |-> <<1>>] : g \in MCPrograms}
  \cup {[prog |-> <<Seg(0, 4, 4)>>, args |-> a] : a \in MCArgs}
MCGrows == {-100, -12, -6, -5, -1, 0, 1, 6, 7, 13, 40}

(* FileData: files of one direct and two indirect blocks on a disk that     *)
(* fills up.                                                                *)
MCNewByte == [root |-> 1, f |-> 2, g |-> 3]

-----------------------------------------------------------------------------
(* The arguments of the parser and the routines. *)

Parts == {"memory", "files", "heap", "line", "path", "pattern", "text", "words"}
Alphabet ==
  [line |-> {"a", " "} \cup symbols,
   path |-> {"a", "b", "/"},
   pattern |-> {"a", "b", ".", "*", "^", "$"},
   text |-> {"a", "b", Newline},
   words |-> 0 .. WORD - 1]
Longest == [line |-> 5, path |-> 7, pattern |-> 5, text |-> 7, words |-> 2]
Texts == UNION {[1 .. n -> Letters] : n \in 0 .. 3}

Argument ==
  /\ part \in DOMAIN Alphabet
  /\ Len(arg) < Longest[part]
  /\ \E c \in Alphabet[part] : arg' = Append(arg, c)
  /\ UNCHANGED <<vars, filevars, heapvars, part>>

SeqInit ==
  /\ Init /\ FileInit /\ HeapInit
  /\ part \in Parts /\ arg = <<>>
  /\ part # "files" => want["f"] = <<>>

SeqNext ==
  \/ part = "memory" /\ Next /\ UNCHANGED <<filevars, heapvars, part, arg>>
  \/ part = "files" /\ FileNext /\ UNCHANGED <<vars, heapvars, part, arg>>
  \/ part = "heap" /\ HeapNext /\ UNCHANGED <<vars, filevars, part, arg>>
  \/ Argument

SeqSpec == SeqInit /\ [][SeqNext]_seqvars

-----------------------------------------------------------------------------
(* The properties of the part that runs. *)

(* fs.c, file.c and mkfs.c: files read back as they were written, and every *)
(* block has one owner (ReadBack, BlocksOwned).                             *)
FilesKept == part = "files" => ReadBack /\ BlocksOwned

(* file.c: a transaction of filewrite fits its reservation                  *)
(* (FitsReservation).                                                       *)
WritesFit == part = "files" => FitsReservation

(* umalloc.c: the blocks tile the heap and the free list is in order        *)
(* (HeapTiled, ListInOrder).                                                *)
HeapSound == part = "heap" => HeapTiled /\ ListInOrder

(* sh.c: every line is parsed as the grammar says, its words kept whole by  *)
(* nulterminate (GrammarOf, WordsKept).                                     *)
LinesParsed == part = "line" => Parsed(arg, parsecmd(arg))

(* sh.c: runcmd gives every process the descriptors meant for it, and keeps *)
(* no end of a pipe open elsewhere (Plumbed).                               *)
PipesPlumbed == part = "line" => Plumbed(arg, parsecmd(arg))

(* fs.c and string.c: the name buffer of namex, the entries of dirlink and  *)
(* namecmp agree on every path (NamesResolve).                              *)
PathsResolve == part = "path" => NamesResolve(arg)

(* syscall.c and sys_exec accept exactly the arguments inside the caller's  *)
(* memory, and ints survive printing (ArgsInside, NumbersKept).             *)
ArgumentsChecked ==
  part = "words" =>
    /\ \A i \in DOMAIN arg : NumbersKept(arg[i])
    /\ Len(arg) = 2 => ArgsInside(arg[1], arg[2])

(* grep.c, wc.c and gets: a pattern is found where its language says, and   *)
(* lines are read and matched whole as far as buffer and reads allow        *)
(* (PatternsFound, LinesRead).                                              *)
GrepFinds ==
  /\ part = "pattern" => PatternsFound(arg, Texts)
  /\ part = "text" => \A re \in {<<"a">>, <<"^", "b">>} : LinesRead(arg, re)
=============================================================================
