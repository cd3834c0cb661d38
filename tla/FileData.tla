------------------------------ MODULE FileData ------------------------------
(***************************************************************************)
(* The content of files: blocks, the bitmap, readi and writei (fs.c), the  *)
(* chunks of filewrite and the offset of an open file (file.c), on the     *)
(* image that mkfs builds (mkfs.c).  A call runs under the inode's lock    *)
(* and the buffers' locks, so that calls on one file are steps, and what   *)
(* they share, the bitmap, is changed under the lock of its block.         *)
(*                                                                         *)
(* A dirent is one byte; an inode is kept by the file's name.  BPB is as   *)
(* small as possible, so that every block has a bitmap block of its own    *)
(* and a transaction logs as many blocks as it ever can.                   *)
(***************************************************************************)
EXTENDS Integers, Sequences, FiniteSets, FiniteSetsExt

CONSTANTS
  BSIZE,        \* bytes in a block
  NDIRECT,      \* fs.h
  NINDIRECT,
  NMETA,        \* blocks before the data blocks
  FSSIZE,       \* blocks of the disk
  MAXOPBLOCKS,  \* param.h
  MkSizes,      \* sizes of the file that mkfs is given
  NewByte,      \* the byte that each file's writer writes
  Counts        \* bytes in a write

FileNames == {"root", "f", "g"}
MAXFILE == NDIRECT + NINDIRECT

ASSUME FileDataAssumption ==
  /\ {BSIZE, NDIRECT, NINDIRECT, NMETA, FSSIZE, MAXOPBLOCKS} \subseteq Nat
  /\ BSIZE > 0 /\ NMETA > 0 /\ NINDIRECT <= BSIZE
  /\ MAXOPBLOCKS >= 6

(* mkfs rounds the size of the root directory up past a block that is full; *)
(* readi would allocate that block.  ".", ".." and one name leave room.     *)
ASSUME RootNotFull == 3 % BSIZE # 0

VARIABLES
  fs,           \* the disk: bitmap, blocks, inodes
  off,          \* f->off of an open file of each inode
  want,         \* history: what was written, as one sequence
  fpanic
filevars == <<fs, off, want, fpanic>>

Junk == [i \in 0..(BSIZE - 1) |-> -1]
Zero == [i \in 0..(BSIZE - 1) |-> 0]
NoInode == [size |-> 0, addrs |-> [i \in 0..NDIRECT |-> 0]]

(* A block with data copied into it from byte `at`. *)
Patched(block, at, data) ==
  [i \in DOMAIN block |->
     IF i < at \/ i >= at + Len(data) THEN block[i] ELSE data[i - at + 1]]

-----------------------------------------------------------------------------
(* mkfs.c.  The state is the blocks, the inodes and freeblock. *)

(* The block of file f that holds offset o, taken from freeblock if new. *)
mkblock(m, f, o) ==
  LET fbn == o \div BSIZE
      d == m.ino[f].addrs
      ind == IF d[NDIRECT] # 0 THEN d[NDIRECT] ELSE m.freeblock
      m1 == IF d[NDIRECT] # 0 THEN m
            ELSE [m EXCEPT !.ino[f].addrs[NDIRECT] = ind, !.freeblock = @ + 1]
  IN IF fbn < NDIRECT
       THEN IF d[fbn] # 0 THEN [m EXCEPT !.x = d[fbn]]
            ELSE [m EXCEPT !.ino[f].addrs[fbn] = m.freeblock, !.x = m.freeblock,
                           !.freeblock = @ + 1]
       ELSE IF m1.blk[ind][fbn - NDIRECT] # 0
         THEN [m1 EXCEPT !.x = m1.blk[ind][fbn - NDIRECT]]
         ELSE [m1 EXCEPT !.blk[ind][fbn - NDIRECT] = m1.freeblock, !.x = m1.freeblock,
                         !.freeblock = @ + 1]

RECURSIVE iappend(_, _, _)
iappend(m, f, data) ==
  IF data = <<>> THEN m
  ELSE LET o == m.ino[f].size
           n1 == Min({Len(data), (o \div BSIZE + 1) * BSIZE - o})
           w == mkblock(m, f, o)
       IN iappend([w EXCEPT !.blk[w.x] = Patched(@, o % BSIZE, SubSeq(data, 1, n1)),
                            !.ino[f].size = o + n1],
                  f, SubSeq(data, n1 + 1, Len(data)))

(* mkfs's balloc: the bitmap of the blocks used. *)
mkballoc(used) == 0..(used - 1)

(* main: the root with its entries, the file f, the root's size, the bitmap. *)
mkfs(data) ==
  LET m0 == [blk |-> [b \in 0..(FSSIZE - 1) |-> Zero], x |-> 0, freeblock |-> NMETA,
             ino |-> [f \in FileNames |-> NoInode]]
      m == iappend(iappend(m0, "root", <<1, 1, 1>>), "f", data)
      size == (m.ino["root"].size \div BSIZE + 1) * BSIZE
  IN [bitmap |-> mkballoc(m.freeblock), blk |-> m.blk,
      ino |-> [m.ino EXCEPT !["root"].size = size]]

-----------------------------------------------------------------------------
(* fs.c.  A transaction's state adds the blocks it logs, the block that     *)
(* balloc or bmap returned and a panic.                                     *)

Begin(d) == [bitmap |-> d.bitmap, blk |-> d.blk, ino |-> d.ino, log |-> {},
             b |-> 0, ret |-> 0, panic |-> ""]
log_write(s, b) == [s EXCEPT !.log = @ \cup {b}]

balloc(s) ==
  LET avail == (0..(FSSIZE - 1)) \ s.bitmap
      b == Min(avail)
  IN IF avail = {} THEN [s EXCEPT !.panic = "balloc: out of blocks"]
     ELSE log_write(log_write([s EXCEPT !.bitmap = @ \cup {b}, !.blk[b] = Zero, !.b = b],
                              <<"bitmap", b>>), <<"block", b>>)

(* What a free block held is of no use to anyone: Junk stands for it. *)
bfree(s, b) ==
  IF b \notin s.bitmap THEN [s EXCEPT !.panic = "freeing free block"]
  ELSE log_write([s EXCEPT !.bitmap = @ \ {b}, !.blk[b] = Junk], <<"bitmap", b>>)

Entered(s, ind, j) == log_write([s EXCEPT !.blk[ind][j] = s.b], <<"block", ind>>)

(* The block at addrs[i], or in entry j of the indirect block s.b; a new    *)
(* one where there is none.                                                 *)
Addr(s, f, i) ==
  LET a == balloc(s)
  IN IF s.ino[f].addrs[i] # 0 THEN [s EXCEPT !.b = s.ino[f].addrs[i]]
     ELSE [a EXCEPT !.ino[f].addrs[i] = a.b]
NewEntry(s, ind, j) == IF s.panic # "" THEN s ELSE Entered(s, ind, j)
Entry(s, j) ==
  IF s.panic # "" THEN s
  ELSE IF s.blk[s.b][j] # 0 THEN [s EXCEPT !.b = s.blk[s.b][j]]
  ELSE NewEntry(balloc(s), s.b, j)

bmap(s, f, bn) ==
  IF bn < NDIRECT THEN Addr(s, f, bn)
  ELSE IF bn - NDIRECT < NINDIRECT THEN Entry(Addr(s, f, NDIRECT), bn - NDIRECT)
  ELSE [s EXCEPT !.panic = "bmap: out of range"]

(* The blocks of a file: direct ones, and those the indirect block lists. *)
Direct(s, f) == {s.ino[f].addrs[i] : i \in 0..(NDIRECT - 1)} \ {0}
Listed(s, f) ==
  LET ind == s.ino[f].addrs[NDIRECT]
  IN IF ind = 0 THEN {} ELSE {s.blk[ind][j] : j \in 0..(NINDIRECT - 1)} \ {0}

RECURSIVE bfreeAll(_, _)
bfreeAll(s, bs) ==
  IF bs = {} THEN s ELSE LET b == Min(bs) IN bfreeAll(bfree(s, b), bs \ {b})
itrunc(s, f) ==
  [bfreeAll(bfreeAll(s, Direct(s, f)), Listed(s, f) \cup ({s.ino[f].addrs[NDIRECT]} \ {0}))
     EXCEPT !.ino[f] = NoInode]

(* The bytes of readi's answer, or Error. *)
(* m is what is left of the block, or of the request.                       *)
Error == <<-1>>
RECURSIVE readLoop(_, _, _, _)
readLoop(s, f, o, n) ==
  IF n = 0 THEN <<>>
  ELSE LET t == bmap(s, f, o \div BSIZE)
           m == Min({n, BSIZE - (o % BSIZE)})
       IN [i \in 1..m |-> t.blk[t.b][(o % BSIZE) + i - 1]] \o readLoop(t, f, o + m, n - m)
readi(s, f, o, n) ==
  LET size == s.ino[f].size
  IN IF o > size THEN Error ELSE readLoop(s, f, o, Min({n, size - o}))

Put(s, o, data) ==
  IF s.panic # "" THEN s
  ELSE log_write([s EXCEPT !.blk[s.b] = Patched(@, o % BSIZE, data)], <<"block", s.b>>)
RECURSIVE writeLoop(_, _, _, _)
writeLoop(s, f, o, data) ==
  LET m == Min({Len(data), BSIZE - (o % BSIZE)})
  IN IF data = <<>> \/ s.panic # "" THEN s
     ELSE writeLoop(Put(bmap(s, f, o \div BSIZE), o, SubSeq(data, 1, m)),
                    f, o + m, SubSeq(data, m + 1, Len(data)))

(* Mutant: a write over the end leaves the size. *)
Extended_not(s, f, end) == s

(* iupdate, when the file has grown. *)
Extended(s, f, end) ==
  IF end > s.ino[f].size THEN log_write([s EXCEPT !.ino[f].size = end], <<"inode", f>>)
  ELSE s

writei(s, f, o, data) ==
  IF o > s.ino[f].size \/ o + Len(data) > MAXFILE * BSIZE THEN [s EXCEPT !.ret = -1]
  ELSE [Extended(writeLoop(s, f, o, data), f, o + Len(data)) EXCEPT !.ret = Len(data)]

-----------------------------------------------------------------------------
(* file.c. *)

(* Mutant: one more block in each transaction. *)
max_more == ((MAXOPBLOCKS - 2) \div 2) * BSIZE

max == ((MAXOPBLOCKS - 1 - 1 - 2) \div 2) * BSIZE

(* filewrite's loop: r.o is f->off, r.worst the largest transaction; s is   *)
(* the transaction that wrote n1 bytes.                                     *)
Progress(r, s, n1) ==
  [d |-> [bitmap |-> s.bitmap, blk |-> s.blk, ino |-> s.ino], o |-> r.o + n1, panic |-> "",
   worst |-> IF Cardinality(s.log) > r.worst THEN Cardinality(s.log) ELSE r.worst]
RECURSIVE filewrite(_, _, _)
GoOn(r, s, f, data, n1) ==
  IF s.panic # "" THEN [r EXCEPT !.panic = s.panic]
  ELSE IF s.ret < 0 THEN r
  ELSE filewrite(Progress(r, s, n1), f, SubSeq(data, n1 + 1, Len(data)))
filewrite(r, f, data) ==
  LET n1 == Min({Len(data), max})
  IN IF data = <<>> THEN r
     ELSE GoOn(r, writei(Begin(r.d), f, r.o, SubSeq(data, 1, n1)), f, data, n1)

FileInit ==
  \E n \in MkSizes :
    /\ fs = mkfs([i \in 1..n |-> NewByte["root"]])
    /\ off = [f \in FileNames |-> 0]
    /\ want = [f \in FileNames |->
                 CASE f = "root" -> [i \in 1..fs.ino["root"].size |-> IF i <= 3 THEN 1 ELSE 0]
                   [] f = "f" -> [i \in 1..n |-> NewByte["root"]]
                   [] f = "g" -> <<>>]
    /\ fpanic = ""

(* What n bytes at o make of content c, as far as whole chunks of at most   *)
(* `max` fit into the largest file.                                         *)
Overwritten(c, o, n, byte) ==
  LET room == MAXFILE * BSIZE - o
      k == IF n <= room THEN n ELSE (room \div max) * max
      end == IF o + k > Len(c) THEN o + k ELSE Len(c)
  IN [i \in 1..end |-> IF i > o /\ i <= o + k THEN byte ELSE c[i]]

Filewrite(f, n) ==
  filewrite([d |-> fs, o |-> off[f], panic |-> "", worst |-> 0], f,
            [i \in 1..n |-> NewByte[f]])
Written(f, n, r) ==
  /\ fs' = r.d
  /\ off' = [off EXCEPT ![f] = r.o]
  /\ want' = [want EXCEPT ![f] =
               Overwritten(@, off[f], IF r.panic = "" THEN n ELSE r.o - off[f], NewByte[f])]
  /\ fpanic' = r.panic
write(f) ==
  /\ fpanic = "" /\ f # "root"
  /\ \E n \in Counts : Written(f, n, Filewrite(f, n))

read(f) ==
  \E n \in Counts :
    LET r == readi(Begin(fs), f, off[f], n)
    IN /\ fpanic = "" /\ f # "root"
       /\ r # Error
       /\ off' = [off EXCEPT ![f] = @ + Len(r)]
       /\ UNCHANGED <<fs, want, fpanic>>

(* An open of the same file starts at its beginning. *)
reopen(f) ==
  /\ fpanic = "" /\ f # "root"
  /\ off' = [off EXCEPT ![f] = 0]
  /\ UNCHANGED <<fs, want, fpanic>>

(* The last reference to a file without a name is gone (iput). *)
iput_free(f) ==
  LET s == itrunc(Begin(fs), f)
  IN /\ fpanic = "" /\ f # "root"
     /\ fs' = [bitmap |-> s.bitmap, blk |-> s.blk, ino |-> s.ino]
     /\ off' = [off EXCEPT ![f] = 0]
     /\ want' = [want EXCEPT ![f] = <<>>]
     /\ fpanic' = s.panic

FileNext == \E f \in FileNames : write(f) \/ read(f) \/ reopen(f) \/ iput_free(f)

-----------------------------------------------------------------------------
(* Properties. *)

(* readi answers, at every offset and for every length, with the bytes that *)
(* mkfs and the writes before it put there, through direct and indirect     *)
(* blocks alike.                                                            *)
ReadBack ==
  \A f \in FileNames, o \in 0..(MAXFILE * BSIZE), n \in 1..(BSIZE + 1) :
    readi(Begin(fs), f, o, n) =
      IF o > Len(want[f]) THEN Error
      ELSE SubSeq(want[f], o + 1, Min({o + n, Len(want[f])}))

(* A block is marked in the bitmap exactly when it is before the data, or   *)
(* some file's, once: the bitmap that mkfs wrote and balloc, bfree, bmap    *)
(* and itrunc change loses no block and gives none away twice.              *)
Holders(b) ==
  Cardinality({p \in FileNames \X (0..NDIRECT) : fs.ino[p[1]].addrs[p[2]] = b})
  + Cardinality({p \in FileNames \X (0..(NINDIRECT - 1)) :
                   /\ fs.ino[p[1]].addrs[NDIRECT] # 0
                   /\ fs.blk[fs.ino[p[1]].addrs[NDIRECT]][p[2]] = b})
BlocksOwned ==
  \A b \in 0..(FSSIZE - 1) :
    (IF b < NMETA THEN 1 ELSE Holders(b)) = (IF b \in fs.bitmap THEN 1 ELSE 0)

(* What filewrite writes in one transaction fits into what begin_op set     *)
(* aside for it, wherever the write starts and whatever it has to allocate. *)
FitsReservation ==
  \A f \in FileNames \ {"root"}, n \in Counts : Filewrite(f, n).worst <= MAXOPBLOCKS
====
