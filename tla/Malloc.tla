------------------------------- MODULE Malloc -------------------------------
(***************************************************************************)
(* The user-space allocator (umalloc.c): a circular free list in address   *)
(* order, headers in front of the blocks, memory from sbrk.  Addresses and *)
(* sizes count headers; `base`, in the data segment, is at address 0, and  *)
(* the heap starts above it.  The program frees what malloc returned,      *)
(* once, and may call sbrk itself between two calls of malloc.             *)
(***************************************************************************)
EXTENDS Integers, FiniteSets

CONSTANTS
  NALLOC,     \* the least that morecore asks for (4096)
  HEAPMAX,    \* where sbrk starts to fail
  Requests    \* header units that malloc is asked for

ASSUME MallocAssumption ==
  /\ {NALLOC, HEAPMAX} \subseteq Nat /\ NALLOC > 0
  /\ Requests \subseteq Nat \ {0, 1}

VARIABLES
  hdr,        \* the headers in the heap: address -> [ptr, size]
  freep,      \* the start of the list, or Null
  brk,        \* the end of the heap
  used,       \* history: blocks that the program holds
  owned       \* history: units that morecore got
heapvars == <<hdr, freep, brk, used, owned>>

Base == 0
HeapStart == 2
Null == -1

(* What is not a header of a block, or is one in use, has no ptr. *)
NoHdr == [ptr |-> Null, size |-> 0]

(* free's search for p with bp between p and its successor, or at an end of *)
(* the list.                                                                *)
Between(h, p, bp) ==
  \/ bp > p /\ bp < h[p].ptr
  \/ p >= h[p].ptr /\ (bp > p \/ bp < h[p].ptr)
RECURSIVE findp(_, _, _)
findp(h, p, bp) == IF Between(h, p, bp) THEN p ELSE findp(h, h[p].ptr, bp)

Up(h, p, bp) ==
  LET next == h[p].ptr
  IN IF bp + h[bp].size = next
       THEN [h EXCEPT ![bp] = [ptr |-> h[next].ptr, size |-> @.size + h[next].size],
                      ![next] = NoHdr]
       ELSE [h EXCEPT ![bp].ptr = next]
Down(h, p, bp) ==
  IF p + h[p].size = bp
    THEN [h EXCEPT ![p] = [ptr |-> h[bp].ptr, size |-> @.size + h[bp].size], ![bp] = NoHdr]
    ELSE [h EXCEPT ![p].ptr = bp]

(* free, of the block whose header is at bp: the list and freep after it. *)
Freed(s, bp) ==
  LET p == findp(s.hdr, s.freep, bp)
  IN [s EXCEPT !.hdr = Down(Up(s.hdr, p, bp), p, bp), !.freep = p]

(* Mutant: the tail is given out with a header too few. *)
Split_short(h, p, n) ==
  [h EXCEPT ![p].size = @ - n + 1, ![p + h[p].size - n] = [ptr |-> Null, size |-> n]]

(* The tail of a larger block. *)
Split(h, p, n) ==
  [h EXCEPT ![p].size = @ - n, ![p + h[p].size - n] = [ptr |-> Null, size |-> n]]

(* morecore; s.more says whether sbrk gave anything. *)
morecore(s, n) ==
  LET nu == IF n < NALLOC THEN NALLOC ELSE n
  IN IF s.brk + nu > HEAPMAX THEN [s EXCEPT !.more = FALSE]
     ELSE Freed([s EXCEPT !.hdr = [@ EXCEPT ![s.brk] = [ptr |-> Null, size |-> nu]],
                          !.brk = @ + nu, !.owned = @ \cup (s.brk..(s.brk + nu - 1))],
                s.brk)

(* malloc's loop from p: a block, or morecore after a whole turn.  s.at is  *)
(* the header of the block returned, Null when there is none.               *)
RECURSIVE loop(_, _, _, _)
loop(s, prevp, p, n) ==
  LET h == s.hdr
      m == morecore(s, n)
  IN IF h[p].size = n
       THEN [s EXCEPT !.hdr = [h EXCEPT ![prevp].ptr = h[p].ptr, ![p].ptr = Null],
                      !.freep = prevp, !.at = p]
     ELSE IF h[p].size > n
       THEN [s EXCEPT !.hdr = Split(h, p, n), !.freep = prevp, !.at = p + h[p].size - n]
     ELSE IF p = s.freep
       THEN IF m.more THEN loop(m, m.freep, m.hdr[m.freep].ptr, n) ELSE m
     ELSE loop(s, p, h[p].ptr, n)

HeapInit ==
  /\ hdr = [a \in 0..HEAPMAX |-> NoHdr]
  /\ freep = Null
  /\ brk = HeapStart
  /\ used = {}
  /\ owned = {}

malloc ==
  \E n \in Requests :
    LET first == freep = Null
        s == [hdr |-> IF first THEN [hdr EXCEPT ![Base].ptr = Base] ELSE hdr,
              freep |-> IF first THEN Base ELSE freep,
              brk |-> brk, owned |-> owned, at |-> Null, more |-> TRUE]
        r == loop(s, s.freep, s.hdr[s.freep].ptr, n)
    IN /\ hdr' = r.hdr
       /\ freep' = r.freep
       /\ brk' = r.brk
       /\ owned' = r.owned
       /\ used' = used \cup ({r.at} \ {Null})

free_(b) ==
  LET r == Freed([hdr |-> hdr, freep |-> freep], b)
  IN /\ hdr' = r.hdr
     /\ freep' = r.freep
     /\ used' = used \ {b}
     /\ UNCHANGED <<brk, owned>>

(* The program's own sbrk: the next morecore is not adjacent. *)
sbrk_ ==
  /\ brk < HEAPMAX
  /\ brk' = brk + 1
  /\ UNCHANGED <<hdr, freep, used, owned>>

HeapNext == malloc \/ sbrk_ \/ \E b \in used : free_(b)

-----------------------------------------------------------------------------
(* Properties. *)

FreeBlocks == {a \in DOMAIN hdr : hdr[a].ptr # Null /\ a # Base}
Units(a) == a..(a + hdr[a].size - 1)

(* Every unit that sbrk gave to morecore is in one block, free or the       *)
(* program's: malloc gives nothing out twice and free loses nothing.        *)
HeapTiled ==
  /\ UNION {Units(a) : a \in FreeBlocks \cup used} = owned
  /\ \A a, b \in FreeBlocks \cup used : a # b => Units(a) \cap Units(b) = {}

(* The free list goes once through the free blocks in the order of their    *)
(* addresses, which is what free's search needs to end, and no two of them  *)
(* touch.                                                                   *)
ListInOrder ==
  freep # Null =>
    /\ freep \in FreeBlocks \cup {Base}
    /\ \A a \in FreeBlocks \cup {Base} :
         LET above == {b \in FreeBlocks : b > a}
         IN IF above = {} THEN hdr[a].ptr = Base
            ELSE /\ hdr[a].ptr \in above
                 /\ \A b \in above : hdr[a].ptr <= b
                 /\ a # Base => a + hdr[a].size # hdr[a].ptr
====
