------------------------------- MODULE Memory -------------------------------
(***************************************************************************)
(* Physical pages (kalloc.c), page tables (vm.c) and the calls that change *)
(* a process's memory: fork, exec, sbrk, exit and wait.                    *)
(*                                                                         *)
(* Addresses count words: a page is PGSIZE of them, an address is taken    *)
(* modulo ADDRS as a uint is modulo 2^32, and a string takes the words     *)
(* that `& ~3` rounds it up to.  Any free page may be the head of the free *)
(* list; the least one stands for it.  A call changes one process's page   *)
(* table and shares nothing with other calls but the free list, so that it *)
(* is one step, in which kalloc succeeds `left` times: the pages that are  *)
(* then still free are in the hands of others (pipes, other calls).        *)
(***************************************************************************)
EXTENDS Integers, Sequences, FiniteSets, FiniteSetsExt

CONSTANTS
  Procs, InitProc,
  PGSIZE,     \* words in a page
  NPT,        \* pages that a page table maps
  KERNBASE,   \* the first address that is not the user's
  KERNTOP,    \* P2V(PHYSTOP): where kmap's memory ends,
  DEVSPACE,   \* and where its devices begin, up to the last address
  ADDRS,      \* addresses: 0..ADDRS-1
  END,        \* the end of the kernel in physical memory
  MID,        \* where kinit1 stops and kinit2 goes on
  PHYSTOP,    \* the end of physical memory
  MAXARG,     \* param.h
  Execs,      \* what exec is called with: the program's segments
              \* [vaddr, memsz, filesz, read] and the lengths of the arguments
  Grows       \* arguments of sbrk

ASSUME MemoryAssumption ==
  /\ {PGSIZE, NPT, KERNBASE, KERNTOP, DEVSPACE, ADDRS, END, MID, PHYSTOP, MAXARG} \subseteq Nat
  /\ PGSIZE > 0 /\ NPT > 0
  /\ \A a \in {KERNBASE, KERNTOP, DEVSPACE, ADDRS} : a % (PGSIZE * NPT) = 0
  /\ KERNBASE < KERNTOP /\ KERNTOP <= DEVSPACE /\ DEVSPACE < ADDRS
  /\ InitProc \in Procs

VARIABLES
  free,       \* kmem.freelist: how often each page is on it
  pgdir,      \* p->pgdir
  sz,         \* p->sz
  kstack,     \* p->kstack
  state,      \* p->state: unused, live or zombie
  panicked

vars == <<free, pgdir, sz, kstack, state, panicked>>

PGROUNDDOWN(a) == (a \div PGSIZE) * PGSIZE

PGROUNDUP(a) == PGROUNDDOWN(a + PGSIZE - 1)

-----------------------------------------------------------------------------
(* kalloc.c.  Page n is the words from n * PGSIZE. *)

freerange(vstart, vend) ==
  {n \in 0..PHYSTOP : PGROUNDUP(vstart) <= n * PGSIZE /\ (n + 1) * PGSIZE <= vend}
Pages == freerange(END, MID) \cup freerange(MID, PHYSTOP)

(* The state s of a call: the free list, the kallocs left, the page table  *)
(* it works on, whether the last operation succeeded, and a panic.         *)
Panic(s, what) == [s EXCEPT !.ok = FALSE, !.panic = what]

kalloc(s) ==
  LET avail == {n \in Pages : s.free[n] > 0}
  IN IF avail = {} \/ s.left = 0 THEN 0 ELSE Min(avail)
Taken(s, n) == [s EXCEPT !.free[n] = @ - 1, !.left = @ - 1]
kfree(s, n) ==
  IF n \in Pages THEN [s EXCEPT !.free[n] = @ + 1] ELSE Panic(s, "kfree")

-----------------------------------------------------------------------------
(* vm.c.  A page table d: its own page, the pages of its second level, and *)
(* the page of memory at each user address with its PTE_U.                 *)

UPages == 0..(KERNBASE \div PGSIZE - 1)
PDX(v) == v \div NPT
Tables == 0..(ADDRS \div (PGSIZE * NPT) - 1)
(* kmap: the kernel has no page tables from KERNTOP to DEVSPACE. *)
KTables ==
  {t \in Tables : LET a == t * NPT * PGSIZE
                  IN KERNBASE <= a /\ (a < KERNTOP \/ DEVSPACE <= a)}
NoPte == [page |-> 0, u |-> FALSE]
NoDir == [page |-> 0]

(* The second level for page v: not ok when there is none. *)
walkpgdir(s, v, alloc) ==
  IF s.d.tab[PDX(v)] # 0 THEN [s EXCEPT !.ok = TRUE]
  ELSE LET n == kalloc(s)
       IN IF ~alloc \/ n = 0 THEN [s EXCEPT !.ok = FALSE]
          ELSE [Taken(s, n) EXCEPT !.d.tab[PDX(v)] = n, !.ok = TRUE]

(* mappages, of one page of user memory. *)
mappages(s, v, n, u) ==
  LET w == walkpgdir(s, v, TRUE)
  IN IF ~w.ok THEN w
     ELSE IF w.d.pte[v].page # 0 THEN Panic(w, "remap")
     ELSE [w EXCEPT !.d.pte[v] = [page |-> n, u |-> u]]

(* From address a: a hole in the first level is skipped as a whole. *)
RECURSIVE deallocLoop(_, _, _)
deallocLoop(s, a, oldsz) ==
  LET v == a \div PGSIZE
      n == s.d.pte[v].page
  IN IF a >= oldsz THEN s
     ELSE IF s.d.tab[PDX(v)] = 0 THEN deallocLoop(s, (PDX(v) + 1) * NPT * PGSIZE, oldsz)
     ELSE IF n = 0 THEN deallocLoop(s, a + PGSIZE, oldsz)
     ELSE deallocLoop([kfree(s, n) EXCEPT !.d.pte[v] = NoPte], a + PGSIZE, oldsz)
deallocuvm(s, oldsz, newsz) ==
  IF newsz >= oldsz THEN [s EXCEPT !.ret = oldsz]
  ELSE [deallocLoop(s, PGROUNDUP(newsz), oldsz) EXCEPT !.ret = newsz]

freevm(s) ==
  LET u == deallocuvm(s, KERNBASE, 0)
      tabs == {u.d.tab[t] : t \in Tables} \ {0}
  IN [kfree([u EXCEPT !.free = [n \in Pages |-> @[n] + IF n \in tabs THEN 1 ELSE 0]],
            u.d.page) EXCEPT !.d = NoDir]

(* Mutant: the page that could not be mapped is forgotten. *)
Undo_leak(s, n) == s

(* After mappages failed. *)
Undo(s, n) == kfree(s, n)

(* Mutant: growing starts at the page the size is in. *)
FirstNew_down(oldsz) == PGROUNDDOWN(oldsz)

FirstNew(oldsz) == PGROUNDUP(oldsz)

RECURSIVE allocLoop(_, _, _, _)
allocLoop(s, a, oldsz, newsz) ==
  IF a >= newsz THEN [s EXCEPT !.ret = newsz]
  ELSE LET n == kalloc(s)
           w == mappages(Taken(s, n), a \div PGSIZE, n, TRUE)
       IN IF n = 0 THEN [deallocuvm(s, newsz, oldsz) EXCEPT !.ret = 0]
          ELSE IF ~w.ok
            THEN [Undo(deallocuvm(w, newsz, oldsz), n) EXCEPT !.ret = 0]
            ELSE allocLoop(w, a + PGSIZE, oldsz, newsz)
allocuvm(s, oldsz, newsz) ==
  IF newsz >= KERNBASE THEN [s EXCEPT !.ret = 0]
  ELSE IF newsz < oldsz THEN [s EXCEPT !.ret = oldsz]
  ELSE allocLoop(s, FirstNew(oldsz), oldsz, newsz)

(* The kernel's part: a page table for each part of it that kmap names. *)
RECURSIVE mapKernel(_, _)
mapKernel(s, ts) ==
  IF ts = {} THEN s
  ELSE LET w == walkpgdir(s, Min(ts) * NPT, TRUE)
       IN IF w.ok THEN mapKernel(w, ts \ {Min(ts)}) ELSE [freevm(w) EXCEPT !.ok = FALSE]
setupkvm(s) ==
  LET n == kalloc(s)
      d == [page |-> n, tab |-> [t \in Tables |-> 0], pte |-> [v \in UPages |-> NoPte]]
  IN IF n = 0 THEN [s EXCEPT !.ok = FALSE]
     ELSE mapKernel([Taken(s, n) EXCEPT !.d = d], KTables)

inituvm(s) ==
  LET n == kalloc(s) IN mappages(Taken(s, n), 0, n, TRUE)

(* From page v on; `from` is the parent's page table. *)
RECURSIVE copyLoop(_, _, _, _)
copyLoop(s, from, v, size) ==
  LET n == kalloc(s)
      w == mappages(Taken(s, n), v, n, from.pte[v].u)
  IN IF v * PGSIZE >= size THEN [s EXCEPT !.ok = TRUE]
     ELSE IF from.tab[PDX(v)] = 0 THEN Panic(s, "copyuvm: pte should exist")
     ELSE IF from.pte[v].page = 0 THEN Panic(s, "copyuvm: page not present")
     ELSE IF n = 0 THEN [freevm(s) EXCEPT !.ok = FALSE]
     ELSE IF ~w.ok THEN [freevm(Undo(w, n)) EXCEPT !.ok = FALSE]
     ELSE copyLoop(w, from, v + 1, size)
copyuvm(s, from, size) ==
  LET k == setupkvm(s) IN IF k.ok THEN copyLoop(k, from, 0, size) ELSE k

(* uva2ka, for the page at va0 of page table d.  It reads the PTE that      *)
(* walkpgdir returned even when it returned none.                           *)
uva2ka(d, va0) ==
  LET v == va0 \div PGSIZE
  IN IF d.tab[PDX(v)] = 0 THEN "null"
     ELSE IF v \in UPages /\ d.pte[v].page # 0 /\ d.pte[v].u THEN "ok" ELSE "no"

RECURSIVE copyout(_, _, _)
copyout(d, va, len) ==
  LET va0 == PGROUNDDOWN(va)
      n == Min({PGSIZE - (va - va0), len})
  IN IF len = 0 THEN "ok"
     ELSE IF uva2ka(d, va0) # "ok" THEN uva2ka(d, va0)
     ELSE copyout(d, (va0 + PGSIZE) % ADDRS, len - n)

-----------------------------------------------------------------------------
(* exec.c. *)

(* loaduvm: the pages of a segment's file part are there to be read into;   *)
(* where one is not, the code would read into physical address 0.           *)
loaduvm(s, seg) ==
  LET vs == {v \in 0..(ADDRS \div PGSIZE - 1) :
               seg.vaddr <= v * PGSIZE /\ v * PGSIZE < seg.vaddr + seg.filesz}
  IN IF \E v \in vs : s.d.tab[PDX(v)] = 0 THEN Panic(s, "loaduvm: address should exist")
     ELSE IF \E v \in vs : v \notin UPages \/ s.d.pte[v].page = 0
       THEN Panic(s, "loaduvm: page not present")
     ELSE [s EXCEPT !.ok = seg.read]

(* One segment; s.ret is the size so far. *)
Loaded(a, seg) ==
  IF a.ret = 0 \/ seg.vaddr % PGSIZE # 0 THEN [a EXCEPT !.ok = FALSE] ELSE loaduvm(a, seg)
segment(s, seg) ==
  LET top == (seg.vaddr + seg.memsz) % ADDRS
  IN IF seg.memsz < seg.filesz \/ top < seg.vaddr THEN [s EXCEPT !.ok = FALSE]
     ELSE Loaded(allocuvm(s, s.ret, top), seg)

RECURSIVE loadLoop(_, _)
loadLoop(s, prog) ==
  IF prog = <<>> \/ ~s.ok THEN s ELSE loadLoop(segment(s, Head(prog)), Tail(prog))

(* The strings, and then the vector that points to them; sp wraps. *)
RECURSIVE pushArgs(_, _, _, _)
pushArgs(d, sp, argc, args) ==
  LET wds == 3 + argc + 1
      top == (sp - Head(args)) % ADDRS
  IN IF args = <<>> THEN copyout(d, (sp - wds) % ADDRS, wds)
     ELSE IF argc >= MAXARG THEN "no"
     ELSE IF copyout(d, top, Head(args)) # "ok" THEN copyout(d, top, Head(args))
     ELSE pushArgs(d, top, argc + 1, Tail(args))

clearpteu(s, v) ==
  LET w == walkpgdir(s, v, FALSE)
  IN IF w.ok THEN [w EXCEPT !.d.pte[v].u = FALSE] ELSE Panic(w, "clearpteu")

(* Two pages above the program: one out of the user's reach, and the stack. *)
Guarded(a) ==
  IF a.ret = 0 THEN [a EXCEPT !.ok = FALSE] ELSE clearpteu(a, a.ret \div PGSIZE - 2)
stack(s) ==
  LET top == PGROUNDUP(s.ret)
  IN IF s.ok THEN Guarded(allocuvm(s, top, top + 2 * PGSIZE)) ELSE s

(* bad: nothing of the new image is left. *)
bad(s) == [freevm(s) EXCEPT !.ok = FALSE]

(* A string longer than all of the devices' addresses, which takes sp round *)
(* the end of the address space to below DEVSPACE.                          *)
Overlong(args) == \E i \in DOMAIN args : args[i] > ADDRS - DEVSPACE

(* With "null", uva2ka has gone on with the word at address 0 of the caller *)
(* for a PTE: what follows depends on that word, and the model stops.       *)
Pushed(s, how, args) ==
  CASE how = "ok" -> s
    [] how = "no" -> bad(s)
    [] how = "null" -> Panic(s, IF Overlong(args) THEN "uva2ka: overlong" ELSE "uva2ka")
arguments(s, args) ==
  IF s.ok THEN Pushed(s, pushArgs(s.d, s.ret, 0, args), args) ELSE bad(s)

(* The new image in s.d, or not ok. *)
Filled(s, prog, args) == IF s.ok THEN arguments(stack(loadLoop(s, prog)), args) ELSE s
image(s, prog, args) == Filled(setupkvm(s), prog, args)

-----------------------------------------------------------------------------
(* The calls. *)

Start(d, n) ==
  [free |-> free, left |-> n, d |-> d, ok |-> TRUE, ret |-> 0, panic |-> ""]

(* kinit1, kinit2 and userinit. *)
Init ==
  LET s0 == [free |-> [n \in Pages |-> 1], left |-> Cardinality(Pages), d |-> NoDir,
             ok |-> TRUE, ret |-> 0, panic |-> ""]
      k == kalloc(s0)
      s == inituvm(setupkvm(Taken(s0, k)))
  IN /\ free = s.free
     /\ pgdir = [p \in Procs |-> IF p = InitProc THEN s.d ELSE NoDir]
     /\ sz = [p \in Procs |-> IF p = InitProc THEN PGSIZE ELSE 0]
     /\ kstack = [p \in Procs |-> IF p = InitProc THEN k ELSE 0]
     /\ state = [p \in Procs |-> IF p = InitProc THEN "live" ELSE "unused"]
     /\ panicked = ""

(* A process runs as long as its first page, where programs are linked to   *)
(* start, is there; then it faults and trap makes it exit.                  *)
Runs(p) ==
  panicked = "" /\ state[p] = "live" /\ pgdir[p].pte[0].page # 0 /\ pgdir[p].pte[0].u
Left == 0..Cardinality({n \in Pages : free[n] > 0})

fork(p, q) ==
  \E left \in Left :
    LET s == Start(NoDir, left)
        k == kalloc(s)
        c == copyuvm(Taken(s, k), pgdir[p], sz[p])
    IN /\ Runs(p) /\ state[q] = "unused"
       /\ k # 0
       /\ panicked' = c.panic
       /\ \/ /\ c.ok
             /\ free' = c.free
             /\ pgdir' = [pgdir EXCEPT ![q] = c.d]
             /\ sz' = [sz EXCEPT ![q] = sz[p]]
             /\ kstack' = [kstack EXCEPT ![q] = k]
             /\ state' = [state EXCEPT ![q] = "live"]
          \/ /\ ~c.ok
             /\ free' = kfree(c, k).free
             /\ UNCHANGED <<pgdir, sz, kstack, state>>

(* The image s is committed to and the old one freed, or s has failed. *)
Committed(p, s, old) ==
  /\ free' = old.free
  /\ panicked' = old.panic
  /\ pgdir' = [pgdir EXCEPT ![p] = s.d]
  /\ sz' = [sz EXCEPT ![p] = s.ret]
Execed(p, s) ==
  \/ s.ok /\ Committed(p, s, freevm([s EXCEPT !.d = pgdir[p]]))
  \/ /\ ~s.ok
     /\ free' = s.free /\ panicked' = s.panic
     /\ UNCHANGED <<pgdir, sz>>

(* Init is a program with text at its first address. *)
exec(p) ==
  \E e \in Execs, left \in Left :
    /\ Runs(p) /\ (p = InitProc => e.prog # <<>>)
    /\ Execed(p, image(Start(NoDir, left), e.prog, e.args))
    /\ UNCHANGED <<kstack, state>>

(* Mutant: the size is set even when growing failed. *)
Sized_always(p, new, r) == new

(* growproc's size: a result of 0 counts as a failure, also of shrinking. *)
Sized(p, new, r) == IF r = 0 THEN sz[p] ELSE r

sbrk(p) ==
  \E n \in Grows, left \in Left :
    LET s == Start(pgdir[p], left)
        new == (sz[p] + n) % ADDRS
        g == IF n > 0 THEN allocuvm(s, sz[p], new)
             ELSE IF n < 0 THEN deallocuvm(s, sz[p], new)
             ELSE [s EXCEPT !.ret = sz[p]]
    IN /\ Runs(p) /\ p # InitProc
       /\ free' = g.free
       /\ pgdir' = [pgdir EXCEPT ![p] = g.d]
       /\ sz' = [sz EXCEPT ![p] = Sized(p, new, g.ret)]
       /\ panicked' = g.panic
       /\ UNCHANGED <<kstack, state>>

exit(p) ==
  /\ panicked = "" /\ state[p] = "live" /\ p # InitProc
  /\ state' = [state EXCEPT ![p] = "zombie"]
  /\ UNCHANGED <<free, pgdir, sz, kstack, panicked>>

(* wait, of the parent or of init. *)
wait(q) ==
  LET s == freevm(kfree(Start(pgdir[q], 0), kstack[q]))
  IN /\ panicked = "" /\ state[q] = "zombie"
     /\ free' = s.free
     /\ panicked' = s.panic
     /\ pgdir' = [pgdir EXCEPT ![q] = NoDir]
     /\ sz' = [sz EXCEPT ![q] = 0]
     /\ kstack' = [kstack EXCEPT ![q] = 0]
     /\ state' = [state EXCEPT ![q] = "unused"]

Next ==
  \/ \E p, q \in Procs : fork(p, q)
  \/ \E p \in Procs : exec(p) \/ sbrk(p) \/ exit(p) \/ wait(p)

Spec == Init /\ [][Next]_vars

-----------------------------------------------------------------------------
(* Properties. *)

(* Every page is on the free list or in one place of one process, once,     *)
(* whichever kalloc of fork, exec or sbrk fails: nothing leaks, nothing is  *)
(* freed twice, and no page is in two address spaces.                       *)
Live == {p \in Procs : pgdir[p] # NoDir}
Uses(n) ==
  Cardinality({p \in Procs : kstack[p] = n})
  + Cardinality({p \in Live : pgdir[p].page = n})
  + Cardinality({q \in Live \X Tables : pgdir[q[1]].tab[q[2]] = n})
  + Cardinality({q \in Live \X UPages : pgdir[q[1]].pte[q[2]].page = n})
PagesAccounted == panicked = "" => \A n \in Pages : free[n] + Uses(n) = 1

(* The memory of a process that runs is the pages below its size, no more   *)
(* and no less, and none of the kernel's addresses: what copyuvm, argptr    *)
(* and fetchstr take for granted of p->sz.                                  *)
SizeMapped ==
  \A p \in Procs : Runs(p) =>
    /\ sz[p] < KERNBASE
    /\ \A v \in UPages : pgdir[p].pte[v].page # 0 <=> v * PGSIZE < sz[p]

(* No sequence of calls makes vm.c panic (remap, a page that should be      *)
(* there), free what is not a page, or read a page table that is not there, *)
(* but for one: exec with a string longer than the addresses from DEVSPACE  *)
(* on (32 MB), which copyout would put where kmap has mapped nothing.       *)
NoPanic == panicked \in {"", "uva2ka: overlong"}
====
