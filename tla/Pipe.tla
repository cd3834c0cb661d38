-------------------------------- MODULE Pipe --------------------------------
(***************************************************************************)
(* One pipe (pipe.c) shared by reading and writing processes, from its     *)
(* pipealloc to the kfree of its page.  Each process has one descriptor,   *)
(* as after fork and close; the reference count of a struct file is the    *)
(* number of processes of that side that still have it open (fileclose).   *)
(* p->lock is held across steps, so that kill, which does not take it, can *)
(* come between the test of p->killed and sleep.                           *)
(***************************************************************************)
EXTENDS Integers, Sequences, FiniteSets

CONSTANTS
  Readers, Writers,
  PIPESIZE,     \* bytes of the ring
  UINT,         \* nread and nwrite count modulo this, a multiple of PIPESIZE
  Byte,         \* contents of a byte
  Lens,         \* bound: the numbers of bytes asked for in a call
  None          \* nobody holds the lock

Procs == Readers \cup Writers

ASSUME PipeAssumption ==
  /\ Readers \cap Writers = {}
  /\ None \notin Procs
  /\ {PIPESIZE, UINT} \cup Lens \subseteq Nat
  /\ PIPESIZE > 0 /\ UINT > PIPESIZE /\ UINT % PIPESIZE = 0

VARIABLES
  data,         \* p->data
  nread, nwrite,
  readopen, writeopen,
  freed,        \* the page has been given to kfree
  lock,         \* the holder of p->lock
  open,         \* processes whose descriptor is open
  killed,       \* processes with p->killed set
  pc,
  i, n          \* locals of pipewrite and piperead

ring == <<data, nread, nwrite>>
ends == <<readopen, writeopen>>
vars == <<data, nread, nwrite, readopen, writeopen, freed, lock, open, killed,
          pc, i, n>>

Side(p) == IF p \in Readers THEN Readers ELSE Writers

(* pipealloc, after which the ends have been shared out. *)
Init ==
  /\ data = [k \in 0..(PIPESIZE - 1) |-> CHOOSE v \in Byte : TRUE]
  /\ nread = 0 /\ nwrite = 0
  /\ readopen = TRUE /\ writeopen = TRUE
  /\ freed = FALSE
  /\ lock = None
  /\ open = Procs
  /\ killed = {}
  /\ pc = [p \in Procs |-> "out"]
  /\ i = [p \in Procs |-> 0]
  /\ n = [p \in Procs |-> 0]

Goto(p, l) == pc' = [pc EXCEPT ![p] = l]

(* wakeup of the processes in S asleep on this pipe, and sleep's acquire. *)
Wake(f, S) ==
  [q \in Procs |-> IF q \in S /\ f[q] = "asleep" THEN "acquire" ELSE f[q]]

(* x++ of a uint *)
Inc(x) == (x + 1) % UINT

-----------------------------------------------------------------------------
(* Entry of piperead and pipewrite, up to acquire(&p->lock). *)
Call(p, k) ==
  /\ pc[p] = "out"
  /\ p \in open /\ p \notin killed
  /\ n' = [n EXCEPT ![p] = k]
  /\ i' = [i EXCEPT ![p] = 0]
  /\ Goto(p, "acquire")
  /\ UNCHANGED <<ring, ends, freed, lock, open, killed>>

acquire(p) ==
  /\ pc[p] = "acquire"
  /\ lock = None
  /\ lock' = p
  /\ Goto(p, "loop")
  /\ UNCHANGED <<ring, ends, freed, open, killed, i, n>>

(* release(&p->lock) and return; f is pc after the return's wakeup. *)
Return(p, f) ==
  /\ pc' = f
  /\ lock' = None
  /\ i' = [i EXCEPT ![p] = 0] /\ n' = [n EXCEPT ![p] = 0]

(* sleep releases p->lock and puts p to sleep in one step (see Proc). *)
sleep(p) ==
  /\ pc[p] = "sleep"
  /\ lock' = None
  /\ Goto(p, "asleep")
  /\ UNCHANGED <<ring, ends, freed, open, killed, i, n>>

-----------------------------------------------------------------------------
(* pipewrite *)

(* Mutant: the ring is full one byte late. *)
Full_late == nwrite = (nread + PIPESIZE + 1) % UINT

Full == nwrite = (nread + PIPESIZE) % UINT

WriteByte(p, v) ==
  /\ p \in Writers /\ pc[p] = "loop"
  /\ i[p] < n[p] /\ ~Full
  /\ data' = [data EXCEPT ![nwrite % PIPESIZE] = v]
  /\ nwrite' = Inc(nwrite)
  /\ i' = [i EXCEPT ![p] = @ + 1]
  /\ UNCHANGED <<nread, ends, freed, lock, open, killed, pc, n>>

WriteFull(p) ==
  /\ p \in Writers /\ pc[p] = "loop"
  /\ i[p] < n[p] /\ Full
  /\ IF ~readopen \/ p \in killed
     THEN Return(p, [pc EXCEPT ![p] = "out"])
     ELSE /\ pc' = Wake([pc EXCEPT ![p] = "sleep"], Readers)
          /\ UNCHANGED <<lock, i, n>>
  /\ UNCHANGED <<ring, ends, freed, open, killed>>

WriteDone(p) ==
  /\ p \in Writers /\ pc[p] = "loop"
  /\ i[p] = n[p]
  /\ Return(p, Wake([pc EXCEPT ![p] = "out"], Readers))
  /\ UNCHANGED <<ring, ends, freed, open, killed>>

-----------------------------------------------------------------------------
(* piperead *)

Empty == nread = nwrite

MustWait(p) == i[p] = 0 /\ Empty /\ writeopen

ReadWait(p) ==
  /\ p \in Readers /\ pc[p] = "loop"
  /\ MustWait(p)
  /\ IF p \in killed
     THEN Return(p, [pc EXCEPT ![p] = "out"])
     ELSE Goto(p, "sleep") /\ UNCHANGED <<lock, i, n>>
  /\ UNCHANGED <<ring, ends, freed, open, killed>>

ReadByte(p) ==
  /\ p \in Readers /\ pc[p] = "loop"
  /\ i[p] < n[p] /\ ~Empty
  /\ nread' = Inc(nread)
  /\ i' = [i EXCEPT ![p] = @ + 1]
  /\ UNCHANGED <<data, nwrite, ends, freed, lock, open, killed, pc, n>>

ReadDone(p) ==
  /\ p \in Readers /\ pc[p] = "loop"
  /\ ~MustWait(p)
  /\ i[p] = n[p] \/ Empty
  /\ Return(p, Wake([pc EXCEPT ![p] = "out"], Writers))
  /\ UNCHANGED <<ring, ends, freed, open, killed>>

-----------------------------------------------------------------------------
(* fileclose: the last close of a side goes on to pipeclose. *)
fileclose(p) ==
  /\ pc[p] = "out"
  /\ open' = open \ {p}
  /\ Goto(p, IF open \cap Side(p) = {p} THEN "pipeclose" ELSE "closed")
  /\ UNCHANGED <<ring, ends, freed, lock, killed, i, n>>

(* Mutants: closing wakes nobody; one closed end is enough to free the page. *)
CloseWake_no(f, p) == f
BothClosed_either == ~readopen' \/ ~writeopen'

(* The other side is woken. *)
CloseWake(f, p) == Wake(f, Procs \ Side(p))

BothClosed == ~readopen' /\ ~writeopen'

pipeclose(p) ==
  /\ pc[p] = "pipeclose"
  /\ lock = None
  /\ readopen' = (readopen /\ p \notin Readers)
  /\ writeopen' = (writeopen /\ p \notin Writers)
  /\ pc' = CloseWake([pc EXCEPT ![p] = IF BothClosed THEN "kfree" ELSE "closed"], p)
  /\ UNCHANGED <<ring, freed, lock, open, killed, i, n>>

kfree(p) ==
  /\ pc[p] = "kfree"
  /\ freed' = TRUE
  /\ Goto(p, "closed")
  /\ UNCHANGED <<ring, ends, lock, open, killed, i, n>>

(* kill (proc.c) sets p->killed and ends a sleep; it takes ptable.lock only. *)
kill(p) ==
  /\ pc[p] # "closed"
  /\ p \notin killed
  /\ killed' = killed \cup {p}
  /\ pc' = Wake(pc, {p})
  /\ UNCHANGED <<ring, ends, freed, lock, open, i, n>>

-----------------------------------------------------------------------------
(* The steps of p inside the kernel. *)
Inside(p) ==
  \/ \E v \in Byte : WriteByte(p, v)
  \/ WriteFull(p) \/ WriteDone(p)
  \/ ReadWait(p) \/ ReadByte(p) \/ ReadDone(p)
  \/ sleep(p) \/ kfree(p)

Next ==
  \E p \in Procs :
    \/ \E k \in Lens : Call(p, k)
    \/ acquire(p) \/ Inside(p)
    \/ fileclose(p) \/ pipeclose(p)
    \/ kill(p)

Spec == Init /\ [][Next]_vars

-----------------------------------------------------------------------------

(* The bytes in the pipe, oldest first. *)
Used == (nwrite - nread) % UINT
Contents == [k \in 1..Used |-> data[(nread + k - 1) % PIPESIZE]]

(* pipewrite and piperead are a bounded queue of bytes, also when the     *)
(* counters wrap and when readers and writers interleave at every sleep.  *)
Abs == INSTANCE Fifo WITH q <- Contents, Size <- PIPESIZE
RefinesFifo == Abs!Spec

(* No wakeup is lost: a reader sleeps only while the pipe is empty and has a *)
(* writer, a writer only while it is full and has a reader, except while the *)
(* process that changed this still holds p->lock and is about to wake it.    *)
(* The code has one exception: a writer that fills the pipe and then finds   *)
(* that it has been killed returns without waking the readers.               *)
NoLostWakeup ==
  \A p \in Procs : pc[p] = "asleep" =>
    \/ p \in Readers /\ Writers \cap killed # {}
    \/ p \in Readers /\ Empty /\ writeopen
    \/ p \in Writers /\ Full /\ readopen
    \/ \E q \in Procs \ Side(p) : lock = q /\ pc[q] = "loop"

(* The page is given back once, by the close that comes last: nobody can be *)
(* in the pipe's code, or come to it, when kfree fills it with junk.        *)
FreedLast ==
  /\ freed <=> \A p \in Procs : pc[p] = "closed"
  /\ \A p \in Procs : pc[p] = "kfree" => \A q \in Procs \ {p} : pc[q] = "closed"
=============================================================================
