---------------------------- MODULE BufferCache ----------------------------
(***************************************************************************)
(* The buffer cache (bio.c) over the disk driver's queue (ide.c), with the *)
(* sleep locks of the buffers (sleeplock.c).  A step is one section under  *)
(* bcache.lock, under the spin lock of a sleep lock, or under idelock; the *)
(* end of a disk request and its interrupt are one step.  A process has at *)
(* most two buffers: one, and for bmap, itrunc, install_trans and write_log *)
(* a second one.  u = <<p, k>> is process p with the k-th of them.          *)
(***************************************************************************)
EXTENDS Integers, Sequences, FiniteSets

CONSTANTS
  Procs,
  Blocks,
  Val,         \* contents of a block
  Junk,        \* the contents of a buffer that was never filled
  BadBlocks,   \* blocks for which the disk reports a read error
  NBUF,
  MAXPIN,      \* bound: buffers kept B_DIRTY by log_write
  CALLS,       \* bound: breads of a process
  None,        \* no buffer, no process
  NoBlock      \* a buffer that holds no block, an idle disk

(* A process with one of its buffers. *)
Uses == Procs \X {1, 2}

ASSUME BufferAssumption ==
  /\ {NBUF, MAXPIN, CALLS} \subseteq Nat
  /\ IsFiniteSet(Procs)
  /\ BadBlocks \subseteq Blocks
  /\ None \notin Uses \cup Nat
  /\ NoBlock \notin Blocks
  /\ Junk \notin Val

Bufs == 1..NBUF

VARIABLES
  lru,               \* bcache.head's list, most recently used first
  blockno, refcnt, data,
  valid, dirty,      \* buffers with B_VALID, with B_DIRTY
  slock,             \* who has b->lock
  idequeue,
  ctl,               \* the request the controller works on
  disk,
  pc,
  my,                \* the buffer a process got from bget
  want,              \* the block it asked for
  calls

bufs == <<lru, blockno, refcnt>>
flags == <<valid, dirty>>
ide == <<idequeue, ctl, disk>>
local == <<my, want, calls>>
vars == <<lru, blockno, refcnt, data, valid, dirty, slock, idequeue, ctl, disk,
          pc, my, want, calls>>

Idle == [blk |-> NoBlock, write |-> FALSE, val |-> Junk]

(* binit puts each buffer in front of the list. *)
Init ==
  /\ lru = [k \in Bufs |-> NBUF + 1 - k]
  /\ blockno = [b \in Bufs |-> NoBlock]
  /\ refcnt = [b \in Bufs |-> 0]
  /\ data = [b \in Bufs |-> Junk]
  /\ valid = {} /\ dirty = {}
  /\ slock = [b \in Bufs |-> None]
  /\ idequeue = <<>>
  /\ ctl = Idle
  /\ disk \in [Blocks -> Val]
  /\ pc = [u \in Uses |-> "out"]
  /\ my = [u \in Uses |-> None]
  /\ want = [u \in Uses |-> NoBlock]
  /\ calls = [p \in Procs |-> 0]

(* What its process does with its other buffer. *)
Other(u) == <<u[1], 3 - u[2]>>

Goto(u, l) == pc' = [pc EXCEPT ![u] = l]

(* wakeup of those asleep at `from` for buffer b; they go on at `to`. *)
Wake(f, b, from, to) ==
  [q \in Uses |-> IF f[q] = from /\ my[q] = b THEN to ELSE f[q]]

-----------------------------------------------------------------------------
(* bio.c and sleeplock.c *)

Cached(bn) == {b \in Bufs : blockno[b] = bn}

(* Mutant: a buffer that somebody waits for is recycled. *)
Recyclable_used == {b \in Bufs : b \notin dirty /\ slock[b] = None}

Recyclable == {b \in Bufs : refcnt[b] = 0 /\ b \notin dirty}

FirstIn(S) == lru[CHOOSE k \in Bufs : lru[k] \in S /\ \A j \in 1..(k-1) : lru[j] \notin S]
LastIn(S) == lru[CHOOSE k \in Bufs : lru[k] \in S /\ \A j \in (k+1)..NBUF : lru[j] \notin S]

(* bget up to its release of bcache.lock.  The second buffer is asked for   *)
(* with the first one in hand, and for another block.                      *)
bget(u, bn) ==
  /\ pc[u] = "out" /\ calls[u[1]] < CALLS
  /\ pc[Other(u)] = (IF u[2] = 1 THEN "out" ELSE "held") /\ want[Other(u)] # bn
  /\ \/ LET b == FirstIn(Cached(bn)) IN
          /\ Cached(bn) # {}
          /\ refcnt' = [refcnt EXCEPT ![b] = @ + 1]
          /\ my' = [my EXCEPT ![u] = b]
          /\ Goto(u, "lock")
          /\ UNCHANGED <<blockno, flags>>
     \/ LET b == LastIn(Recyclable) IN
          /\ Cached(bn) = {} /\ Recyclable # {}
          /\ blockno' = [blockno EXCEPT ![b] = bn]
          /\ valid' = valid \ {b} /\ dirty' = dirty \ {b}
          /\ refcnt' = [refcnt EXCEPT ![b] = 1]
          /\ my' = [my EXCEPT ![u] = b]
          /\ Goto(u, "lock")
     \/ /\ Cached(bn) = {} /\ Recyclable = {}
        /\ Goto(u, "nobufs")
        /\ UNCHANGED <<blockno, flags, refcnt, my>>
  /\ want' = [want EXCEPT ![u] = bn]
  /\ calls' = [calls EXCEPT ![u[1]] = @ + 1]
  /\ UNCHANGED <<lru, data, slock, ide>>

(* Where bread goes with the locked buffer. *)
bread(b) == IF b \in valid THEN "held" ELSE "iderw"

(* One turn of acquiresleep's loop. *)
acquiresleep(u) ==
  LET b == my[u] IN
    /\ pc[u] = "lock"
    /\ \/ /\ slock[b] # None
          /\ Goto(u, "asleep")
          /\ UNCHANGED slock
       \/ /\ slock[b] = None
          /\ slock' = [slock EXCEPT ![b] = u]
          /\ Goto(u, bread(b))
    /\ UNCHANGED <<bufs, data, flags, ide, local>>

(* The caller changes the data and calls bwrite. *)
bwrite(u, v) ==
  /\ pc[u] = "held"
  /\ data' = [data EXCEPT ![my[u]] = v]
  /\ dirty' = dirty \cup {my[u]}
  /\ Goto(u, "iderw")
  /\ UNCHANGED <<bufs, valid, slock, ide, local>>

(* The caller changes the data and calls log_write, which sets B_DIRTY. *)
log_write(u, v) ==
  /\ pc[u] = "held"
  /\ Cardinality(dirty \cup {my[u]}) <= MAXPIN
  /\ data' = [data EXCEPT ![my[u]] = v]
  /\ dirty' = dirty \cup {my[u]}
  /\ UNCHANGED <<bufs, valid, slock, ide, pc, local>>

(* Mutant: the processes waiting for the lock stay asleep. *)
WakeLock_no(f, b) == f

(* wakeup(lk) *)
WakeLock(f, b) == Wake(f, b, "asleep", "lock")

(* brelse: releasesleep first ... *)
releasesleep(u) ==
  LET b == my[u] IN
    /\ pc[u] = "held"
    /\ slock' = [slock EXCEPT ![b] = None]
    /\ pc' = WakeLock([pc EXCEPT ![u] = "brelse"], b)
    /\ UNCHANGED <<bufs, data, flags, ide, local>>

(* The list with b taken out of its place and put in front. *)
Front(b) ==
  LET i == CHOOSE k \in Bufs : lru[k] = b
  IN [k \in Bufs |-> IF k = 1 THEN b ELSE IF k <= i THEN lru[k - 1] ELSE lru[k]]

(* ... then refcnt, and the place in the list, under bcache.lock. *)
brelse(u) ==
  LET b == my[u] IN
    /\ pc[u] = "brelse"
    /\ refcnt' = [refcnt EXCEPT ![b] = @ - 1]
    /\ lru' = IF refcnt[b] = 1 THEN Front(b) ELSE lru
    /\ my' = [my EXCEPT ![u] = None]
    /\ want' = [want EXCEPT ![u] = NoBlock]
    /\ Goto(u, "out")
    /\ UNCHANGED <<blockno, data, flags, slock, ide, calls>>

-----------------------------------------------------------------------------
(* ide.c *)

(* Mutant: B_DIRTY is not looked at. *)
Done_valid(b) == b \in valid

Done(b) == b \in valid /\ b \notin dirty

(* idestart gives the controller the block number and, to write, the data. *)
idestart(b) == [blk |-> blockno[b], write |-> b \in dirty, val |-> data[b]]

(* The test iderw makes; bwrite and brelse make it in states where it holds. *)
holdingsleep(u, b) == slock[b] \in {u, Other(u)}

(* iderw up to its first sleep. *)
iderw(u) ==
  LET b == my[u] IN
    /\ pc[u] = "iderw"
    /\ IF ~holdingsleep(u, b) \/ Done(b)
       THEN Goto(u, "panic") /\ UNCHANGED <<idequeue, ctl>>
       ELSE /\ idequeue' = Append(idequeue, b)
            /\ ctl' = IF idequeue = <<>> THEN idestart(b) ELSE ctl
            /\ Goto(u, "iosleep")
    /\ UNCHANGED <<bufs, data, flags, slock, disk, local>>

(* Woken in iderw: the test of its loop. *)
IoTest(u) ==
  /\ pc[u] = "iotest"
  /\ Goto(u, IF Done(my[u]) THEN "held" ELSE "iosleep")
  /\ UNCHANGED <<bufs, data, flags, slock, ide, local>>

(* Mutant: the next request is not started. *)
StartNext_no(q) == Idle

StartNext(q) == IF q = <<>> THEN Idle ELSE idestart(Head(q))

(* What a read finds; after an error the buffer keeps what it had. *)
ReadData(b) == IF ctl.blk \in BadBlocks THEN data[b] ELSE disk[ctl.blk]

(* The controller finishes its request, and ideintr. *)
ideintr ==
  LET b == Head(idequeue) IN
    /\ ctl # Idle
    /\ disk' = IF ctl.write THEN [disk EXCEPT ![ctl.blk] = ctl.val] ELSE disk
    /\ data' = IF b \in dirty THEN data ELSE [data EXCEPT ![b] = ReadData(b)]
    /\ valid' = valid \cup {b} /\ dirty' = dirty \ {b}
    /\ pc' = Wake(pc, b, "iosleep", "iotest")
    /\ idequeue' = Tail(idequeue)
    /\ ctl' = StartNext(Tail(idequeue))
    /\ UNCHANGED <<bufs, slock, local>>

-----------------------------------------------------------------------------
(* The process of u is not in a call with its other buffer. *)
Turn(u) == pc[Other(u)] \in {"out", "held"}

(* The steps of u that are not its caller's choice. *)
Inside(u) == acquiresleep(u) \/ brelse(u) \/ iderw(u) \/ IoTest(u)

Next ==
  \/ \E u \in Uses :
       /\ Turn(u)
       /\ \/ \E bn \in Blocks : bget(u, bn)
          \/ Inside(u)
          \/ \E v \in Val : bwrite(u, v) \/ log_write(u, v)
          \/ releasesleep(u)
  \/ ideintr

Spec == Init /\ [][Next]_vars

-----------------------------------------------------------------------------

(* iderw's panics "buf not locked" and "nothing to do" are not reached, and *)
(* "bget: no buffers" only when the buffers that processes have in hand and *)
(* those that log_write pins together are NBUF.                              *)
NoPanic ==
  /\ \A u \in Uses : pc[u] # "panic"
  /\ Recyclable = {} => NBUF <= Cardinality({u \in Uses : my[u] # None}) + MAXPIN

(* The disk works on the first request of the queue, and on nothing else: *)
(* no request is left behind when the disk is idle.                       *)
DiskBusy ==
  /\ idequeue = <<>> => ctl = Idle
  /\ idequeue # <<>> => ctl = idestart(Head(idequeue))

(* Nobody sleeps for something that has happened: the lock is taken, the  *)
(* request is in the queue.                                               *)
NoLostWakeup ==
  \A u \in Uses :
    /\ pc[u] = "asleep" => slock[my[u]] # None
    /\ pc[u] = "iosleep" => \E k \in 1..Len(idequeue) : idequeue[k] = my[u]

(* The contents of a block are in its buffer once this is valid. *)
Store ==
  [bn \in Blocks |-> IF \E b \in valid : blockno[b] = bn
                     THEN data[CHOOSE b \in valid : blockno[b] = bn] ELSE disk[bn]]

Holds ==
  [u \in Uses |->
     IF my[u] # None /\ my[u] \in valid /\ slock[my[u]] = u THEN want[u] ELSE NoBlock]

(* The cache, the queue and the locks together are a store of blocks that   *)
(* are held by one process at a time: a buffer that is recycled, written    *)
(* late or read again never makes a block go back to older contents, and a  *)
(* process that waits for b->lock without bcache.lock gets its own block.   *)
Abs == INSTANCE BlockStore WITH Holders <- Uses, store <- Store, holds <- Holds
RefinesBlockStore == Abs!Spec
=============================================================================
