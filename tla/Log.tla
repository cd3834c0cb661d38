-------------------------------- MODULE Log --------------------------------
(***************************************************************************)
(* The write-ahead log of the file system (log.c): begin_op / log_write /  *)
(* end_op of concurrent system calls, group commit by the last of them,    *)
(* and recovery by initlog after a crash.  A step is one synchronous block *)
(* write, or one section under log.lock.                                   *)
(*                                                                         *)
(* The disk is split into the home blocks, the log's data blocks and the   *)
(* log's header block.  A header is the sequence block[0..n-1]; the slots  *)
(* past n are never read by the code and are left out.  The buffer cache   *)
(* is seen through bread: a block is cached with some contents, or it is   *)
(* not and a read returns the disk's.                                      *)
(***************************************************************************)
EXTENDS Integers, Sequences, FiniteSets

CONSTANTS
  Procs,        \* processes making file system calls
  Blocks,       \* home blocks: bitmap, inodes and data
  Val,          \* contents of a block
  Zero,         \* the contents mkfs gives a block it does not use
  MAXOPBLOCKS,  \* param.h: blocks begin_op reserves for each call
  LOGSIZE,      \* param.h: blocks a log header can name
  NLOG,         \* sb.nlog: blocks of the on-disk log, its header included
  OPBLOCKS,     \* distinct blocks a call really writes
  OPWRITES,     \* bound: log_write calls made by one call
  MAXCRASH,     \* bound: crashes in a behaviour
  NoBuf,        \* a block that is not in the buffer cache
  NoBlock       \* a process that holds no buffer

ASSUME LogAssumption ==
  /\ {MAXOPBLOCKS, LOGSIZE, NLOG, OPBLOCKS, OPWRITES, MAXCRASH} \subseteq Nat
  /\ IsFiniteSet(Procs) /\ IsFiniteSet(Blocks)
  /\ MAXOPBLOCKS > 0
  /\ OPBLOCKS <= MAXOPBLOCKS
  /\ Zero \in Val
  /\ NoBuf \notin Val
  /\ NoBlock \notin Blocks

VARIABLES
  home,         \* disk: the home blocks
  logd,         \* disk: the log's data blocks, slot i at log.start+i
  hdr,          \* disk: the log's header block
  buf,          \* buffer cache: contents, or NoBuf
  dirty,        \* blocks whose buffer has B_DIRTY set
  lh,           \* log.lh
  outstanding,  \* log.outstanding
  committing,   \* log.committing
  pc,           \* where each process is
  blk,          \* the buffer a process has locked
  wrote,        \* blocks the process's call has logged
  writes,       \* log_write calls the process's call has made
  boot,         \* where the kernel is in initlog, or "up"
  tail,         \* loop index of write_log and install_trans, from 1
  crashes

disk == <<home, logd, hdr>>
cache == <<buf, dirty>>
logv == <<lh, outstanding, committing>>
opv == <<blk, wrote, writes>>
bootv == <<boot, crashes>>
vars == <<home, logd, hdr, buf, dirty, lh, outstanding, committing, pc, blk,
          wrote, writes, boot, tail, crashes>>

Slots == 1..LOGSIZE

(* The blocks named in log.lh. *)
Logged == {lh[i] : i \in 1..Len(lh)}

CommitPCs == {"commit", "write_log", "write_head", "install_trans", "erase",
              "committed"}
OpPCs == {"op", "append"}
PCs == {"out", "begin_op", "sleep", "panic"} \cup OpPCs \cup CommitPCs

(* The contents bread returns for a home block. *)
View(b) == IF buf[b] = NoBuf THEN home[b] ELSE buf[b]

-----------------------------------------------------------------------------
(* The disk as mkfs leaves it; the kernel has just been started. *)
Init ==
  /\ home \in [Blocks -> Val]
  /\ logd = [i \in Slots |-> Zero]
  /\ hdr = <<>>
  /\ buf = [b \in Blocks |-> NoBuf]
  /\ dirty = {}
  /\ lh = <<>>
  /\ outstanding = 0
  /\ committing = FALSE
  /\ pc = [p \in Procs |-> "out"]
  /\ blk = [p \in Procs |-> NoBlock]
  /\ wrote = [p \in Procs |-> {}]
  /\ writes = [p \in Procs |-> 0]
  /\ boot = "read_head"
  /\ tail = 1
  /\ crashes = 0

Goto(p, l) == pc' = [pc EXCEPT ![p] = l]

-----------------------------------------------------------------------------
(* initlog -> recover_from_log: read_head, install_trans, erase. *)

read_head ==
  /\ boot = "read_head"
  /\ lh' = hdr
  /\ tail' = 1
  /\ boot' = "install_trans"
  /\ UNCHANGED <<disk, cache, outstanding, committing, pc, opv, crashes>>

(* One iteration of install_trans: copy log block `tail` to its home.  *)
(* The write goes through the buffer of the home block, whose B_DIRTY  *)
(* the disk driver clears.                                             *)
Install ==
  LET b == lh[tail] IN
    /\ tail <= Len(lh)
    /\ home' = [home EXCEPT ![b] = logd[tail]]
    /\ buf' = [buf EXCEPT ![b] = logd[tail]]
    /\ dirty' = dirty \ {b}
    /\ tail' = tail + 1
    /\ UNCHANGED <<logd, hdr, logv, opv, bootv>>

RecoverInstall ==
  /\ boot = "install_trans"
  /\ Install
  /\ UNCHANGED pc

(* log.lh.n = 0; write_head(). *)
RecoverErase ==
  /\ boot = "install_trans"
  /\ tail > Len(lh)
  /\ lh' = <<>>
  /\ hdr' = <<>>
  /\ boot' = "up"
  /\ UNCHANGED <<home, logd, cache, outstanding, committing, pc, opv, tail,
                 crashes>>

-----------------------------------------------------------------------------
(* A file system call. *)

Call(p) ==
  /\ boot = "up"
  /\ pc[p] = "out"
  /\ Goto(p, "begin_op")
  /\ UNCHANGED <<disk, cache, logv, opv, tail, bootv>>

NoSpace == Len(lh) + (outstanding + 1) * MAXOPBLOCKS > LOGSIZE

(* Mutant: begin_op does not wait for a commit in progress. *)
MustWait_nocommit == NoSpace

MustWait == committing \/ NoSpace

(* One turn of begin_op's loop, under log.lock; sleep releases it. *)
begin_op(p) ==
  /\ pc[p] = "begin_op"
  /\ \/ /\ MustWait
        /\ Goto(p, "sleep")
        /\ UNCHANGED <<outstanding, wrote, writes>>
     \/ /\ ~MustWait
        /\ outstanding' = outstanding + 1
        /\ wrote' = [wrote EXCEPT ![p] = {}]
        /\ writes' = [writes EXCEPT ![p] = 0]
        /\ Goto(p, "op")
  /\ UNCHANGED <<disk, cache, lh, committing, blk, tail, bootv>>

(* The call locks a buffer with bread, changes its data, and enters        *)
(* log_write, which tests for the two panics before it takes log.lock.     *)
Modify(p, b, v) ==
  /\ pc[p] = "op"
  /\ writes[p] < OPWRITES
  /\ Cardinality(wrote[p] \cup {b}) <= OPBLOCKS
  /\ \A q \in Procs : blk[q] # b
  /\ blk' = [blk EXCEPT ![p] = b]
  /\ buf' = [buf EXCEPT ![b] = v]
  /\ wrote' = [wrote EXCEPT ![p] = @ \cup {b}]
  /\ writes' = [writes EXCEPT ![p] = @ + 1]
  /\ Goto(p, IF Len(lh) >= LOGSIZE \/ Len(lh) >= NLOG - 1 \/ outstanding < 1
             THEN "panic" ELSE "append")
  /\ UNCHANGED <<disk, dirty, logv, tail, bootv>>

(* Mutant: the buffer is not pinned. *)
Pin_no(b) == UNCHANGED dirty

(* b->flags |= B_DIRTY *)
Pin(b) == dirty' = dirty \cup {b}

(* The rest of log_write, under log.lock, and the caller's brelse. *)
log_write(p) ==
  /\ pc[p] = "append"
  /\ lh' = IF blk[p] \in Logged THEN lh ELSE Append(lh, blk[p])
  /\ Pin(blk[p])
  /\ blk' = [blk EXCEPT ![p] = NoBlock]
  /\ Goto(p, "op")
  /\ UNCHANGED <<disk, buf, outstanding, committing, wrote, writes, tail, bootv>>

(* Mutant: the sleepers stay asleep. *)
Wakeup_lost(f) == f

(* wakeup(&log): every process asleep in begin_op looks again. *)
Wakeup(f) == [q \in Procs |-> IF f[q] = "sleep" THEN "begin_op" ELSE f[q]]

(* end_op up to its release of log.lock. *)
end_op(p) ==
  /\ pc[p] = "op"
  /\ outstanding' = outstanding - 1
  /\ IF committing
     THEN Goto(p, "panic") /\ UNCHANGED committing
     ELSE IF outstanding = 1
     THEN Goto(p, "commit") /\ committing' = TRUE
     ELSE pc' = Wakeup([pc EXCEPT ![p] = "out"]) /\ UNCHANGED committing
  /\ UNCHANGED <<disk, cache, lh, opv, tail, bootv>>

-----------------------------------------------------------------------------
(* commit, run by the process whose end_op was the last, without log.lock. *)

(* There is something to commit. *)
Something == Len(lh) > 0

commit(p) ==
  /\ pc[p] = "commit"
  /\ Goto(p, IF Something THEN "write_log" ELSE "committed")
  /\ tail' = 1
  /\ UNCHANGED <<disk, cache, logv, opv, bootv>>

(* Mutant: the loop stops one block short. *)
MoreToLog_short == tail < Len(lh)

MoreToLog == tail <= Len(lh)

(* One iteration of write_log: cached block to log block `tail`. *)
write_log(p) ==
  /\ pc[p] = "write_log"
  /\ IF MoreToLog
     THEN /\ logd' = [logd EXCEPT ![tail] = View(lh[tail])]
          /\ tail' = tail + 1
          /\ UNCHANGED pc
     ELSE /\ Goto(p, "write_head")
          /\ UNCHANGED <<logd, tail>>
  /\ UNCHANGED <<home, hdr, cache, logv, opv, bootv>>

(* The header write that commits the transaction. *)
write_head(p) ==
  /\ pc[p] = "write_head"
  /\ hdr' = lh
  /\ tail' = 1
  /\ Goto(p, "install_trans")
  /\ UNCHANGED <<home, logd, cache, logv, opv, bootv>>

install_trans(p) ==
  /\ pc[p] = "install_trans"
  /\ \/ Install /\ UNCHANGED pc
     \/ /\ tail > Len(lh)
        /\ Goto(p, "erase")
        /\ UNCHANGED <<disk, cache, logv, opv, tail, bootv>>

(* log.lh.n = 0; write_head(). *)
erase(p) ==
  /\ pc[p] = "erase"
  /\ lh' = <<>>
  /\ hdr' = <<>>
  /\ Goto(p, "committed")
  /\ UNCHANGED <<home, logd, cache, outstanding, committing, opv, tail, bootv>>

(* The end of end_op: committing = 0 and wakeup, under log.lock. *)
committed(p) ==
  /\ pc[p] = "committed"
  /\ committing' = FALSE
  /\ pc' = Wakeup([pc EXCEPT ![p] = "out"])
  /\ UNCHANGED <<disk, cache, lh, outstanding, opv, tail, bootv>>

-----------------------------------------------------------------------------
(* The buffer cache, used by the calls and by reads outside any call. *)

(* bread of a block that is not cached. *)
Fill(b) ==
  /\ boot = "up"
  /\ buf[b] = NoBuf
  /\ buf' = [buf EXCEPT ![b] = home[b]]
  /\ UNCHANGED <<disk, dirty, logv, pc, opv, tail, bootv>>

(* bget recycles a buffer that nobody holds and that is not B_DIRTY. *)
Recycle(b) ==
  /\ buf[b] # NoBuf
  /\ b \notin dirty
  /\ \A p \in Procs : blk[p] # b
  /\ buf' = [buf EXCEPT ![b] = NoBuf]
  /\ UNCHANGED <<disk, dirty, logv, pc, opv, tail, bootv>>

(* The machine stops; memory is lost, the disk is kept. *)
Crash ==
  /\ crashes < MAXCRASH
  /\ crashes' = crashes + 1
  /\ buf' = [b \in Blocks |-> NoBuf]
  /\ dirty' = {}
  /\ lh' = <<>>
  /\ outstanding' = 0
  /\ committing' = FALSE
  /\ pc' = [p \in Procs |-> "out"]
  /\ blk' = [p \in Procs |-> NoBlock]
  /\ wrote' = [p \in Procs |-> {}]
  /\ writes' = [p \in Procs |-> 0]
  /\ boot' = "read_head"
  /\ tail' = 1
  /\ UNCHANGED disk

-----------------------------------------------------------------------------
Recovery == read_head \/ RecoverInstall \/ RecoverErase

Commit(p) ==
  \/ commit(p) \/ write_log(p) \/ write_head(p) \/ install_trans(p)
  \/ erase(p) \/ committed(p)

Next ==
  \/ Recovery
  \/ \E p \in Procs : \/ Call(p) \/ begin_op(p) \/ log_write(p) \/ end_op(p)
                      \/ Commit(p)
                      \/ \E b \in Blocks, v \in Val : Modify(p, b, v)
  \/ \E b \in Blocks : Fill(b) \/ Recycle(b)
  \/ Crash

Spec == Init /\ [][Next]_vars

(* A process runs until it sleeps: the scheduler gives it the CPU again, and *)
(* a call makes finitely many writes and then its end_op.                    *)
FairSpec ==
  /\ Spec
  /\ WF_vars(Recovery)
  /\ \A p \in Procs :
       WF_vars(begin_op(p) \/ log_write(p) \/ end_op(p) \/ Commit(p))
-----------------------------------------------------------------------------
TypeOK ==
  /\ home \in [Blocks -> Val]
  /\ logd \in [Slots -> Val]
  /\ hdr \in Seq(Blocks) /\ Len(hdr) <= LOGSIZE
  /\ buf \in [Blocks -> Val \cup {NoBuf}]
  /\ dirty \subseteq Blocks
  /\ lh \in Seq(Blocks) /\ Len(lh) <= LOGSIZE
  /\ outstanding \in 0..Cardinality(Procs)
  /\ committing \in BOOLEAN
  /\ pc \in [Procs -> PCs]
  /\ blk \in [Procs -> Blocks \cup {NoBlock}]
  /\ wrote \in [Procs -> SUBSET Blocks]
  /\ writes \in [Procs -> 0..OPWRITES]
  /\ boot \in {"read_head", "install_trans", "up"}
  /\ tail \in 1..(LOGSIZE + 1)
  /\ crashes \in 0..MAXCRASH

(* What initlog would leave in the home blocks if the machine stopped now: *)
(* the log blocks the header names, copied over their homes.               *)
Recovered ==
  [b \in Blocks |-> IF \E i \in 1..Len(hdr) : hdr[i] = b
                    THEN logd[CHOOSE i \in 1..Len(hdr) : hdr[i] = b]
                    ELSE home[b]]

(* None of the panics of log.c is reached: "too big a transaction" and      *)
(* "log_write outside of trans" (log_write), "log.committing" (end_op).     *)
NoPanic == \A p \in Procs : pc[p] # "panic"

(* What a call has written and not committed lives only in the buffer cache, *)
(* so its buffer is pinned: named in log.lh, B_DIRTY, or still locked.  Once *)
(* every call has returned, nothing that it wrote can be lost any more.      *)
UncommittedPinned ==
  \A b \in Blocks :
    (boot = "up" /\ View(b) # Recovered[b])
      => \/ b \in Logged \cap dirty
         \/ \E p \in Procs : blk[p] = b

(* The promise of the logging layer.  `stable` is what recovery would      *)
(* restore, so a torn or reordered commit, an early install, or a crash    *)
(* during recovery that loses or mixes calls is a step AtomicDisk forbids. *)
Abs == INSTANCE AtomicDisk WITH
         stable <- Recovered,
         current <- IF boot = "up" THEN [b \in Blocks |-> View(b)] ELSE Recovered,
         active <- {p \in Procs : pc[p] \in OpPCs \cup {"panic"}}
RefinesAtomicDisk == Abs!Spec

(* begin_op's sleep is never missed: a process asleep on &log is woken,     *)
(* by the end_op that frees its reservation or by the end of the commit.    *)
SleeperWakes == \A p \in Procs : pc[p] = "sleep" ~> pc[p] # "sleep"
=============================================================================
