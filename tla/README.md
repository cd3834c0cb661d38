# A TLA+ verification of chameleon-os

chameleon-os is a small multiprocessor Unix-like kernel for the x86, derived from xv6. This
directory holds TLA+ models of its kernel and of the user programs that do more than call it, the
TLC configurations that check them on small instances, and TLAPS proofs. `PROJECT.json` is the index: components, runs, mutants, the map
from definitions to source lines, findings, hazards and theorems.

## The system

| Part | Source | State | Operations that change it |
| --- | --- | --- | --- |
| Processes, scheduler | `proc.c`, `sysproc.c`, `swtch.S` | `ptable`, `c->proc`, kernel stacks, `nextpid` | allocproc, fork, exit, wait, kill, sleep, wakeup, yield, sched, scheduler, growproc |
| Traps, clock | `trap.c`, `trapasm.S`, `syscall.c` | `ticks`, the interrupt flag | trap, syscall |
| Spin locks | `spinlock.c` | `locked`, `cpu`, `ncli`, `intena` | acquire, release, pushcli, popcli |
| Sleep locks | `sleeplock.c` | `locked`, `pid` | acquiresleep, releasesleep |
| Disk driver | `ide.c` (`memide.c`) | `idequeue`, the controller | iderw, idestart, ideintr |
| Buffer cache | `bio.c` | buffers, LRU list | bget, bread, bwrite, brelse |
| Log | `log.c` | `log`, log blocks on disk | begin_op, log_write, end_op, commit, recovery |
| Inodes, directories | `fs.c` | `icache`, bitmap, inodes, directory blocks | balloc, bfree, ialloc, iget, ilock, iput, bmap, itrunc, readi, writei, dirlink |
| Files, descriptors | `file.c`, `sysfile.c` | `ftable`, `ofile` | filealloc, filedup, fileclose, and the file system calls |
| Pipes | `pipe.c` | a ring and two counters per pipe | pipealloc, pipewrite, piperead, pipeclose |
| Console | `console.c`, `kbd.c`, `uart.c` | the input ring | consoleintr, consoleread, consolewrite |
| Memory | `kalloc.c`, `vm.c`, `exec.c` | free list, page tables | kalloc, kfree, allocuvm, deallocuvm, copyuvm, exec |
| User allocator | `umalloc.c` | circular free list | malloc, free |
| File system builder | `mkfs.c` | the disk image | main, iappend, balloc |
| Shell | `sh.c` | a command tree, descriptors | parsecmd, nulterminate, runcmd |
| Other user programs | `init.c`, `grep.c`, `wc.c`, `ulib.c`, ... | - | callers of the kernel |
| Boot, interrupt controllers, libraries | `bootasm.S`, `main.c`, `lapic.c`, `string.c`, ... | - | run once, or stateless |
| Extensions | `extensions.c` | - | a stub that the Makefile does not build |

How they interact: a file system call brackets its work with begin_op and end_op; the log pins
buffers in the cache and commits them; the cache asks the disk driver, which sleeps until the
disk's interrupt; sleeping and waking go through the process table under `ptable.lock`; every
lock rests on `spinlock.c`. Spin locks nest: sleep and wakeup take `ptable.lock` under the caller's lock,
and wait frees memory, under `kmem.lock`, while it holds `ptable.lock`.

## Modules

| Module | Models | Promise it is shown to implement |
| --- | --- | --- |
| `Log` | `log.c`, and the cache as far as it is seen through bread | `AtomicDisk` |
| `Proc` | `proc.c`, the clock of `trap.c`, `sys_sleep` | - |
| `SpinLock` | `spinlock.c`, gates and iret, sched and scheduler as far as they touch the flag | - |
| `BufferCache` | `bio.c`, `sleeplock.c`, `ide.c` | `BlockStore` |
| `Pipe` | `pipe.c`, `fileclose` | `Fifo` |
| `Console` | consoleintr and consoleread of `console.c` | `LineInput` |
| `FileSystem` | inodes, directories, paths (`fs.c`), the file table (`file.c`), the calls of `sysfile.c`, and exec, fork and exit as far as they hold inodes and files | - |
| `Memory` | `kalloc.c`, `vm.c`, `exec.c`, and the memory of fork, sbrk, exit and wait | - |
| `FileData` | balloc, bmap, readi, writei, itrunc (`fs.c`), fileread and filewrite (`file.c`), `mkfs.c` | - |
| `Malloc` | `umalloc.c` | - |
| `Shell` | `sh.c` | the grammar, and what each process is meant to have open |
| `Routines` | skipelem and names (`fs.c`, `string.c`), arguments (`syscall.c`, sys_exec), numbers (`console.c`, `printf.c`, `ulib.c`), lines and patterns (`grep.c`, `wc.c`, gets) | a reference definition for each |
| `LogProofs`, `LogDiskProofs` | proofs about `Log` | - |
| `SpinLockProofs` | proofs about `SpinLock` | - |
| `ProcProofs` | proofs about `Proc` | - |
| `BufferCacheSteps`, `BufferCacheProofs` | proofs about `BufferCache` | - |
| `PipeProofs` | proofs about `Pipe` | - |
| `ConsoleProofs` | proofs about `Console` | - |

`MCx` instantiates module `x` for TLC; `MCSequential` instantiates the last five models together.
Definitions keep the names of the functions they model; an operator `Name_variant` with a comment
that starts with "Mutant" is a plausible bug: put in the place of `Name` it must make a property fail.

### Log

A step is one synchronous disk write or one section under `log.lock`. The disk is `home`
(the blocks of the file system), `logd` and `hdr` (the log); memory is `buf`, `dirty` and
`lh`, `outstanding`, `committing`. A call (`Call`, `begin_op`, `Modify`, `log_write`, `end_op`) writes
at most OPBLOCKS distinct blocks. `Modify` is bread, the change of the data and log_write's two
tests, which the code makes before it takes the lock; the rest of log_write is a step of its own.
The last `end_op` runs `commit`: `write_log` (one block a step), `write_head`, `install_trans` (one
block a step), `erase`, `committed`. `Crash` loses the memory at any step; `read_head`,
`RecoverInstall` and `RecoverErase` are initlog. `Fill` and `Recycle` are the cache at work for
others. A disk write of one block is taken to be atomic.

The refinement maps AtomicDisk's `stable` to what recovery would restore now, `current` to what
reads return. A commit is one step there, taken when no call is in progress.

### Proc

Slots 1..NPROC are the table; the first is init. `stack[c]` says on whose kernel stack CPU c runs,
`ctx` whether a process is running, inside sched, or switched out, and `why` where it returns to.
`ptlock` and `tklock` are held by CPUs, because swtch hands `ptable.lock` from a process to the
scheduler and back. fork is three steps (search under the lock, filling or failing without it,
RUNNABLE under it), exit two, wait one turn of its loop at a time. The clock interrupt is `Tick`
(ticks++ under tickslock), `TickWakeup` and `yield`, and comes whenever the CPU holds no spin lock.
init forks and waits. If it is killed, or a fork of its own fails (no slot, no memory), it exits, and exit's panic
is where it stays (`ForkFailed`); the properties are about everything else.

### SpinLock

acquire and release are split at each access to `locked` and `cpu`. A CPU runs its scheduler or a
thread; `frames` are the flag values a thread has to find again when a handler returns. `sched` and
`swtch` move threads between CPUs. A caller may take any lock it does not hold itself, so that a handler may ask for
the locks of the code it interrupted (`under`): that it never finds one is NoPanic. Nothing is assumed of the order in which
callers nest locks, and two CPUs may wait for each other for ever: that the kernel's callers keep to one order is not modelled.

### BufferCache

A step is one section under `bcache.lock`, a sleep lock's spin lock, or `idelock`. The end of a disk
request and its interrupt are one step. `log_write` stands for the log's pinning of a buffer. The
disk can fail reads of `BadBlocks`. A process has up to two buffers at a time, as bmap, itrunc, install_trans and
write_log do; `u = <<p, k>>` is process p with its k-th, and the second is asked for with the first in hand
(`Turn`: one call at a time). Blocks are taken in any order, so two processes may wait for each other's; bget's panic
has a label of its own, `"nobufs"`.

### Pipe and Console

The lock is explicit and held across steps of one byte, so that kill, which does not take it, can
come between the test of killed and sleep. In `Pipe` each process has one descriptor, and the
last close of a side goes on to pipeclose. In `Console` an interrupt delivers one character.

### FileSystem

A process is a thread with a stack of labels to return to, so that namex, ilock, iput and fileclose
are written once and called from everywhere. A step is what a process does with the inode locks it
holds between two points where it has to wait, or one section under `icache.lock` or
`ftable.lock`; iput is three steps (lock and test, free, drop), as in the code. `Menus` bounds
which calls are made: in every behaviour the processes draw their calls from one menu. `Crash`
takes the machine back to the disk as it was when no transaction was open, which is what Log's
refinement of AtomicDisk justifies.

### Memory, FileData, Malloc

In these three a call is one step: its only shared state is a free list or a bitmap with a lock of
its own (Memory, FileData), or it runs in one user process (Malloc). Their difficulty is in loops,
failures and arithmetic, so loops are recursive operators on a record that holds the state of the
call. In Memory any kalloc of a call may be the one that fails (`left`), which also stands for what
other processes hold. In FileData a block goes through bmap, the bitmap and the log as in the code,
with the set of blocks that a transaction logs; `want` is the history that reads are compared with.

### Shell and Routines

Pure functions. `Shell` parses a line into the tree of `sh.c`, computes the positions that
nulterminate overwrites, and runs runcmd to the set of processes it creates, each with its
descriptors; `IsLine` (a grammar) and `Meant` (what should be open where) are written
independently of the code. `Routines` has a reference for each function: `Elements` for skipelem,
`InLanguage` for grep's match, and so on.

## Runs

| Run | Instance | Distinct states | Shows |
| --- | --- | --- | --- |
| log_safety | 2 processes, 2 blocks, 2 writes a call, 2 crashes | 214,949 | NoPanic, UncommittedPinned, Log implements AtomicDisk |
| log_liveness | 3 processes, room for 2, 1 crash | 101,156 | SleeperWakes |
| proc_safety | 2 CPUs, 3 slots, kill of 0 and 2, ticks modulo 3 | 734,883 | StackExclusive, NoPanic, NoLostTick |
| proc_reap | 1 CPU, 4 slots, kill of 3 | 54,255 | NoLostExit, OrphanReaped, KilledExits |
| spinlock_safety | 2 CPUs, 2 threads, 2 locks | 129,663 | MutualExclusion, NoPanic, FlagRestored |
| buffer_safety | 2 processes with 2 buffers each, 4 blocks, 3 buffers, 1 pinned | 385,765 | NoPanic, DiskBusy, NoLostWakeup, BufferCache implements BlockStore |
| pipe_safety | 2 readers, 2 writers, 2 bytes, counters modulo 4 | 1,106,736 | NoLostWakeup, FreedLast, Pipe implements Fifo |
| console_input | 2 readers, ring of 3, indices modulo 6 | 646,806 | NeverStuck, NoLostWakeup, Console implements LineInput |
| fs_calls | 2 processes, 3 inodes, 2 names, 3 files, 2 descriptors each, crashes, 7 menus | 1,271,098 | NoPanic, RefCounts, LocksInOrder, Consistent, NoEntryLost |
| fs_deadlock | the calls of linkunlink in `usertests.c` | violation | finding 1 |
| fs_orphan | two closes of an unlinked file | violation | finding 2 |
| sequential | Memory, FileData and Malloc as state machines; every shell line of 5 characters, path of 7, pattern of 5, text of 7, pair of words | 111,235 | PagesAccounted, SizeMapped, NoPanic, FilesKept, WritesFit, HeapSound, LinesParsed, PipesPlumbed, PathsResolve, ArgumentsChecked, GrepFinds |

In `sequential` the variable `part` picks one of the sequential models in the initial state; a
property speaks about its part only.

**Why the bounds are enough for the cases of interest.** Log: two calls share a transaction, absorb
each other's block, and a second crash falls into the recovery from the first. Proc: two CPUs are
needed for a stack race and for a tick beside a process that goes to sleep; four slots for an orphan whose
parent's parent is not init (a preemption can come between any two locked sections, so one CPU is
enough there). SpinLock: two threads migrate over two CPUs, with
a handler nested in each. BufferCache: four blocks on three buffers make recycling happen while
somebody waits; with one pinned by the log and two in the hands of a process, bget finds none. Pipe and Console: the counters wrap several times and calls are longer
than the ring. FileSystem: two processes meet in every pair of calls of a menu, the inode cache and the
file table can be full, and each menu has a failing call; three inodes give a directory inside the
root with something in it, and one inside that. Memory: pages of six words and three page tables, so that sizes end inside
a page, at its end, at the end of a page table and beyond KERNBASE, with 20 pages, too few for two
large processes. FileData: one direct and two indirect blocks on a disk that fills up. Malloc:
several fragments to merge in every order. Shell and Routines: a line of five characters nests a
pipe or a redirection in a block, a path of seven has elements shorter than, equal to and longer than DIRSIZ.
`Menus`, `Execs`, `Grows`, `Counts`, `MkSizes`, `Requests`, `MAXPID`, `CALLS`, `OPWRITES`, `MAXCRASH`, `MAXPIN`, `Lens`, `KillArgs` and `SleepArgs`
only bound the exploration; `TICKMOD` and `UINT` stand for 2^32.

**Deadlock** is checked except in the runs of Pipe, where every process may have closed its end, of
BufferCache, where every process may have made its CALLS, of SpinLock, where callers may nest
locks in any order, of FileSystem, where finding 1 is a deadlock (LocksInOrder says where a circle of inode locks can begin:
in iput under another inode's lock, by create, sys_unlink or dirlink, and nowhere else), and in sequential, where arguments end at
their longest.

**Fairness** is assumed in log_liveness (a process that is not asleep goes on, which is what the
scheduler's round over the table gives it) and in proc_reap: every CPU and its clock go
on, a CPU that spins on a lock that keeps becoming free gets it some time (strong fairness; xchg gives
no order, so this is a property of the memory system, not of the code), and a process executes
something between two clock interrupts. Nothing is assumed of user programs, except that init
keeps calling wait (`InitSpec`). That sleepers of the other modules are woken is stated without fairness, as
an invariant: nobody is asleep once what it waits for has happened (`NoLostWakeup`, `NoLostExit`, `NoLostTick`).

## Findings

1. `fs_deadlock`. create and sys_unlink call iunlockput on a directory while they hold the lock of an
   inode in it (`sysfile.c:280`, `sysfile.c:225`). iput takes the directory's lock again
   (`fs.c:334`), now after the inode's; an unlink that has taken the directory in between and found
   the same inode waits for it in ilock. Both wait for ever. The calls are those of linkunlink in
   `usertests.c`, which is there "to look for deadlocks".
2. `fs_orphan`. iput reads `ref` under `icache.lock`, and decrements it in a later section
   (`fs.c:336-351`). Two processes that drop the last two references to an unlinked inode each see
   the other's, and neither frees it: its inode and blocks stay allocated with no name.

Behaviours that no text of the repository excludes, or that only other sizes reach:

- begin_op reserves up to LOGSIZE blocks (`log.c:132`), log_write panics at `log.size - 1`
  (`log.c:218`), and mkfs makes `log.size` equal to LOGSIZE, header included (`mkfs.c:25`): three calls
  that used their whole reservation would panic. WritesFit bounds what filewrite uses; `Fits` below is
  the condition under which there is no panic.
- kill(0) finds an UNUSED slot, sets its `killed`, and the next process made there is born killed
  (`proc.c:486`; proc_safety contains it).
- After a failed read ideintr marks the buffer B_VALID with whatever data it had (`ide.c:118`;
  BufferCache has it as `BadBlocks`, which buffer_safety leaves empty).
- A writer that fills a pipe and is then found killed returns without waking the readers
  (`pipe.c:86`; NoLostWakeup of Pipe carries the exception).
- A kill between the test of killed and sleep leaves its victim asleep until the next wakeup of the
  channel (`pipe.c:107`, `console.c:246`).
- dirlink calls iput on the inode of an existing name while the directory is locked (`fs.c:559-560`).
  For link to `d/.` that is the lock the process holds, for `d/..` one taken against the order (fs_calls contains both, and
  LocksInOrder excepts them).
- A process in a removed directory can create names in it; they have a link and no path to it
  (`lost` in FileSystem, which Consistent excepts). `..` of a removed directory may name an inode that has been freed, and
  looking it up panics in ilock (`fs.c:309`); fs_calls contains it, and NoPanic excepts such an inode (`dangling`), and the
  panics for want of an inode on the disk or in the cache.
- A fork of init's that fails makes init exit, which panics (`init.c:25-28`, `proc.c:234`).
- exec with a string longer than the addresses from DEVSPACE up (32 MB) moves its stack pointer round the end of the
  address space, into the part of the kernel's half that kmap leaves out, where uva2ka finds no page table; NoPanic of Memory
  excepts it.
- bget panics when every buffer is in hand or pinned. NBUF = LOGSIZE = 30 does not exclude it; it takes calls that fill
  the log with 30 different blocks, or that many processes in the file system.
- A crash leaves an unlinked open file's inode allocated, and nothing looks for it at boot.
- mkfs rounds the size of a root directory that ends at a block up by a whole block (`RootNotFull`).
- grep drops a partial line when after a read its buffer has no newline. Lines as long as the buffer are lost, and shorter ones
  whenever a read is short; a last line without a newline is not looked at. GrepFinds: whatever the sizes of the reads, what grep
  prints are matching ends of lines, in order; it is all the matching lines if no line fills the buffer or is longer than a read.

## Proofs

TLC checks the instances above; TLAPS proves the following for every value of the constants that the
named assumptions of the modules allow.

| Module | Theorem | States |
| --- | --- | --- |
| `LogProofs` | `TypeCorrect` | `Fits /\ Spec => []TypeOK`: among others, `log.lh` never outgrows its array |
| `LogProofs` | `PanicFree` | `Fits /\ Spec => []NoPanic` |
| `LogDiskProofs` | `UncommittedStaysPinned` | `Fits /\ Spec => []UncommittedPinned` |
| `LogDiskProofs` | `LogIsAtomic` | `Fits /\ Spec => RefinesAtomicDisk` |
| `SpinLockProofs` | `SpinMutualExclusion`, `SpinNoPanic`, `SpinFlagRestored` | `Spec => []` of each property of spinlock_safety |
| `ProcProofs` | `ProcStackExclusive`, `ProcNoPanic`, `ProcNoLostExit`, `ProcNoLostTick` | `Spec => []` of StackExclusive, NoPanic, NoLostExit, NoLostTick |
| `BufferCacheProofs` | `BufferNoPanic`, `BufferDiskBusy`, `BufferNoLostWakeup` | `Spec => []` of each invariant of buffer_safety |
| `BufferCacheProofs` | `BufferIsStore` | `NoErrors /\ Spec => RefinesBlockStore` |
| `PipeProofs` | `PipeFreedLast`, `PipeNoLostWakeup` | `BothSides /\ Spec => []FreedLast`, `BothSides /\ Spec => []NoLostWakeup` |
| `PipeProofs` | `PipeIsFifo` | `BothSides /\ Spec => RefinesFifo` |
| `ConsoleProofs` | `ConsoleNeverStuck`, `ConsoleNoLostWakeup` | `Spec => []` of NeverStuck, NoLostWakeup |
| `ConsoleProofs` | `ConsoleIsLineInput` | `Spec => RefinesLineInput`, the action property EofIsZero included |

Together these are all the safety properties of the runs log_safety, proc_safety, proc_reap,
spinlock_safety, buffer_safety, pipe_safety and console_input.

### The log

The assumptions are `LogAssumption` (sizes are natural numbers, the sets are finite, MAXOPBLOCKS > 0,
OPBLOCKS <= MAXOPBLOCKS) and `Fits`: a call leaves one block of its reservation unused, and two when the
on-disk log has only LOGSIZE blocks. The first of the behaviours above shows that something of the kind is
needed. The kernel satisfies it: OPBLOCKS 7, MAXOPBLOCKS 10, LOGSIZE = NLOG = 30.

NoPanic is not inductive: that log_write finds room depends on what begin_op has promised to all the
calls in progress. The invariant `CInv` makes the promise explicit: `Reserved` is a set of tokens,
MAXOPBLOCKS for each call in progress less one for each of its blocks that is already in the log, and
`Counts` says that the length of the log plus the number of tokens is at most LOGSIZE. begin_op adds
MAXOPBLOCKS tokens and has tested that they fit (`BeginOpCounts`); a log_write that appends uses up at
least one (`LogWriteCounts`, by `FewerTokens`); one that absorbs appends nothing; end_op gives tokens
back. `Unused` and `LhFits` turn this into room when log_write makes its unlocked test; `Control`
says that a commit never overlaps a call, and `Locked` that a buffer is in one call's hands.

`DInv` adds the contents of the disk: the blocks of a header are distinct, and the header is empty except
while its blocks are installed (`Header`); a read differs from the home block only while the buffer is pinned
(`Pinned`); write_log and install_trans have copied the blocks below `tail` (`LogCopied`, `HomeCopied`).
For the refinement every step is shown to be a step of AtomicDisk or none (`StepMaps`). The header write is
the commit: its blocks have been copied from what reads return, and every other block is home, because no
call is in progress (`HeadRecovered`). The copies before it are invisible because the header is empty
(`WriteLogRecovered`), those after it because recovery would make them too (`InstallRecovered`), and the
header is erased when nothing depends on it (`EraseRecovered`), in a commit and in a recovery alike. A
crash at any of these steps leaves `stable` as it is.

### Spin locks

From `SpinAssumption` (finitely many locks, CPUs and threads apart). The invariant has
three parts. `Owned`: a taken lock has one taker, and `lk->cpu` names a CPU exactly from the end of its
acquire to the start of its release, which is why holding is right about the CPU that asks. `Masked`:
`ncli` is the number of locks the CPU holds plus an acquire or release in progress, and the interrupt flag
is off when it is not 0; so popcli and sched never panic. `Flags`: the flag that a thread has to find
again is in FL_IF, in `intena` while `ncli` is not 0, or in sched's local variable while the thread is
switched out. A handler is entered with the flag on, so its CPU held no lock and `under` is empty (`Types`): whatever it
acquires is not held below it.

### Processes

From `ProcAssumption` (at least one slot, natural numbers for the bounds, None neither a CPU nor a number). The properties are
about different things, and each needs the others' grounds, so there is one invariant, `IInv`, with a lemma for
each action. `OnCpu`: a process is on at most one CPU, and whenever its state and where it runs disagree,
between the change of state and swtch, that CPU holds `ptable.lock`. `Saved`: a process in use that is on
no CPU has its context saved and its stack allocated; only a zombie's context is in exit. `Slots`: a slot
that fork is filling belongs to that fork alone, and is out of reach of scheduler, wait and kill. `Ticks`:
`tickslock` is held by the clock's handler or by a process between its test of the time and sleep, so
no tick falls between the two. `InitRuns`: init is never a zombie, whoever kills it, since exit panics first.
ProcStackExclusive follows from OnCpu and Saved.

`WaitSleepers` strengthens NoLostExit to any parent asleep in wait, with its channel. In exit, the step that makes
zombies and hands children to init, the property holds only because init has no parent and nobody is its
own: init and the parent are then not the process that is leaving. Both are conjuncts of the
invariant. `TickSleepers` strengthens NoLostTick to the process about to sleep, and lets the time be up between
`Tick` and `TickWakeup`. ProcNoPanic follows
from OnCpu, Saved and Ticks; "init exiting" is not part of NoPanic.

### The buffer cache

From `BufferAssumption` (sizes are natural numbers, finitely many processes, values outside their sets), for
every NBUF, too small ones included. `Owner` says who holds a buffer's sleep lock, and that nobody sleeps for a free one;
`Placed` that a block is in one buffer, and keeps it as long as someone uses it, which is what bget relies on when it
waits for the sleep lock without `bcache.lock`; `Queued` that `idequeue` holds the buffers that processes
wait for in iderw, each once. These are shown step by step in `BufferCacheSteps`, as is the
step of BlockStore that each step is. `BufferCacheProofs` does the counting: `Counted` (refcnt is the
number of users) and `Pins` (B_DIRTY buffers that are not being written are at most MAXPIN); when bget
finds no buffer, the used and the pinned ones are therefore at least NBUF (`BufferLeft`); its panic is a step that keeps the invariant. For the refinement `Clean` says that a valid
buffer that is not dirty is what the disk has, so that dropping it loses nothing. It holds on a disk that
reports no read errors (`NoErrors`); ideintr marks the buffer valid after one.

### Pipes

From `PipeAssumption` (the sides are disjoint, sizes are natural numbers, PIPESIZE divides UINT) and `BothSides`:
each side starts with a process, as pipealloc leaves it. `Holder` ties `p->lock` to the process in the loops or on
its way to sleep. `Closing` orders the closes of a side: when one is in pipeclose the others have closed,
and `readopen` and `writeopen` say whether the side's pipeclose is still to come. `Freeing` follows: the second
pipeclose finds both flags down, and is alone. `Waiting` strengthens NoLostWakeup to the process that has
decided to sleep and still holds the lock, and to readers that have read something, since a reader that
waits in its first round wakes nobody. PipeNoLostWakeup has the exception of the property.

PipeIsFifo rests on `Counters`: the counters are uints, and at most PIPESIZE apart as uints. Its arithmetic is in
lemmas about quotient and remainder: the wrap of a counter does not move its place in the ring, because
PIPESIZE divides 2^32 (`Wrap`), and counts less than PIPESIZE apart have different places (`Apart`), so that
a byte written changes no byte that is still to be read (`PutMaps`), and one read is the oldest (`GetMaps`).

### The console

From `ConsoleAssumption`, where INPUT_BUF divides UINT. `Reading` ties `cons.lock` to the reader in its loop and says
that a reader about to sleep has nothing to read; NoLostWakeup is part of it. `Indices` has NeverStuck, the order of
`r`, `w` and `e` around the ring: it is inductive because consoleintr completes a line when the ring is full.
`OneLine` says that the part being edited holds no newline, which is why kill-line stops at `w` and nowhere before.
The lemmas of the ring are those of the pipe, for two stretches of it, the lines complete and the one being edited: a key
extends the second, backspace and kill-line shorten it, a newline or a full ring joins it to the first (`TypeExtends`,
`BackspaceMaps`, `KillLineMaps`, `TypeCompletes`), and a reader takes from the front (`GetMaps`).

### Only model-checked

- Liveness (SleeperWakes, OrphanReaped, KilledExits), which is out of the prover's reach; what the proofs give of it is
  the invariants that no wakeup is lost.
- FileSystem: a theorem would need the invariant of all the calls and their stacks of labels.
- What recursive operators compute (Memory, FileData, Malloc, Shell, Routines), which takes induction over data.

## Not modelled

- Boot code, interrupt controllers and multiprocessor tables: they run once, or their effect is that an
  interrupt arrives, which is an action of the modules that handle it.
- The memory disk, a synchronous copy that replaces `ide.c` in one build.
- Console output and panic, the serial port and the decoding of scan codes: device registers.
- Segment registers and cr3 (seginit, switchuvm); the system call and trap dispatch tables.
- Failures of fork and pipe in the shell, its prompt and cd; the one-call user programs; the test
  programs, whose mixes of calls are in the menus of MCFileSystem.
- The extensions stub, which nothing builds.
- Composition stops at refinement: FileSystem rests on AtomicDisk and on atomic sleep locks, which Log
  and BufferCache are shown to give, and is not run on top of them, because the product is out of TLC's reach.
