-------------------------------- MODULE Proc --------------------------------
(***************************************************************************)
(* The process table (proc.c) with the paths of trap.c and sysproc.c that  *)
(* drive it: fork, exit, wait, kill, sleep and wakeup, the per-CPU         *)
(* scheduler, and the clock interrupt that preempts processes and wakes    *)
(* the sleepers of sys_sleep.                                              *)
(*                                                                         *)
(* ptable.lock is explicit because swtch hands it from a process to the    *)
(* scheduler and back: a CPU, not a process, holds it.  A section that     *)
(* takes and releases it without switching is one step.  What the kernel   *)
(* does outside any lock (the middle of fork, the file closing in exit) is *)
(* a step of its own and can be preempted.                                 *)
(***************************************************************************)
EXTENDS Integers, FiniteSets

CONSTANTS
  CPUs,
  Cpu0,        \* the CPU whose timer interrupt advances ticks
  NPROC,
  MAXPID,      \* bound: pids handed out
  TICKMOD,     \* ticks is a uint: 2^32 in the code
  KillArgs,    \* arguments given to kill
  SleepArgs,   \* arguments given to sleep
  None         \* no CPU, no process: a null pointer

ASSUME ProcAssumption ==
  /\ Cpu0 \in CPUs
  /\ NPROC \in Nat \ {0}
  /\ {MAXPID, TICKMOD} \subseteq Nat
  /\ None \notin CPUs \cup Int

Procs == 1..NPROC
initproc == 1
TicksChan == 0   \* &ticks; wait sleeps on the process itself

VARIABLES
  state, pid, parent, chan, killed,  \* the fields of struct proc
  kstack,      \* processes that own a kernel stack
  nextpid,
  ptlock,      \* the CPU holding ptable.lock
  tklock,      \* the CPU holding tickslock
  ticks,
  cproc,       \* c->proc
  stack,       \* whose kernel stack a CPU runs on; None: the scheduler's
  idx,         \* the scheduler's loop variable
  intr,        \* where a CPU is in the clock interrupt's handler
  pc,          \* where a process is, once it returns from sched
  ctx,         \* "sched": inside sched; "off": switched out; "on"
  why,         \* who called sched, or forkret
  np,          \* fork's new process
  tsl          \* sys_sleep's n and ticks0

table == <<state, pid, parent, chan, killed, kstack, nextpid>>
clock == <<tklock, ticks, intr>>
cpuv == <<cproc, stack, idx>>
local == <<pc, ctx, why, np, tsl>>
vars == <<state, pid, parent, chan, killed, kstack, nextpid, ptlock, tklock,
          ticks, cproc, stack, idx, intr, pc, ctx, why, np, tsl>>

States == {"UNUSED", "EMBRYO", "SLEEPING", "RUNNABLE", "RUNNING", "ZOMBIE"}

(* The slot at which a loop over the table finds a member of S; no slot when *)
(* S is empty.                                                               *)
First(S) == {i \in S : \A j \in S : i <= j}
Update(f, S, v) == [x \in DOMAIN f |-> IF x \in S THEN v ELSE f[x]]

(* userinit has made the first process; every CPU enters scheduler. *)
Init ==
  /\ state = [p \in Procs |-> IF p = initproc THEN "RUNNABLE" ELSE "UNUSED"]
  /\ pid = [p \in Procs |-> IF p = initproc THEN 1 ELSE 0]
  /\ parent = [p \in Procs |-> None]
  /\ chan = [p \in Procs |-> None]
  /\ killed = [p \in Procs |-> FALSE]
  /\ kstack = {initproc}
  /\ nextpid = 2
  /\ ptlock = None
  /\ tklock = None
  /\ ticks = 0
  /\ cproc = [c \in CPUs |-> None]
  /\ stack = [c \in CPUs |-> None]
  /\ idx = [c \in CPUs |-> 1]
  /\ intr = [c \in CPUs |-> "no"]
  /\ pc = [p \in Procs |-> "user"]
  /\ ctx = [p \in Procs |-> "off"]
  /\ why = [p \in Procs |-> "forkret"]
  /\ np = [p \in Procs |-> None]
  /\ tsl = [p \in Procs |-> <<0, 0>>]

(* Process p executes on CPU c, outside the interrupt handler. *)
Runs(c, p) ==
  /\ stack[c] = p
  /\ ctx[p] = "on"
  /\ intr[c] = "no"

(* p is in user space and enters the kernel; a killed process exits first. *)
Syscall(c, p) == Runs(c, p) /\ pc[p] = "user" /\ ~killed[p]

(* Where trap goes after a system call. *)
UserRet(p) == IF killed'[p] THEN "exit" ELSE "user"

-----------------------------------------------------------------------------
(* The scheduler and sched. *)

(* scheduler takes ptable.lock for one pass over the table, from idx = 1. *)
SchedulerPass(c) ==
  /\ stack[c] = None /\ intr[c] = "no"
  /\ ptlock = None
  /\ ptlock' = c
  /\ UNCHANGED <<table, clock, cpuv, local>>

(* The next RUNNABLE process from idx on, with swtch to it; or the end of *)
(* the pass.                                                              *)
scheduler(c) ==
  LET R == {q \in Procs : q >= idx[c] /\ state[q] = "RUNNABLE"} IN
    /\ stack[c] = None /\ ptlock = c
    /\ \/ \E q \in First(R) :
          /\ cproc' = [cproc EXCEPT ![c] = q]
          /\ state' = [state EXCEPT ![q] = "RUNNING"]
          /\ stack' = [stack EXCEPT ![c] = q]
          /\ idx' = [idx EXCEPT ![c] = q]
          /\ UNCHANGED ptlock
       \/ /\ R = {}
          /\ ptlock' = None
          /\ idx' = [idx EXCEPT ![c] = 1]
          /\ UNCHANGED <<state, cproc, stack>>
    /\ UNCHANGED <<pid, parent, chan, killed, kstack, nextpid, clock, local>>

(* The for loop of scheduler goes on after the process it ran. *)
NextSlot(i) == i + 1

ClearProc(c) == cproc' = [cproc EXCEPT ![c] = None]

(* sched's swtch back to the scheduler, which clears c->proc and goes on. *)
sched(c) ==
  LET p == stack[c] IN
    /\ p # None /\ ctx[p] = "sched"
    /\ ctx' = [ctx EXCEPT ![p] = "off"]
    /\ stack' = [stack EXCEPT ![c] = None]
    /\ ClearProc(c)
    /\ idx' = [idx EXCEPT ![c] = NextSlot(@)]
    /\ UNCHANGED <<table, ptlock, clock, pc, why, np, tsl>>

(* Mutant: ptable.lock is released before swtch. *)
EnterSched_unlocked(c, p, w) ==
  /\ ptlock' = None
  /\ ctx' = [ctx EXCEPT ![p] = "sched"]
  /\ why' = [why EXCEPT ![p] = w]

(* p, on CPU c and holding ptable.lock, sets its state and calls sched. *)
EnterSched(c, p, w) ==
  /\ ptlock' = c
  /\ ctx' = [ctx EXCEPT ![p] = "sched"]
  /\ why' = [why EXCEPT ![p] = w]

(* yield's return from sched; trap then looks at killed. *)
YieldReturn(c, p) ==
  /\ why[p] = "yield"
  /\ pc' = [pc EXCEPT ![p] = IF @ = "user" /\ killed[p] THEN "exit" ELSE @]
  /\ UNCHANGED chan

forkret(c, p) ==
  /\ why[p] = "forkret"
  /\ UNCHANGED <<pc, chan>>

(* sleep's return on &ticks: sys_sleep reacquires tickslock at pc "ticks". *)
SleepReturn(c, p) ==
  /\ why[p] = "sleep"
  /\ chan' = [chan EXCEPT ![p] = None]
  /\ UNCHANGED pc

(* The scheduler has switched to p, which leaves sched and releases        *)
(* ptable.lock.                                                            *)
Resume(c) ==
  LET p == stack[c] IN
    /\ p # None /\ ctx[p] = "off"
    /\ YieldReturn(c, p) \/ forkret(c, p) \/ SleepReturn(c, p)
    /\ ctx' = [ctx EXCEPT ![p] = "on"]
    /\ ptlock' = None
    /\ UNCHANGED <<state, pid, parent, killed, kstack, nextpid, clock, cpuv, why, np, tsl>>

-----------------------------------------------------------------------------
(* fork *)

Unused == {q \in Procs : state[q] = "UNUSED"}

(* p->pid = nextpid++ *)
TakePid(q) == pid' = [pid EXCEPT ![q] = nextpid] /\ nextpid' = nextpid + 1

(* allocproc's search, under ptable.lock. *)
allocproc(c, p) ==
  /\ Syscall(c, p)
  /\ ptlock = None
  /\ nextpid <= MAXPID
  /\ \E q \in First(Unused) :
       /\ state' = [state EXCEPT ![q] = "EMBRYO"]
       /\ TakePid(q)
       /\ np' = [np EXCEPT ![p] = q]
  /\ pc' = [pc EXCEPT ![p] = "fork"]
  /\ UNCHANGED <<parent, chan, killed, kstack, ptlock, clock, cpuv, ctx, why, tsl>>

(* Where a fork that failed goes on: init.c then calls exit, whose panic    *)
(* ("init exiting") it never leaves.                                        *)
ForkFailed(p) == IF p = initproc THEN "exit" ELSE UserRet(p)

(* allocproc finds no UNUSED slot. *)
NoSlot(c, p) ==
  /\ Syscall(c, p)
  /\ ptlock = None
  /\ Unused = {}
  /\ UNCHANGED <<table, ptlock, clock, cpuv, ctx, why, np, tsl>>
  /\ pc' = [pc EXCEPT ![p] = ForkFailed(p)]

(* The kernel stack and the copied memory, without a lock. *)
ForkFill(c, p) ==
  LET q == np[p] IN
    /\ Runs(c, p)
    /\ pc[p] = "fork" /\ q \notin kstack
    /\ kstack' = kstack \cup {q}
    /\ parent' = [parent EXCEPT ![q] = p]
    /\ ctx' = [ctx EXCEPT ![q] = "off"]
    /\ why' = [why EXCEPT ![q] = "forkret"]
    /\ pc' = [pc EXCEPT ![q] = "user"]
    /\ UNCHANGED <<state, pid, chan, killed, nextpid, ptlock, clock, cpuv, np, tsl>>

(* kalloc or copyuvm fails: the slot is given up, still without a lock. *)
ForkFail(c, p) ==
  /\ Runs(c, p)
  /\ pc[p] = "fork" /\ np[p] \notin kstack
  /\ state' = [state EXCEPT ![np[p]] = "UNUSED"]
  /\ np' = [np EXCEPT ![p] = None]
  /\ UNCHANGED <<pid, parent, chan, killed, kstack, nextpid, ptlock, clock, cpuv,
                 ctx, why, tsl>>
  /\ pc' = [pc EXCEPT ![p] = ForkFailed(p)]

(* np->state = RUNNABLE under ptable.lock, and the return to user space. *)
fork(c, p) ==
  LET q == np[p] IN
    /\ Runs(c, p)
    /\ pc[p] = "fork" /\ q \in kstack
    /\ ptlock = None
    /\ state' = [state EXCEPT ![q] = "RUNNABLE"]
    /\ np' = [np EXCEPT ![p] = None]
    /\ UNCHANGED <<pid, parent, chan, killed, kstack, nextpid, ptlock, clock, cpuv,
                   ctx, why, tsl>>
    /\ pc' = [pc EXCEPT ![p] = UserRet(p)]

-----------------------------------------------------------------------------
(* sleep, wakeup, wait, exit, kill *)

wakeup1(s, ch) ==
  [q \in Procs |-> IF s[q] = "SLEEPING" /\ chan[q] = ch THEN "RUNNABLE" ELSE s[q]]

Children(p) == {q \in Procs : parent[q] = p}
Zombies(p) == {q \in Children(p) : state[q] = "ZOMBIE"}

(* wait frees the first zombie child of the table. *)
Reap(p) ==
  \E q \in First(Zombies(p)) :
    /\ state' = [state EXCEPT ![q] = "UNUSED"]
    /\ pid' = [pid EXCEPT ![q] = 0]
    /\ parent' = [parent EXCEPT ![q] = None]
    /\ killed' = [killed EXCEPT ![q] = FALSE]
    /\ kstack' = kstack \ {q}

(* One turn of wait's loop, ptable.lock held by c since now or since the    *)
(* process was switched to.                                                 *)
WaitScan(c, p) ==
  \/ /\ \/ Reap(p)
        \/ /\ Zombies(p) = {}
           /\ Children(p) = {} \/ killed[p]
           /\ UNCHANGED <<state, pid, parent, killed, kstack>>
     /\ chan' = [chan EXCEPT ![p] = None]
     /\ ptlock' = None
     /\ ctx' = [ctx EXCEPT ![p] = "on"]
     /\ UNCHANGED why
     /\ pc' = [pc EXCEPT ![p] = UserRet(p)]
  \/ /\ Zombies(p) = {} /\ Children(p) # {} /\ ~killed[p]
     /\ chan' = [chan EXCEPT ![p] = p]
     /\ state' = [state EXCEPT ![p] = "SLEEPING"]
     /\ EnterSched(c, p, "wait")
     /\ UNCHANGED <<pid, parent, killed, kstack, pc>>

wait(c, p) ==
  /\ Syscall(c, p)
  /\ ptlock = None
  /\ WaitScan(c, p)
  /\ UNCHANGED <<nextpid, clock, cpuv, np, tsl>>

WaitResume(c) ==
  LET p == stack[c] IN
    /\ p # None /\ ctx[p] = "off" /\ why[p] = "wait"
    /\ WaitScan(c, p)
    /\ UNCHANGED <<nextpid, clock, cpuv, np, tsl>>

(* A process leaves user space to exit: by the system call, by a fault, or *)
(* because trap finds it killed.  exit then closes its files.  init calls  *)
(* exit where its fork fails, and nowhere else (ForkFailed).               *)
StartExit(c, p) ==
  /\ Runs(c, p)
  /\ pc[p] = "user"
  /\ p # initproc \/ killed[p]
  /\ pc' = [pc EXCEPT ![p] = "exit"]
  /\ UNCHANGED <<table, ptlock, clock, cpuv, ctx, why, np, tsl>>

(* Mutant: only children that have not exited are passed to init. *)
Abandoned_live(p) == Children(p) \ Zombies(p)

(* The children exit passes to init. *)
Abandoned(p) == Children(p)

(* Mutant: init is not told of the zombies it inherits. *)
WakeInit_no(s, p) == s

WakeInit(s, p) == IF Zombies(p) # {} THEN wakeup1(s, initproc) ELSE s

(* The rest of exit under ptable.lock. *)
exit(c, p) ==
  /\ Runs(c, p)
  /\ pc[p] = "exit" /\ p # initproc
  /\ ptlock = None
  /\ parent' = Update(parent, Abandoned(p), initproc)
  /\ state' = [WakeInit(wakeup1(state, parent[p]), p) EXCEPT ![p] = "ZOMBIE"]
  /\ EnterSched(c, p, "exit")
  /\ UNCHANGED <<pid, chan, killed, kstack, nextpid, clock, cpuv, pc, np, tsl>>

(* Mutant: kill does not wake its victim. *)
KillWake_no(q) == state

KillWake(q) == IF state[q] = "SLEEPING" THEN [state EXCEPT ![q] = "RUNNABLE"] ELSE state

(* kill marks the first slot of the table with this pid, in whatever state. *)
kill(c, p, n) ==
  /\ Syscall(c, p)
  /\ ptlock = None
  /\ \E q \in First({r \in Procs : pid[r] = n}) :
       /\ killed' = [killed EXCEPT ![q] = TRUE]
       /\ state' = KillWake(q)
  /\ UNCHANGED <<pid, parent, chan, kstack, nextpid, ptlock, clock, cpuv, ctx, why,
                 np, tsl>>
  /\ pc' = [pc EXCEPT ![p] = UserRet(p)]

-----------------------------------------------------------------------------
(* The clock *)

Elapsed(p) == (ticks - tsl[p][2]) % TICKMOD >= tsl[p][1]

(* sys_sleep reads ticks under tickslock. *)
sys_sleep(c, p, n) ==
  /\ Syscall(c, p)
  /\ tklock = None
  /\ tsl' = [tsl EXCEPT ![p] = <<n, ticks>>]
  /\ pc' = [pc EXCEPT ![p] = "ticks"]
  /\ UNCHANGED <<table, ptlock, clock, cpuv, ctx, why, np>>

(* Mutant: tickslock is released before sleep has ptable.lock. *)
KeepTicksLock_no(c) == UNCHANGED tklock

(* sys_sleep calls sleep with tickslock held. *)
KeepTicksLock(c) == tklock' = c

(* The test of sys_sleep's loop, with tickslock held; on the way to sleep   *)
(* it stays held (pc "tsleep") until sleep has ptable.lock.                 *)
TicksTest(c, p) ==
  /\ Runs(c, p)
  /\ pc[p] = "ticks"
  /\ tklock = None
  /\ \/ /\ Elapsed(p) \/ killed[p]
        /\ UNCHANGED tklock
        /\ pc' = [pc EXCEPT ![p] = IF killed[p] THEN "exit" ELSE "user"]
        /\ tsl' = [tsl EXCEPT ![p] = <<0, 0>>]
     \/ /\ ~Elapsed(p) /\ ~killed[p]
        /\ KeepTicksLock(c)
        /\ pc' = [pc EXCEPT ![p] = "tsleep"]
        /\ UNCHANGED tsl
  /\ UNCHANGED <<table, ptlock, ticks, intr, cpuv, ctx, why, np>>

(* Mutant: sleep keeps lk. *)
ReleaseLk_no == UNCHANGED tklock

ReleaseLk == tklock' = None

(* sleep(&ticks, &tickslock): ptable.lock first, only then tickslock goes. *)
sleep(c, p) ==
  /\ Runs(c, p)
  /\ pc[p] = "tsleep"
  /\ ptlock = None
  /\ ReleaseLk
  /\ chan' = [chan EXCEPT ![p] = TicksChan]
  /\ state' = [state EXCEPT ![p] = "SLEEPING"]
  /\ EnterSched(c, p, "sleep")
  /\ pc' = [pc EXCEPT ![p] = "ticks"]
  /\ UNCHANGED <<pid, parent, killed, kstack, nextpid, ticks, intr, cpuv, np, tsl>>

(* CPU c holds no spinlock, so interrupts are enabled. *)
Interruptible(c) ==
  /\ intr[c] = "no"
  /\ ptlock # c /\ tklock # c

(* The clock interrupt on the first CPU: ticks++ under tickslock ... *)
Tick(c) ==
  /\ c = Cpu0
  /\ Interruptible(c)
  /\ tklock = None
  /\ tklock' = c
  /\ ticks' = (ticks + 1) % TICKMOD
  /\ intr' = [intr EXCEPT ![c] = "wakeup"]
  /\ UNCHANGED <<table, ptlock, cpuv, local>>

(* ... and wakeup(&ticks); then the rest of trap, if a process is running. *)
TickWakeup(c) ==
  /\ intr[c] = "wakeup"
  /\ ptlock = None
  /\ state' = wakeup1(state, TicksChan)
  /\ tklock' = None
  /\ intr' = [intr EXCEPT ![c] = IF cproc[c] = None THEN "no" ELSE "yield"]
  /\ UNCHANGED <<pid, parent, chan, killed, kstack, nextpid, ptlock, ticks, cpuv, local>>

(* The end of trap on a clock interrupt: exit if killed in user space, else *)
(* yield.  On the other CPUs this is all the interrupt does.                *)
yield(c) ==
  LET p == cproc[c] IN
    /\ p # None /\ state[p] = "RUNNING"
    /\ \/ intr[c] = "yield"
       \/ c # Cpu0 /\ Interruptible(c)
    /\ \/ /\ killed[p] /\ pc[p] = "user"
          /\ pc' = [pc EXCEPT ![p] = "exit"]
          /\ UNCHANGED <<state, ptlock, ctx, why>>
       \/ /\ ~(killed[p] /\ pc[p] = "user")
          /\ ptlock = None
          /\ state' = [state EXCEPT ![p] = "RUNNABLE"]
          /\ EnterSched(c, p, "yield")
          /\ UNCHANGED pc
    /\ intr' = [intr EXCEPT ![c] = "no"]
    /\ UNCHANGED <<pid, parent, chan, killed, kstack, nextpid, tklock, ticks, cpuv, np,
                   tsl>>

-----------------------------------------------------------------------------
Switching(c) ==
  SchedulerPass(c) \/ scheduler(c) \/ sched(c) \/ Resume(c) \/ WaitResume(c)

Clock(c) == Tick(c) \/ TickWakeup(c) \/ yield(c)

(* Kernel code of process p that runs once p has entered it. *)
InKernel(c, p) ==
  \/ ForkFill(c, p) \/ ForkFail(c, p) \/ fork(c, p)
  \/ exit(c, p)
  \/ TicksTest(c, p) \/ sleep(c, p)

(* What the user code of process p may choose to do.  The first process     *)
(* runs init.c, whose loop forks and waits; here it does so in any order.   *)
User(c, p) ==
  \/ allocproc(c, p) \/ NoSlot(c, p) \/ wait(c, p)
  \/ /\ p # initproc
     /\ \/ \E n \in KillArgs : kill(c, p, n)
        \/ \E n \in SleepArgs : sys_sleep(c, p, n)

Next ==
  \E c \in CPUs : \/ Switching(c) \/ Clock(c)
                  \/ \E p \in Procs : InKernel(c, p) \/ StartExit(c, p) \/ User(c, p)

Spec == Init /\ [][Next]_vars

(* Every CPU goes on executing, and its clock goes on interrupting it; a CPU  *)
(* that spins on a lock which is freed again and again gets it in the end; a   *)
(* process executes something between two clock interrupts.  Nothing is        *)
(* assumed of user code.                                                       *)
FairSpec ==
  /\ Spec
  /\ \A c \in CPUs : SF_vars(Switching(c)) /\ SF_vars(Clock(c))
  /\ \A p \in Procs : SF_vars(\E c \in CPUs : InKernel(c, p))

(* The first process, init.c, keeps calling wait, as long as its forks do *)
(* not fail.                                                              *)
InitSpec == FairSpec /\ SF_vars(\E c \in CPUs : wait(c, initproc))

-----------------------------------------------------------------------------

InUse(p) == state[p] \in {"SLEEPING", "RUNNABLE", "RUNNING", "ZOMBIE"}

(* A kernel stack is never run on by two CPUs, and never after wait has     *)
(* freed it: exit and yield give up the stack, in swtch, before anybody who *)
(* could free it or run on it can take ptable.lock.  And myproc() is right: *)
(* while the lock is free, the RUNNING processes are the current ones of    *)
(* the CPUs, and every other process has its context saved.                 *)
StackExclusive ==
  /\ \A c \in CPUs :
       stack[c] # None =>
         /\ stack[c] \in kstack
         /\ \A d \in CPUs \ {c} : stack[d] # stack[c]
  /\ ptlock = None =>
       /\ cproc = stack
       /\ \A p \in Procs :
            /\ state[p] = "RUNNING" <=> \E c \in CPUs : cproc[c] = p
            /\ InUse(p) => (state[p] = "RUNNING" <=> ctx[p] = "on")

(* The panics of sched ("sched ptable.lock", "sched locks", "sched          *)
(* running"), of exit ("zombie exit") and of switchuvm are not reached.     *)
(* exit also panics when it is init that exits ("init exiting"): killed, or *)
(* after a fork that failed, init does.                                     *)
NoPanic ==
  \A c \in CPUs, p \in Procs :
    stack[c] = p =>
      /\ ctx[p] = "sched" => ptlock = c /\ tklock # c /\ state[p] # "RUNNING"
      /\ ctx[p] = "off" => ptlock = c /\ why[p] # "exit" /\ p \in kstack

(* No exit is missed by a parent asleep in wait: it sleeps only while it    *)
(* has children, none of them is a zombie, and it has not been killed.      *)
NoLostExit ==
  ptlock = None =>
    \A p \in Procs :
      (state[p] = "SLEEPING" /\ why[p] = "wait") =>
        Children(p) # {} /\ Zombies(p) = {} /\ ~killed[p]

(* No tick is missed by a process asleep in sys_sleep: once its time is up  *)
(* it is not asleep, except while the interrupt that made it so is at work. *)
NoLostTick ==
  tklock = None =>
    \A p \in Procs : (state[p] = "SLEEPING" /\ chan[p] = TicksChan) => ~Elapsed(p)

(* A zombie left to init, or whose parent has exited, is freed: exit passes *)
(* it to init, and init's wait finds it, whatever exits, reparentings and   *)
(* wakeups happen around it; unless a fork of init's fails, and init exits. *)
Orphan(p) ==
  /\ state[p] = "ZOMBIE" /\ parent[p] \in Procs
  /\ parent[p] = initproc \/ state[parent[p]] \in {"ZOMBIE", "UNUSED"}
OrphanReaped ==
  \A p \in Procs \ {initproc} : Orphan(p) ~> (state[p] = "UNUSED" \/ pc[initproc] = "exit")

(* A killed process exits, even if kill came just before it went to sleep   *)
(* or while it was being created.  (init, killed, would panic.)             *)
KilledExits ==
  \A p \in Procs \ {initproc} :
    (killed[p] /\ InUse(p)) ~> state[p] \in {"ZOMBIE", "UNUSED"}
=============================================================================
