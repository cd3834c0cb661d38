----------------------------- MODULE ProcProofs -----------------------------
(***************************************************************************)
(* Proofs about Proc, for every number of CPUs and processes.              *)
(***************************************************************************)
EXTENDS Proc, TLAPS

Types ==
  /\ state \in [Procs -> States]
  /\ pid \in [Procs -> Nat] /\ nextpid \in Nat \ {0}
  /\ parent \in [Procs -> Procs \cup {None}]
  /\ chan \in [Procs -> Procs \cup {TicksChan, None}]
  /\ killed \in [Procs -> BOOLEAN]
  /\ kstack \subseteq Procs
  /\ ptlock \in CPUs \cup {None} /\ tklock \in CPUs \cup {None}
  /\ stack \in [CPUs -> Procs \cup {None}] /\ cproc = stack
  /\ intr \in [CPUs -> {"no", "wakeup", "yield"}]
  /\ pc \in [Procs -> {"user", "fork", "exit", "ticks", "tsleep"}]
  /\ ctx \in [Procs -> {"on", "off", "sched"}]
  /\ why \in [Procs -> {"forkret", "yield", "sleep", "wait", "exit"}]
  /\ np \in [Procs -> Procs \cup {None}]

(* Where a process is on a CPU, and what ptable.lock protects there. *)
OnCpu ==
  /\ \A c, d \in CPUs : stack[c] = stack[d] /\ stack[c] # None => c = d
  /\ \A c \in CPUs : stack[c] # None =>
       /\ ctx[stack[c]] \in {"on", "off"} => state[stack[c]] = "RUNNING"
       /\ ctx[stack[c]] = "sched" => state[stack[c]] # "RUNNING" /\ tklock # c
       /\ ctx[stack[c]] # "on" => ptlock = c
       /\ InUse(stack[c])
  /\ \A c \in CPUs : ptlock = c =>
       /\ intr[c] = "no"
       /\ stack[c] # None => ctx[stack[c]] # "on"

(* A process on no CPU has its context saved; only a zombie has it in exit. *)
Saved ==
  /\ \A p \in Procs : InUse(p) => p \in kstack
  /\ \A p \in Procs : InUse(p) /\ (\A c \in CPUs : stack[c] # p) =>
       ctx[p] = "off" /\ state[p] # "RUNNING"
  /\ \A p \in Procs : InUse(p) => (why[p] = "exit" <=> state[p] = "ZOMBIE")

(* The slots that are not in use. *)
Slots ==
  /\ \A p \in Procs : state[p] = "UNUSED" => p \notin kstack
  /\ \A p \in Procs : p \notin kstack => parent[p] = None
  /\ \A p \in Procs : parent[p] # p
  /\ \A p \in Procs : state[p] = "EMBRYO" /\ p \in kstack =>
       ctx[p] = "off" /\ why[p] = "forkret" /\ pc[p] = "user"
  /\ \A p \in Procs : pc[p] = "fork" => np[p] # None /\ state[np[p]] = "EMBRYO"
  /\ \A p, q \in Procs : pc[p] = "fork" /\ pc[q] = "fork" /\ np[p] = np[q] => p = q

(* tickslock is held by the interrupt handler, or on the way to sleep. *)
Ticks ==
  /\ \A c \in CPUs : tklock = c /\ intr[c] # "wakeup" =>
       intr[c] = "no" /\ stack[c] # None /\ ctx[stack[c]] = "on" /\ pc[stack[c]] = "tsleep"
  /\ \A c \in CPUs : intr[c] = "wakeup" => tklock = c
  /\ \A p \in Procs : pc[p] = "tsleep" =>
       \E c \in CPUs : stack[c] = p /\ ctx[p] = "on" /\ tklock = c /\ intr[c] = "no"

(* init does not exit: exit would panic first. *)
InitRuns ==
  /\ pid[initproc] = 1 /\ parent[initproc] = None
  /\ state[initproc] \in {"SLEEPING", "RUNNABLE", "RUNNING"}

(* A parent asleep in wait sleeps on itself, it has a child, none of its    *)
(* children is a zombie, and it has not been killed.                        *)
WaitSleepers ==
  \A p \in Procs : state[p] = "SLEEPING" /\ why[p] = "wait" =>
    /\ chan[p] = p /\ ~killed[p]
    /\ \E q \in Procs : parent[q] = p
    /\ \A q \in Procs : parent[q] = p => state[q] # "ZOMBIE"

(* The time of a process that is about to sleep on ticks, or asleep, is not *)
(* up, unless the interrupt handler has yet to wake the sleepers.           *)
TickSleepers ==
  /\ DOMAIN tsl = Procs
  /\ \A p \in Procs : pc[p] = "tsleep" => ~Elapsed(p)
  /\ (\A c \in CPUs : intr[c] # "wakeup") =>
       \A p \in Procs : state[p] = "SLEEPING" /\ chan[p] = TicksChan => ~Elapsed(p)

IInv == Types /\ OnCpu /\ Saved /\ Slots /\ Ticks /\ InitRuns /\ WaitSleepers /\ TickSleepers

(* A step by A keeps the invariant. *)
Keeps(A) == IInv /\ A => IInv'

USE SMTT(60), ZenonT(60) DEF vars, table, clock, cpuv, local

(* What the proofs use of the constants. *)
LEMMA Consts ==
  /\ Procs \subseteq Nat \ {0} /\ initproc \in Procs /\ initproc = 1
  /\ TicksChan = 0
  /\ None \notin CPUs /\ None \notin Procs /\ None # TicksChan
  /\ TicksChan \notin Procs
BY ProcAssumption DEF Procs, initproc, TicksChan

(* Whether the time of a sleeper is up depends on ticks and its request. *)
LEMMA SameElapsed ==
  ASSUME NEW q \in Procs, ticks' = ticks, tsl'[q] = tsl[q]
  PROVE  Elapsed(q)' <=> Elapsed(q)
BY ZenonT(60) DEF Elapsed

(* p, on CPU c, changes only its own registers and the reason why it is in  *)
(* sched, and it keeps away from tickslock.                                 *)
OwnRun(c, p) ==
  /\ UNCHANGED <<stack, tklock, ticks>>
  /\ stack[c] = p /\ \A d \in CPUs : stack[d] = p => d = c
  /\ pc[p] # "tsleep" /\ pc'[p] # "tsleep"
  /\ intr[c] # "wakeup" /\ intr'[c] = "no"
  /\ \A d \in CPUs \ {c} : intr'[d] = intr[d]
  /\ \A r \in Procs \ {p} : ctx'[r] = ctx[r] /\ why'[r] = why[r] /\ pc'[r] = pc[r]

(* p wakes others at most, and stays on its CPU or enters sched with        *)
(* ptable.lock; it does not go to sleep on ticks.                           *)
OwnState(c, p) ==
  /\ UNCHANGED <<kstack, np>>
  /\ state[p] = "RUNNING" /\ (pc'[p] = "fork" => pc[p] = "fork")
  /\ \A r \in Procs \ {p} : /\ state'[r] = state[r] \/ (state[r] = "SLEEPING" /\ state'[r] = "RUNNABLE")
                            /\ chan'[r] = chan[r] /\ tsl'[r] = tsl[r]
  /\ InUse(p)' /\ (why'[p] = "exit" <=> state'[p] = "ZOMBIE")
  /\ \/ /\ ctx'[p] = "on" /\ state'[p] = "RUNNING"
        /\ \/ ctx[p] = "on" /\ ptlock' = ptlock
           \/ ptlock \in {None, c} /\ ptlock' = None
     \/ ctx'[p] = "sched" /\ state'[p] # "RUNNING" /\ ptlock \in {None, c} /\ ptlock' = c /\ tklock # c
  /\ state'[p] = "SLEEPING" => chan'[p] # TicksChan
  /\ DOMAIN tsl' = Procs

(* tickslock stays with its holder. *)
LEMMA OwnTicks ==
  ASSUME NEW c \in CPUs, NEW p \in Procs, Types, Ticks, OwnRun(c, p)
  PROVE  Ticks'
<1> USE DEF OwnRun
<1>1. \A d \in CPUs : tklock = d => stack[d] # p
  BY DEF Ticks
<1>2. ASSUME NEW d \in CPUs, tklock' = d, intr'[d] # "wakeup"
      PROVE  intr'[d] = "no" /\ stack'[d] # None /\ ctx'[stack'[d]] = "on" /\ pc'[stack'[d]] = "tsleep"
  <2>1. d # c /\ intr[d] # "wakeup" /\ stack[d] # p
    BY <1>1, <1>2
  <2>2. intr[d] = "no" /\ stack[d] # None /\ ctx[stack[d]] = "on" /\ pc[stack[d]] = "tsleep"
    BY <1>2, <2>1 DEF Ticks
  <2> QED
    BY <2>1, <2>2 DEF Types
<1>3. \A d \in CPUs : intr'[d] = "wakeup" => tklock' = d
  BY DEF Ticks
<1>4. ASSUME NEW r \in Procs, pc'[r] = "tsleep"
      PROVE  \E d \in CPUs : stack'[d] = r /\ ctx'[r] = "on" /\ tklock' = d /\ intr'[d] = "no"
  <2>1. PICK d \in CPUs : stack[d] = r /\ ctx[r] = "on" /\ tklock = d /\ intr[d] = "no"
    BY <1>4 DEF Ticks
  <2> QED
    BY <1>4, <2>1
<1> QED
  BY <1>2, <1>3, <1>4 DEF Ticks

(* No slot is taken or given up. *)
LEMMA OwnSlots ==
  ASSUME NEW c \in CPUs, NEW p \in Procs, Types, Slots, OwnRun(c, p), OwnState(c, p), UNCHANGED parent
  PROVE  Slots'
<1>0. \A r \in Procs : /\ state'[r] = "UNUSED" <=> state[r] = "UNUSED"
                       /\ state'[r] = "EMBRYO" <=> state[r] = "EMBRYO"
  BY DEF OwnState, InUse
<1>1. \A r \in Procs : pc'[r] = "fork" =>
        pc[r] = "fork" /\ np'[r] = np[r] /\ np[r] # None /\ state'[np[r]] = "EMBRYO"
  BY <1>0 DEF Types, Slots, OwnRun, OwnState
<1>2. \A r \in Procs : state'[r] = "EMBRYO" /\ r \in kstack' =>
        ctx'[r] = "off" /\ why'[r] = "forkret" /\ pc'[r] = "user"
  BY <1>0 DEF Slots, OwnRun, OwnState
<1>3. \A q, r \in Procs : pc'[q] = "fork" /\ pc'[r] = "fork" /\ np'[q] = np'[r] => q = r
  BY <1>1 DEF Slots
<1>4. \A r \in Procs : (r \in kstack' <=> r \in kstack) /\ parent'[r] = parent[r]
  BY DEF OwnState
<1> QED
  BY <1>0, <1>1, <1>2, <1>3, <1>4 DEF Slots

(* The others keep their contexts. *)
LEMMA OwnSaved ==
  ASSUME NEW c \in CPUs, NEW p \in Procs, Saved, OwnRun(c, p), OwnState(c, p)
  PROVE  Saved'
<1>1. ASSUME NEW r \in Procs \ {p}
      PROVE  /\ InUse(r)' <=> InUse(r)
             /\ state'[r] = "ZOMBIE" <=> state[r] = "ZOMBIE"
             /\ state'[r] = "RUNNING" <=> state[r] = "RUNNING"
  <2>1. CASE state'[r] = state[r]
    BY <2>1, ZenonT(60) DEF InUse
  <2>2. CASE state[r] = "SLEEPING" /\ state'[r] = "RUNNABLE"
    BY <2>2, ZenonT(60) DEF InUse
  <2> QED
    BY <2>1, <2>2, ZenonT(60) DEF OwnState
<1>2. InUse(p) /\ (why'[p] = "exit" <=> state'[p] = "ZOMBIE") /\ kstack' = kstack
  BY ZenonT(60) DEF OwnState, InUse
<1>3. ASSUME NEW r \in Procs, InUse(r)'
      PROVE  r \in kstack' /\ (why'[r] = "exit" <=> state'[r] = "ZOMBIE")
  <2>1. CASE r = p
    BY <1>2, <2>1, ZenonT(60) DEF Saved
  <2>2. CASE r # p
    <3>1. InUse(r) /\ why'[r] = why[r] /\ (state'[r] = "ZOMBIE" <=> state[r] = "ZOMBIE")
      BY <1>1, <1>3, <2>2, ZenonT(60) DEF OwnRun
    <3> QED
      BY <1>2, <3>1, ZenonT(60) DEF Saved
  <2> QED
    BY <2>1, <2>2, ZenonT(60)
<1>4. ASSUME NEW r \in Procs, InUse(r)', \A d \in CPUs : stack'[d] # r
      PROVE  ctx'[r] = "off" /\ state'[r] # "RUNNING"
  <2>1. r # p /\ \A d \in CPUs : stack[d] # r
    BY <1>4, ZenonT(60) DEF OwnRun
  <2>2. InUse(r) /\ ctx'[r] = ctx[r]
    BY <1>1, <1>4, <2>1, ZenonT(60) DEF OwnRun
  <2> QED
    BY <1>1, <2>1, <2>2, ZenonT(60) DEF Saved
<1> QED
  BY <1>3, <1>4, ZenonT(60) DEF Saved

(* Every CPU runs the process it ran. *)
LEMMA OwnOnCpu ==
  ASSUME NEW c \in CPUs, NEW p \in Procs, Types, OnCpu, Ticks, OwnRun(c, p), OwnState(c, p)
  PROVE  OnCpu'
<1>1. stack' = stack /\ tklock' = tklock /\ stack[c] = p /\ p # None /\ intr'[c] = "no"
  BY Consts, ZenonT(60) DEF OwnRun
<1>2. ASSUME NEW d \in CPUs, d # c, stack[d] # None
      PROVE  /\ stack[d] \in Procs /\ stack[d] # p /\ ctx'[stack[d]] = ctx[stack[d]]
             /\ state'[stack[d]] = "RUNNING" <=> state[stack[d]] = "RUNNING"
             /\ InUse(stack[d])'
  <2>1. stack[d] \in Procs \ {p}
    BY <1>2 DEF Types, OwnRun
  <2>2. InUse(stack[d])
    BY <1>2, ZenonT(60) DEF OnCpu
  <2>3. CASE state'[stack[d]] = state[stack[d]]
    BY <1>1, <2>1, <2>2, <2>3, ZenonT(60) DEF OwnRun, InUse
  <2>4. CASE state[stack[d]] = "SLEEPING" /\ state'[stack[d]] = "RUNNABLE"
    BY <1>1, <2>1, <2>4, ZenonT(60) DEF OwnRun, InUse
  <2> QED
    BY <2>1, <2>3, <2>4, ZenonT(60) DEF OwnState
<1>3. CASE ptlock' = ptlock /\ ctx[p] = "on" /\ ctx'[p] = "on" /\ state'[p] = "RUNNING"
  <2>1. ptlock # c
    BY <1>1, <1>3, ZenonT(60) DEF OnCpu
  <2> QED
    BY <1>1, <1>2, <1>3, <2>1 DEF OnCpu, OwnRun, OwnState
<1>4. CASE ptlock \in {None, c} /\ ptlock' = None /\ ctx'[p] = "on" /\ state'[p] = "RUNNING"
  BY Consts, <1>1, <1>2, <1>4 DEF OnCpu, OwnState
<1>5. CASE ctx'[p] = "sched" /\ state'[p] # "RUNNING" /\ ptlock \in {None, c} /\ ptlock' = c /\ tklock # c
  BY Consts, <1>1, <1>2, <1>5 DEF OnCpu, OwnState
<1> QED
  BY <1>3, <1>4, <1>5, ZenonT(60) DEF OwnState

(* Nobody new sleeps on ticks. *)
LEMMA OwnTickSleepers ==
  ASSUME NEW c \in CPUs, NEW p \in Procs, TickSleepers, OwnRun(c, p), OwnState(c, p)
  PROVE  TickSleepers'
<1>1. \A r \in Procs \ {p} : Elapsed(r)' <=> Elapsed(r)
  BY SameElapsed, ZenonT(60) DEF OwnRun, OwnState
<1>2. \A r \in Procs : pc'[r] = "tsleep" => ~Elapsed(r)'
  BY <1>1, ZenonT(60) DEF TickSleepers, OwnRun
<1>3. (\A d \in CPUs : intr'[d] # "wakeup") => \A d \in CPUs : intr[d] # "wakeup"
  BY ZenonT(60) DEF OwnRun
<1>4. \A r \in Procs : state'[r] = "SLEEPING" /\ chan'[r] = TicksChan =>
        r # p /\ state[r] = "SLEEPING" /\ chan[r] = TicksChan
  BY ZenonT(60) DEF OwnState
<1> QED
  BY <1>1, <1>2, <1>3, <1>4, ZenonT(60) DEF TickSleepers, TicksChan, OwnState

(* Such a step keeps the parts of the invariant that are about CPUs, slots  *)
(* and the clock.                                                           *)
LEMMA OwnStep ==
  ASSUME NEW c \in CPUs, NEW p \in Procs, IInv, OwnRun(c, p), OwnState(c, p)
  PROVE  OnCpu' /\ Saved' /\ Ticks' /\ TickSleepers' /\ (UNCHANGED parent => Slots')
BY OwnTicks, OwnSlots, OwnSaved, OwnOnCpu, OwnTickSleepers, ZenonT(60) DEF IInv

(* The process on a CPU is one of ptable, and its slot is in use. *)
LEMMA OnStack ==
  ASSUME IInv
  PROVE  \A d \in CPUs : stack[d] # None => stack[d] \in Procs /\ InUse(stack[d])
<1> SUFFICES ASSUME NEW d \in CPUs, stack[d] # None PROVE stack[d] \in Procs /\ InUse(stack[d])
  OBVIOUS
<1>1. stack[d] \in Procs \cup {None}
  BY ZenonT(60) DEF IInv, Types
<1>2. InUse(stack[d])
  BY ZenonT(60) DEF IInv, OnCpu
<1> QED
  BY <1>1, <1>2, ZenonT(60)

(* A process on a CPU, outside swtch, is RUNNING there and nowhere else. *)
LEMMA Runner ==
  ASSUME IInv, NEW c \in CPUs, NEW p \in Procs, stack[c] = p, ctx[p] \in {"on", "off"}
  PROVE  /\ state[p] = "RUNNING" /\ InUse(p) /\ why[p] # "exit"
         /\ \A d \in CPUs : stack[d] = p => d = c
<1>1. /\ stack[c] # None /\ state[p] = "RUNNING" /\ InUse(p)
      /\ \A d \in CPUs : stack[d] = p => d = c
  BY Consts, ZenonT(60) DEF IInv, OnCpu
<1> QED
  BY <1>1, ZenonT(60) DEF IInv, Saved

(* A CPU takes ptable.lock for a pass. *)
LEMMA SchedulerPassStep ==
  ASSUME NEW c \in CPUs
  PROVE  Keeps(SchedulerPass(c))
<1> SUFFICES ASSUME IInv, SchedulerPass(c) PROVE IInv'
  BY ZenonT(60) DEF Keeps
<1>1. Types'
  BY ZenonT(60) DEF IInv, Types, SchedulerPass
<1>2. OnCpu'
  BY Consts, ZenonT(60) DEF IInv, OnCpu, InUse, SchedulerPass
<1>3. Saved'
  BY ZenonT(60) DEF IInv, Saved, InUse, SchedulerPass
<1>4. Slots'
  BY ZenonT(60) DEF IInv, Slots, SchedulerPass
<1>5. Ticks'
  BY ZenonT(60) DEF IInv, Ticks, SchedulerPass
<1>6. InitRuns'
  BY ZenonT(60) DEF IInv, InitRuns, SchedulerPass
<1>7. WaitSleepers'
  BY ZenonT(60) DEF IInv, WaitSleepers, SchedulerPass
<1>8. TickSleepers'
  BY SameElapsed, ZenonT(60) DEF IInv, TickSleepers, SchedulerPass
<1> QED
  BY <1>1, <1>2, <1>3, <1>4, <1>5, <1>6, <1>7, <1>8, ZenonT(60) DEF IInv

(* The scheduler picks a process that is on no CPU, or ends its pass. *)
LEMMA schedulerStep ==
  ASSUME NEW c \in CPUs
  PROVE  Keeps(scheduler(c))
<1> SUFFICES ASSUME IInv, scheduler(c) PROVE IInv'
  BY ZenonT(60) DEF Keeps
<1> DEFINE R == {q \in Procs : q >= idx[c] /\ state[q] = "RUNNABLE"}
<1>1. CASE R = {}
  <2>a. /\ stack[c] = None /\ ptlock = c /\ ptlock' = None
        /\ UNCHANGED <<table, tklock, ticks, intr, cproc, stack, local>>
    BY <1>1, ZenonT(60) DEF scheduler, First
  <2>1. Types'
    BY <2>a, ZenonT(60) DEF IInv, Types
  <2>2. OnCpu'
    BY Consts, <2>a, ZenonT(60) DEF IInv, OnCpu, InUse
  <2>3. Saved'
    BY <2>a, ZenonT(60) DEF IInv, Saved, InUse
  <2>4. Slots'
    BY <2>a, ZenonT(60) DEF IInv, Slots
  <2>5. Ticks'
    BY <2>a, ZenonT(60) DEF IInv, Ticks
  <2>6. InitRuns'
    BY <2>a, ZenonT(60) DEF IInv, InitRuns
  <2>7. WaitSleepers'
    BY <2>a, ZenonT(60) DEF IInv, WaitSleepers
  <2>8. TickSleepers'
    BY <2>a, SameElapsed, ZenonT(60) DEF IInv, TickSleepers
  <2> QED
    BY <2>1, <2>2, <2>3, <2>4, <2>5, <2>6, <2>7, <2>8, ZenonT(60) DEF IInv
<1>2. CASE R # {}
  <2>b. PICK q \in Procs :
          /\ state[q] = "RUNNABLE"
          /\ stack[c] = None /\ ptlock = c /\ state' = [state EXCEPT ![q] = "RUNNING"]
          /\ stack' = [stack EXCEPT ![c] = q] /\ cproc' = [cproc EXCEPT ![c] = q]
          /\ UNCHANGED <<ptlock, pid, parent, chan, killed, kstack, nextpid, clock, local>>
    BY <1>2, ZenonT(60) DEF scheduler, First
  <2>c. \A d \in CPUs : stack[d] # q
    BY <2>b, Consts, ZenonT(60) DEF IInv, OnCpu
  <2>d. ctx[q] = "off" /\ InUse(q)
    BY <2>b, <2>c, ZenonT(60) DEF IInv, Saved, InUse
  <2>e. \A d \in CPUs : stack'[d] = IF d = c THEN q ELSE stack[d]
    BY <2>b, ZenonT(60) DEF IInv, Types
  <2>f. \A r \in Procs : state'[r] = IF r = q THEN "RUNNING" ELSE state[r]
    BY <2>b, ZenonT(60) DEF IInv, Types
  <2>1. Types'
    BY <2>b, ZenonT(60) DEF IInv, Types, States
  <2>2. OnCpu'
    BY <2>b, <2>d, <2>f DEF IInv, OnCpu, InUse
  <2>3. Saved'
    BY Consts, <2>b, <2>c, <2>e, <2>f, <2>1 DEF IInv, Saved, InUse
  <2>4. Slots'
    BY <2>b, <2>c, <2>1 DEF IInv, Types, Slots
  <2>5. Ticks'
    BY <2>b DEF IInv, Ticks
  <2>6. InitRuns'
    BY <2>b DEF IInv, InitRuns
  <2>7. WaitSleepers'
    BY <2>b DEF IInv, WaitSleepers
  <2>8. TickSleepers'
    BY <2>b, SameElapsed DEF IInv, TickSleepers
  <2> QED
    BY <2>1, <2>2, <2>3, <2>4, <2>5, <2>6, <2>7, <2>8, ZenonT(60) DEF IInv
<1> QED
  BY <1>1, <1>2, ZenonT(60)

(* swtch to the scheduler. *)
LEMMA schedStep ==
  ASSUME NEW c \in CPUs
  PROVE  Keeps(sched(c))
<1> SUFFICES ASSUME IInv, sched(c) PROVE IInv'
  BY ZenonT(60) DEF Keeps
<1>1. Types'
  BY ZenonT(60) DEF IInv, Types, sched, ClearProc
<1>2. OnCpu'
  BY DEF IInv, Types, OnCpu, InUse, sched
<1>3. Saved'
  BY DEF IInv, Types, OnCpu, Saved, InUse, sched
<1>4. Slots'
  BY DEF IInv, Slots, sched
<1>5. Ticks'
  BY DEF IInv, Ticks, sched
<1>6. InitRuns'
  BY ZenonT(60) DEF IInv, InitRuns, sched
<1>7. WaitSleepers'
  BY ZenonT(60) DEF IInv, WaitSleepers, sched
<1>8. TickSleepers'
  BY SameElapsed, ZenonT(60) DEF IInv, TickSleepers, sched
<1> QED
  BY <1>1, <1>2, <1>3, <1>4, <1>5, <1>6, <1>7, <1>8, ZenonT(60) DEF IInv

(* A process comes back from sched. *)
LEMMA ResumeStep ==
  ASSUME NEW c \in CPUs
  PROVE  Keeps(Resume(c))
<1> SUFFICES ASSUME IInv, Resume(c) PROVE IInv'
  BY ZenonT(60) DEF Keeps
<1>a. PICK p \in Procs : p = stack[c] /\ ctx[p] = "off"
  BY Consts, ZenonT(60) DEF IInv, Types, Resume
<1>b. /\ pc[p] # "tsleep" /\ pc'[p] # "tsleep" /\ tklock # c
      /\ \A q \in Procs \ {p} : pc'[q] = pc[q] /\ ctx'[q] = ctx[q]
  BY <1>a DEF IInv, Types, OnCpu, Ticks, Resume, YieldReturn, forkret, SleepReturn
<1>1. Types'
  BY DEF IInv, Types, Resume, YieldReturn, forkret, SleepReturn
<1>2. OnCpu'
  BY Consts DEF IInv, Types, OnCpu, InUse, Resume
<1>3. Saved'
  BY DEF IInv, Saved, InUse, Resume
<1>4. Slots'
  BY <1>1 DEF IInv, Types, OnCpu, Slots, Resume, YieldReturn, forkret, SleepReturn
<1>5. Ticks'
  <2>1. ASSUME NEW d \in CPUs, tklock' = d, intr'[d] # "wakeup"
        PROVE  /\ intr'[d] = "no" /\ stack'[d] # None
               /\ ctx'[stack'[d]] = "on" /\ pc'[stack'[d]] = "tsleep"
    <3>1. /\ intr[d] = "no" /\ stack[d] # None /\ stack[d] \in Procs
          /\ ctx[stack[d]] = "on" /\ pc[stack[d]] = "tsleep"
      BY <2>1 DEF IInv, Types, Ticks, Resume
    <3> QED
      BY <1>b, <3>1, ZenonT(60) DEF Resume
  <2>2. \A d \in CPUs : intr'[d] = "wakeup" => tklock' = d
    BY ZenonT(60) DEF IInv, Ticks, Resume
  <2>3. ASSUME NEW q \in Procs, pc'[q] = "tsleep"
        PROVE  \E d \in CPUs : stack'[d] = q /\ ctx'[q] = "on" /\ tklock' = d /\ intr'[d] = "no"
    <3>1. q # p /\ pc[q] = "tsleep" /\ ctx'[q] = ctx[q]
      BY <1>b, <2>3, ZenonT(60)
    <3> QED
      BY <3>1 DEF IInv, Ticks, Resume
  <2> QED
    BY <2>1, <2>2, <2>3, ZenonT(60) DEF Ticks
<1>6. InitRuns'
  BY ZenonT(60) DEF IInv, InitRuns, Resume
<1>7. WaitSleepers'
  BY DEF IInv, Types, WaitSleepers, Resume, YieldReturn, forkret, SleepReturn
<1>8. TickSleepers'
  BY Consts, SameElapsed
    DEF IInv, Types, TickSleepers, Resume, YieldReturn, forkret, SleepReturn
<1> QED
  BY <1>1, <1>2, <1>3, <1>4, <1>5, <1>6, <1>7, <1>8, ZenonT(60) DEF IInv

(* fork fills the slot that it owns. *)
LEMMA ForkFillStep ==
  ASSUME NEW c \in CPUs, NEW p \in Procs
  PROVE  Keeps(ForkFill(c, p))
<1> SUFFICES ASSUME IInv, ForkFill(c, p) PROVE IInv'
  BY ZenonT(60) DEF Keeps
<1>a. np[p] \in Procs
  BY DEF IInv, Types, Slots, ForkFill
<1>1. Types'
  BY <1>a, Consts, ZenonT(60) DEF IInv, Types, ForkFill
<1>2. OnCpu'
  BY DEF IInv, OnCpu, Slots, InUse, ForkFill
<1>3. Saved'
  BY DEF IInv, Saved, InUse, ForkFill
<1>4. Slots'
  BY DEF IInv, Types, OnCpu, Slots, ForkFill, Runs
<1>5. Ticks'
  BY DEF IInv, OnCpu, Slots, Ticks, ForkFill
<1>6. InitRuns'
  BY DEF IInv, Slots, InitRuns, ForkFill
<1>7. WaitSleepers'
  BY Consts DEF IInv, Slots, WaitSleepers, ForkFill
<1>8. TickSleepers'
  BY SameElapsed DEF IInv, TickSleepers, ForkFill
<1> QED
  BY <1>1, <1>2, <1>3, <1>4, <1>5, <1>6, <1>7, <1>8, ZenonT(60) DEF IInv

(* fork gives up the slot that it owns. *)
LEMMA ForkFailStep ==
  ASSUME NEW c \in CPUs, NEW p \in Procs
  PROVE  Keeps(ForkFail(c, p))
<1> SUFFICES ASSUME IInv, ForkFail(c, p) PROVE IInv'
  BY ZenonT(60) DEF Keeps
<1>a. np[p] \in Procs /\ state[np[p]] = "EMBRYO"
  <2>1. pc[p] = "fork"
    BY ZenonT(60) DEF ForkFail
  <2>2. np[p] # None /\ state[np[p]] = "EMBRYO"
    BY <2>1, ZenonT(60) DEF IInv, Slots
  <2>3. np[p] \in Procs \cup {None}
    BY ZenonT(60) DEF IInv, Types
  <2> QED
    BY <2>2, <2>3, ZenonT(60)
<1>b. PICK q \in Procs :
        /\ q = np[p] /\ state[q] = "EMBRYO" /\ q \notin kstack
        /\ stack[c] = p /\ ctx[p] = "on" /\ intr[c] = "no" /\ pc[p] = "fork"
        /\ state' = [state EXCEPT ![q] = "UNUSED"] /\ np' = [np EXCEPT ![p] = None]
        /\ pc' = [pc EXCEPT ![p] = ForkFailed(p)] /\ ForkFailed(p) \in {"exit", "user"}
        /\ UNCHANGED <<pid, parent, chan, killed, kstack, nextpid, ptlock, clock, cpuv, ctx, why, tsl>>
  BY <1>a, ZenonT(60) DEF ForkFail, Runs, ForkFailed, UserRet
<1>c. /\ \A r \in Procs \ {q} : state'[r] = state[r]
      /\ \A r \in Procs \ {p} : pc'[r] = pc[r] /\ np'[r] = np[r]
      /\ state'[q] = "UNUSED" /\ pc'[p] \in {"exit", "user"}
  BY <1>b, ZenonT(60) DEF IInv, Types
<1>d. state[p] = "RUNNING" /\ q # p /\ \A d \in CPUs : stack[d] = p => d = c
  BY <1>b, Runner, ZenonT(60)
<1>1. Types'
  BY ZenonT(60) DEF IInv, Types, Slots, ForkFail, ForkFailed, UserRet, States
<1>2. OnCpu'
  <2>1. ~InUse(q)
    BY <1>b, ZenonT(60) DEF InUse
  <2>2. \A d \in CPUs : stack[d] # None => stack[d] \in Procs /\ InUse(stack[d])
    BY OnStack, ZenonT(60)
  <2>3. ASSUME NEW d \in CPUs, stack[d] # None PROVE state'[stack[d]] = state[stack[d]]
    <3>1. stack[d] \in Procs /\ stack[d] # q
      BY <2>1, <2>2, <2>3, ZenonT(60)
    <3> QED
      BY <1>c, <3>1, ZenonT(60)
  <2> QED
    BY <1>b, <2>3 DEF IInv, OnCpu, InUse
<1>3. Saved'
  <2>1. \A r \in Procs : InUse(r)' => InUse(r) /\ state'[r] = state[r]
    BY <1>c, ZenonT(60) DEF InUse
  <2>2. ASSUME NEW r \in Procs, InUse(r)'
        PROVE  /\ r \in kstack /\ (why[r] = "exit" <=> state'[r] = "ZOMBIE")
               /\ (\A d \in CPUs : stack[d] # r) => ctx[r] = "off" /\ state'[r] # "RUNNING"
    BY <2>1, <2>2, ZenonT(60) DEF IInv, Saved
  <2> QED
    BY <1>b, <2>2, ZenonT(60) DEF Saved
<1>4. Slots'
  <2>1. \A r \in Procs \ {p} : pc[r] = "fork" => np[r] \in Procs \ {q} /\ np[r] # None /\ state[np[r]] = "EMBRYO"
    BY <1>b DEF IInv, Types, Slots
  <2>2. \A r \in Procs : pc'[r] = "fork" => r # p /\ pc[r] = "fork"
    BY <1>c, ZenonT(60)
  <2>3. ASSUME NEW r \in Procs, pc'[r] = "fork" PROVE np'[r] # None /\ state'[np'[r]] = "EMBRYO"
    <3>1. np'[r] = np[r] /\ np[r] \in Procs \ {q} /\ np[r] # None /\ state[np[r]] = "EMBRYO"
      BY <1>c, <2>1, <2>2, <2>3, ZenonT(60)
    <3> QED
      BY <1>c, <3>1, ZenonT(60)
  <2>4. ASSUME NEW r \in Procs, NEW s \in Procs, pc'[r] = "fork", pc'[s] = "fork", np'[r] = np'[s]
        PROVE  r = s
    <3>1. pc[r] = "fork" /\ pc[s] = "fork" /\ np[r] = np[s]
      BY <1>c, <2>2, <2>4, ZenonT(60)
    <3> QED
      BY <3>1, ZenonT(60) DEF IInv, Slots
  <2>5. \A r \in Procs : /\ r \notin kstack => parent[r] = None
                         /\ parent[r] # r
                         /\ state[r] = "UNUSED" => r \notin kstack
                         /\ state[r] = "EMBRYO" /\ r \in kstack => ctx[r] = "off" /\ why[r] = "forkret" /\ pc[r] = "user"
    BY ZenonT(60) DEF IInv, Slots
  <2>6. ASSUME NEW r \in Procs
        PROVE  /\ state'[r] = "UNUSED" => r \notin kstack
               /\ state'[r] = "EMBRYO" => r # p /\ state[r] = "EMBRYO" /\ pc'[r] = pc[r]
    <3>1. CASE r = q
      BY <1>b, <1>c, <3>1, ZenonT(60)
    <3>2. CASE r # q
      BY <1>c, <1>d, <2>5, <3>2, ZenonT(60)
    <3> QED
      BY <3>1, <3>2, ZenonT(60)
  <2> QED
    BY <1>b, <2>3, <2>4, <2>5, <2>6, ZenonT(60) DEF Slots
<1>5. Ticks'
  <2>1. OwnRun(c, p)
    BY <1>b, <1>c, <1>d, ZenonT(60) DEF OwnRun
  <2> QED
    BY <2>1, OwnTicks, ZenonT(60) DEF IInv
<1>6. InitRuns'
  <2>1. initproc # q
    BY <1>b, ZenonT(60) DEF IInv, InitRuns
  <2> QED
    BY <1>b, <1>c, <2>1, Consts, ZenonT(60) DEF IInv, Types, InitRuns
<1>7. WaitSleepers'
  <2>1. \A r \in Procs : /\ state'[r] = "SLEEPING" => state[r] = "SLEEPING"
                         /\ state'[r] = "ZOMBIE" => state[r] = "ZOMBIE"
    BY <1>c, ZenonT(60)
  <2>2. ASSUME NEW r \in Procs, state'[r] = "SLEEPING", why[r] = "wait"
        PROVE  /\ chan[r] = r /\ ~killed[r]
               /\ \E s \in Procs : parent[s] = r
               /\ \A s \in Procs : parent[s] = r => state'[s] # "ZOMBIE"
    BY <2>1, <2>2, ZenonT(60) DEF IInv, WaitSleepers
  <2> QED
    BY <1>b, <2>2, ZenonT(60) DEF WaitSleepers
<1>8. TickSleepers'
  <2>1. \A r \in Procs : Elapsed(r)' <=> Elapsed(r)
    BY <1>b, SameElapsed, ZenonT(60)
  <2>2. \A r \in Procs : /\ pc'[r] = "tsleep" => pc[r] = "tsleep"
                         /\ state'[r] = "SLEEPING" => state[r] = "SLEEPING"
    BY <1>c, ZenonT(60)
  <2> QED
    BY <1>b, <2>1, <2>2, ZenonT(60) DEF IInv, TickSleepers, TicksChan
<1> QED
  BY <1>1, <1>2, <1>3, <1>4, <1>5, <1>6, <1>7, <1>8, ZenonT(60) DEF IInv

(* fork makes the slot that it owns RUNNABLE. *)
LEMMA forkStep ==
  ASSUME NEW c \in CPUs, NEW p \in Procs
  PROVE  Keeps(fork(c, p))
<1> SUFFICES ASSUME IInv, fork(c, p) PROVE IInv'
  BY ZenonT(60) DEF Keeps
<1>a. np[p] \in Procs /\ state[np[p]] = "EMBRYO"
  <2>1. pc[p] = "fork"
    BY ZenonT(60) DEF fork
  <2>2. np[p] # None /\ state[np[p]] = "EMBRYO"
    BY <2>1, ZenonT(60) DEF IInv, Slots
  <2>3. np[p] \in Procs \cup {None}
    BY ZenonT(60) DEF IInv, Types
  <2> QED
    BY <2>2, <2>3, ZenonT(60)
<1>b. PICK q \in Procs :
        /\ q = np[p] /\ state[q] = "EMBRYO" /\ q \in kstack
        /\ stack[c] = p /\ ctx[p] = "on" /\ intr[c] = "no" /\ pc[p] = "fork"
        /\ state' = [state EXCEPT ![q] = "RUNNABLE"] /\ np' = [np EXCEPT ![p] = None]
        /\ pc' = [pc EXCEPT ![p] = IF killed'[p] THEN "exit" ELSE "user"]
        /\ UNCHANGED <<pid, parent, chan, killed, kstack, nextpid, ptlock, clock, cpuv, ctx, why, tsl>>
  BY <1>a, ZenonT(60) DEF fork, Runs, UserRet
<1>c. /\ \A r \in Procs \ {q} : state'[r] = state[r]
      /\ \A r \in Procs \ {p} : pc'[r] = pc[r] /\ np'[r] = np[r]
      /\ state'[q] = "RUNNABLE" /\ pc'[p] \in {"exit", "user"}
  BY <1>b, ZenonT(60) DEF IInv, Types
<1>d. state[p] = "RUNNING" /\ q # p /\ \A d \in CPUs : stack[d] = p => d = c
  BY <1>b, Runner, ZenonT(60)
<1>1. Types'
  BY ZenonT(60) DEF IInv, Types, Slots, fork, UserRet, States
<1>2. OnCpu'
  <2>1. ~InUse(q)
    BY <1>b, ZenonT(60) DEF InUse
  <2>2. \A d \in CPUs : stack[d] # None => stack[d] \in Procs /\ InUse(stack[d])
    BY OnStack, ZenonT(60)
  <2>3. ASSUME NEW d \in CPUs, stack[d] # None PROVE state'[stack[d]] = state[stack[d]]
    <3>1. stack[d] \in Procs /\ stack[d] # q
      BY <2>1, <2>2, <2>3, ZenonT(60)
    <3> QED
      BY <1>c, <3>1, ZenonT(60)
  <2> QED
    BY <1>b, <2>3 DEF IInv, OnCpu, InUse
<1>3. Saved'
  <2>1. ctx[q] = "off" /\ why[q] = "forkret"
    BY <1>b, ZenonT(60) DEF IInv, Slots
  <2>2. \A r \in Procs \ {q} : InUse(r)' <=> InUse(r)
    BY <1>c, ZenonT(60) DEF InUse
  <2>3. ASSUME NEW r \in Procs, InUse(r)'
        PROVE  /\ r \in kstack /\ (why[r] = "exit" <=> state'[r] = "ZOMBIE")
               /\ (\A d \in CPUs : stack[d] # r) => ctx[r] = "off" /\ state'[r] # "RUNNING"
    <3>1. CASE r = q
      BY <1>b, <1>c, <2>1, <3>1, ZenonT(60)
    <3>2. CASE r # q
      BY <1>c, <2>2, <2>3, <3>2, ZenonT(60) DEF IInv, Saved
    <3> QED
      BY <3>1, <3>2, ZenonT(60)
  <2> QED
    BY <1>b, <2>3, ZenonT(60) DEF Saved
<1>4. Slots'
  <2>1. \A r \in Procs \ {p} : pc[r] = "fork" => np[r] \in Procs \ {q} /\ np[r] # None /\ state[np[r]] = "EMBRYO"
    BY <1>b DEF IInv, Types, Slots
  <2>2. \A r \in Procs : pc'[r] = "fork" => r # p /\ pc[r] = "fork"
    BY <1>c, ZenonT(60)
  <2>3. ASSUME NEW r \in Procs, pc'[r] = "fork" PROVE np'[r] # None /\ state'[np'[r]] = "EMBRYO"
    <3>1. np'[r] = np[r] /\ np[r] \in Procs \ {q} /\ np[r] # None /\ state[np[r]] = "EMBRYO"
      BY <1>c, <2>1, <2>2, <2>3, ZenonT(60)
    <3> QED
      BY <1>c, <3>1, ZenonT(60)
  <2>4. ASSUME NEW r \in Procs, NEW s \in Procs, pc'[r] = "fork", pc'[s] = "fork", np'[r] = np'[s]
        PROVE  r = s
    <3>1. pc[r] = "fork" /\ pc[s] = "fork" /\ np[r] = np[s]
      BY <1>c, <2>2, <2>4, ZenonT(60)
    <3> QED
      BY <3>1, ZenonT(60) DEF IInv, Slots
  <2>5. \A r \in Procs : /\ r \notin kstack => parent[r] = None
                         /\ parent[r] # r
                         /\ state[r] = "UNUSED" => r \notin kstack
                         /\ state[r] = "EMBRYO" /\ r \in kstack => ctx[r] = "off" /\ why[r] = "forkret" /\ pc[r] = "user"
    BY ZenonT(60) DEF IInv, Slots
  <2>6. ASSUME NEW r \in Procs
        PROVE  /\ state'[r] = "UNUSED" => r \notin kstack
               /\ state'[r] = "EMBRYO" => r # p /\ state[r] = "EMBRYO" /\ pc'[r] = pc[r]
    <3>1. CASE r = q
      BY <1>b, <1>c, <3>1, ZenonT(60)
    <3>2. CASE r # q
      BY <1>c, <1>d, <2>5, <3>2, ZenonT(60)
    <3> QED
      BY <3>1, <3>2, ZenonT(60)
  <2> QED
    BY <1>b, <2>3, <2>4, <2>5, <2>6, ZenonT(60) DEF Slots
<1>5. Ticks'
  <2>1. OwnRun(c, p)
    BY <1>b, <1>c, <1>d, ZenonT(60) DEF OwnRun
  <2> QED
    BY <2>1, OwnTicks, ZenonT(60) DEF IInv
<1>6. InitRuns'
  <2>1. initproc # q
    BY <1>b, ZenonT(60) DEF IInv, InitRuns
  <2> QED
    BY <1>b, <1>c, <2>1, Consts, ZenonT(60) DEF IInv, Types, InitRuns
<1>7. WaitSleepers'
  <2>1. \A r \in Procs : /\ state'[r] = "SLEEPING" => state[r] = "SLEEPING"
                         /\ state'[r] = "ZOMBIE" => state[r] = "ZOMBIE"
    BY <1>c, ZenonT(60)
  <2>2. ASSUME NEW r \in Procs, state'[r] = "SLEEPING", why[r] = "wait"
        PROVE  /\ chan[r] = r /\ ~killed[r]
               /\ \E s \in Procs : parent[s] = r
               /\ \A s \in Procs : parent[s] = r => state'[s] # "ZOMBIE"
    BY <2>1, <2>2, ZenonT(60) DEF IInv, WaitSleepers
  <2> QED
    BY <1>b, <2>2, ZenonT(60) DEF WaitSleepers
<1>8. TickSleepers'
  <2>1. \A r \in Procs : Elapsed(r)' <=> Elapsed(r)
    BY <1>b, SameElapsed, ZenonT(60)
  <2>2. \A r \in Procs : /\ pc'[r] = "tsleep" => pc[r] = "tsleep"
                         /\ state'[r] = "SLEEPING" => state[r] = "SLEEPING"
    BY <1>c, ZenonT(60)
  <2> QED
    BY <1>b, <2>1, <2>2, ZenonT(60) DEF IInv, TickSleepers, TicksChan
<1> QED
  BY <1>1, <1>2, <1>3, <1>4, <1>5, <1>6, <1>7, <1>8, ZenonT(60) DEF IInv

(* allocproc takes a slot that nobody owns. *)
LEMMA allocprocStep ==
  ASSUME NEW c \in CPUs, NEW p \in Procs
  PROVE  Keeps(allocproc(c, p))
<1> SUFFICES ASSUME IInv, allocproc(c, p) PROVE IInv'
  BY ZenonT(60) DEF Keeps
<1>b. PICK q \in Procs :
        /\ state[q] = "UNUSED"
        /\ stack[c] = p /\ ctx[p] = "on" /\ intr[c] = "no" /\ pc[p] = "user"
        /\ state' = [state EXCEPT ![q] = "EMBRYO"]
        /\ pid' = [pid EXCEPT ![q] = nextpid] /\ nextpid' = nextpid + 1
        /\ np' = [np EXCEPT ![p] = q] /\ pc' = [pc EXCEPT ![p] = "fork"]
        /\ UNCHANGED <<parent, chan, killed, kstack, ptlock, clock, cpuv, ctx, why, tsl>>
  BY ZenonT(60) DEF allocproc, Syscall, Runs, TakePid, First, Unused
<1>c. /\ \A r \in Procs \ {q} : state'[r] = state[r]
      /\ \A r \in Procs \ {p} : pc'[r] = pc[r] /\ np'[r] = np[r]
      /\ state'[q] = "EMBRYO" /\ pc'[p] = "fork" /\ np'[p] = q
  BY <1>b, ZenonT(60) DEF IInv, Types
<1>d. state[p] = "RUNNING" /\ q # p /\ \A d \in CPUs : stack[d] = p => d = c
  BY <1>b, Runner, ZenonT(60)
<1>e. /\ ~InUse(q) /\ ~InUse(q)'
      /\ \A r \in Procs : InUse(r)' <=> InUse(r)
      /\ \A r \in Procs : InUse(r) => state'[r] = state[r]
  BY <1>b, <1>c, ZenonT(60) DEF InUse
<1>1. Types'
  BY <1>b DEF IInv, Types, States
<1>2. OnCpu'
  <2>1. \A d \in CPUs : stack[d] # None => stack[d] \in Procs /\ InUse(stack[d])
    BY OnStack, ZenonT(60)
  <2>2. \A d \in CPUs : stack[d] # None => state'[stack[d]] = state[stack[d]] /\ InUse(stack[d])'
    BY <1>b, <1>e, <2>1, ZenonT(60) DEF InUse
  <2> QED
    BY <1>b, <2>2 DEF IInv, OnCpu
<1>3. Saved'
  BY <1>b, <1>e, ZenonT(60) DEF IInv, Saved
<1>4. Slots'
  <2>1. q \notin kstack /\ \A r \in Procs : pc[r] = "fork" => np[r] \in Procs /\ np[r] # None /\ np[r] # q /\ state'[np[r]] = "EMBRYO"
    BY <1>b, <1>c DEF IInv, Types, Slots
  <2>2. ASSUME NEW r \in Procs
        PROVE  /\ state'[r] = "UNUSED" => state[r] = "UNUSED"
               /\ state'[r] = "EMBRYO" /\ r \in kstack => state[r] = "EMBRYO" /\ pc'[r] = pc[r]
    <3>1. CASE r = q
      BY <1>c, <2>1, <3>1, ZenonT(60)
    <3>2. CASE r # q
      BY <1>c, <1>d, <3>2, ZenonT(60)
    <3> QED
      BY <3>1, <3>2, ZenonT(60)
  <2>3. \A r \in Procs : /\ r \notin kstack => parent[r] = None
                         /\ parent[r] # r
                         /\ state[r] = "UNUSED" => r \notin kstack
                         /\ state[r] = "EMBRYO" /\ r \in kstack => ctx[r] = "off" /\ why[r] = "forkret" /\ pc[r] = "user"
    BY ZenonT(60) DEF IInv, Slots
  <2>4. \A r \in Procs : pc'[r] = "fork" => np'[r] # None /\ state'[np'[r]] = "EMBRYO"
    BY <1>c, <2>1, Consts, ZenonT(60)
  <2>5. ASSUME NEW r \in Procs, NEW s \in Procs, pc'[r] = "fork", pc'[s] = "fork", np'[r] = np'[s]
        PROVE  r = s
    <3>1. CASE r # p /\ s # p
      <4>1. pc[r] = "fork" /\ pc[s] = "fork" /\ np[r] = np[s]
        BY <1>c, <2>5, <3>1, ZenonT(60)
      <4> QED
        BY <4>1, ZenonT(60) DEF IInv, Slots
    <3>2. CASE r = p \/ s = p
      BY <1>c, <2>1, <2>5, <3>2, ZenonT(60)
    <3> QED
      BY <3>1, <3>2, ZenonT(60)
  <2> QED
    BY <1>b, <2>2, <2>3, <2>4, <2>5, ZenonT(60) DEF Slots
<1>5. Ticks'
  <2>1. OwnRun(c, p)
    BY <1>b, <1>c, <1>d, ZenonT(60) DEF OwnRun
  <2> QED
    BY <2>1, OwnTicks, ZenonT(60) DEF IInv
<1>6. InitRuns'
  <2>1. initproc # q
    BY <1>b, ZenonT(60) DEF IInv, InitRuns
  <2> QED
    BY <1>b, <1>c, <2>1, Consts, ZenonT(60) DEF IInv, Types, InitRuns
<1>7. WaitSleepers'
  <2>1. \A r \in Procs : /\ state'[r] = "SLEEPING" => state[r] = "SLEEPING"
                         /\ state'[r] = "ZOMBIE" => state[r] = "ZOMBIE"
    BY <1>c, ZenonT(60)
  <2> QED
    BY <1>b, <2>1, ZenonT(60) DEF IInv, WaitSleepers
<1>8. TickSleepers'
  <2>1. \A r \in Procs : Elapsed(r)' <=> Elapsed(r)
    BY <1>b, SameElapsed, ZenonT(60)
  <2>2. \A r \in Procs : /\ pc'[r] = "tsleep" => pc[r] = "tsleep"
                         /\ state'[r] = "SLEEPING" => state[r] = "SLEEPING"
    BY <1>c, ZenonT(60)
  <2> QED
    BY <1>b, <2>1, <2>2, ZenonT(60) DEF IInv, TickSleepers, TicksChan
<1> QED
  BY <1>1, <1>2, <1>3, <1>4, <1>5, <1>6, <1>7, <1>8, ZenonT(60) DEF IInv

(* The clock interrupt. *)
LEMMA TickStep ==
  ASSUME NEW c \in CPUs
  PROVE  Keeps(Tick(c))
<1> SUFFICES ASSUME IInv, Tick(c) PROVE IInv'
  BY ZenonT(60) DEF Keeps
<1>1. Types'
  BY ZenonT(60) DEF IInv, Types, Tick
<1>2. OnCpu'
  BY DEF IInv, OnCpu, InUse, Tick, Interruptible
<1>3. Saved'
  BY ZenonT(60) DEF IInv, Saved, InUse, Tick
<1>4. Slots'
  BY ZenonT(60) DEF IInv, Slots, Tick
<1>5. Ticks'
  BY Consts DEF IInv, Types, Ticks, Tick
<1>6. InitRuns'
  BY ZenonT(60) DEF IInv, InitRuns, Tick
<1>7. WaitSleepers'
  BY ZenonT(60) DEF IInv, WaitSleepers, Tick
<1>8. TickSleepers'
  BY Consts DEF IInv, Types, Ticks, TickSleepers, Tick
<1> QED
  BY <1>1, <1>2, <1>3, <1>4, <1>5, <1>6, <1>7, <1>8, ZenonT(60) DEF IInv

(* The interrupt handler wakes the sleepers. *)
LEMMA TickWakeupStep ==
  ASSUME NEW c \in CPUs
  PROVE  Keeps(TickWakeup(c))
<1> SUFFICES ASSUME IInv, TickWakeup(c) PROVE IInv'
  BY ZenonT(60) DEF Keeps
<1>1. Types'
  BY ZenonT(60) DEF IInv, Types, TickWakeup, wakeup1, States
<1>2. OnCpu'
  BY Consts DEF IInv, Types, OnCpu, InUse, TickWakeup, wakeup1
<1>3. Saved'
  BY ZenonT(60) DEF IInv, Saved, InUse, TickWakeup, wakeup1
<1>4. Slots'
  BY ZenonT(60) DEF IInv, Types, Slots, TickWakeup, wakeup1
<1>5. Ticks'
  BY Consts DEF IInv, Types, Ticks, TickWakeup
<1>6. InitRuns'
  BY Consts, ZenonT(60) DEF IInv, InitRuns, TickWakeup, wakeup1
<1>7. WaitSleepers'
  BY ZenonT(60) DEF IInv, WaitSleepers, TickWakeup, wakeup1
<1>8. TickSleepers'
  BY SameElapsed, ZenonT(60) DEF IInv, TickSleepers, TickWakeup, wakeup1
<1> QED
  BY <1>1, <1>2, <1>3, <1>4, <1>5, <1>6, <1>7, <1>8, ZenonT(60) DEF IInv

(* sys_sleep tests the time. *)
LEMMA TicksTestStep ==
  ASSUME NEW c \in CPUs, NEW p \in Procs
  PROVE  Keeps(TicksTest(c, p))
<1> SUFFICES ASSUME IInv, TicksTest(c, p) PROVE IInv'
  BY ZenonT(60) DEF Keeps
<1>a. /\ stack[c] = p /\ ctx[p] = "on" /\ intr[c] = "no" /\ pc[p] = "ticks" /\ tklock = None
      /\ UNCHANGED <<table, ptlock, ticks, intr, cpuv, ctx, why, np>>
      /\ \A r \in Procs \ {p} : pc'[r] = pc[r] /\ tsl'[r] = tsl[r]
      /\ pc'[p] # "fork" /\ DOMAIN tsl' = Procs
  BY ZenonT(60) DEF IInv, Types, TickSleepers, TicksTest, Runs
<1>b. \/ tklock' = None /\ pc'[p] # "tsleep"
      \/ tklock' = c /\ pc'[p] = "tsleep" /\ ~Elapsed(p) /\ UNCHANGED tsl
  BY <1>a, ZenonT(60) DEF IInv, Types, TicksTest, KeepTicksLock
<1>c. state[p] = "RUNNING" /\ \A d \in CPUs : stack[d] = p => d = c
  BY <1>a, Runner, ZenonT(60)
<1>d. \A d \in CPUs : tklock # d
  BY <1>a, Consts, ZenonT(60)
<1>e. /\ \A d \in CPUs : intr[d] # "wakeup"
      /\ \A r \in Procs : pc[r] # "tsleep"
  BY <1>d, ZenonT(60) DEF IInv, Ticks
<1>1. Types'
  BY ZenonT(60) DEF IInv, Types, TicksTest, KeepTicksLock
<1>2. OnCpu'
  <2>1. \A d \in CPUs : stack[d] # None /\ ctx[stack[d]] = "sched" => tklock' # d
    BY <1>a, <1>b, <1>d, ZenonT(60)
  <2> QED
    BY <1>a, <2>1, ZenonT(60) DEF IInv, OnCpu, InUse
<1>3. Saved'
  BY <1>a, ZenonT(60) DEF IInv, Saved, InUse
<1>4. Slots'
  <2>1. \A r \in Procs : pc'[r] = "fork" => pc[r] = "fork"
    BY <1>a, ZenonT(60)
  <2>2. \A r \in Procs : state[r] = "EMBRYO" => pc'[r] = pc[r]
    BY <1>a, <1>c, ZenonT(60)
  <2> QED
    BY <1>a, <2>1, <2>2 DEF IInv, Slots
<1>5. Ticks'
  <2>1. \A r \in Procs : pc'[r] = "tsleep" => r = p
    BY <1>a, <1>e, ZenonT(60)
  <2> QED
    BY <1>a, <1>b, <1>e, <2>1, Consts DEF Ticks
<1>6. InitRuns'
  BY ZenonT(60) DEF IInv, InitRuns, TicksTest
<1>7. WaitSleepers'
  <2>1. WaitSleepers
    BY ZenonT(60) DEF IInv
  <2> QED
    BY <1>a, <2>1, ZenonT(60) DEF WaitSleepers
<1>8. TickSleepers'
  <2>1. \A r \in Procs \ {p} : Elapsed(r)' <=> Elapsed(r)
    BY <1>a, SameElapsed, ZenonT(60)
  <2>2. pc'[p] = "tsleep" => ~Elapsed(p)'
    BY <1>a, <1>b, SameElapsed, ZenonT(60)
  <2>3. \A r \in Procs : /\ pc'[r] = "tsleep" => r = p
                         /\ state[r] = "SLEEPING" => r # p
    BY <1>a, <1>c, <1>e, ZenonT(60)
  <2> QED
    BY <1>a, <2>1, <2>2, <2>3, ZenonT(60) DEF IInv, TickSleepers, TicksChan
<1> QED
  BY <1>1, <1>2, <1>3, <1>4, <1>5, <1>6, <1>7, <1>8, ZenonT(60) DEF IInv

(* sleep on ticks. *)
LEMMA sleepStep ==
  ASSUME NEW c \in CPUs, NEW p \in Procs
  PROVE  Keeps(sleep(c, p))
<1> SUFFICES ASSUME IInv, sleep(c, p) PROVE IInv'
  BY ZenonT(60) DEF Keeps
<1>1. Types'
  BY ZenonT(60) DEF IInv, Types, sleep, ReleaseLk, EnterSched, States
<1>2. OnCpu'
  BY Consts DEF IInv, Types, OnCpu, InUse, sleep, Runs, ReleaseLk, EnterSched
<1>3. Saved'
  BY Consts DEF IInv, OnCpu, Saved, InUse, sleep, Runs, EnterSched
<1>4. Slots'
  BY DEF IInv, OnCpu, Slots, sleep, Runs, EnterSched
<1>5. Ticks'
  BY Consts DEF IInv, Types, Ticks, sleep, ReleaseLk
<1>6. InitRuns'
  BY DEF IInv, InitRuns, sleep
<1>7. WaitSleepers'
  BY DEF IInv, Types, WaitSleepers, sleep, EnterSched
<1>8. TickSleepers'
  <2>1. /\ pc[p] = "tsleep" /\ UNCHANGED <<ticks, tsl, intr>>
        /\ \A r \in Procs : r # p => pc'[r] = pc[r] /\ state'[r] = state[r] /\ chan'[r] = chan[r]
    BY ZenonT(60) DEF IInv, Types, sleep
  <2>2. pc'[p] = "ticks" /\ \A r \in Procs : Elapsed(r)' <=> Elapsed(r)
    BY <2>1, SameElapsed, ZenonT(60) DEF IInv, Types, sleep
  <2> QED
    BY <2>1, <2>2, ZenonT(60) DEF IInv, TickSleepers
<1> QED
  BY <1>1, <1>2, <1>3, <1>4, <1>5, <1>6, <1>7, <1>8, ZenonT(60) DEF IInv

(* sys_sleep reads the time. *)
LEMMA sys_sleepStep ==
  ASSUME NEW c \in CPUs, NEW p \in Procs, NEW n
  PROVE  Keeps(sys_sleep(c, p, n))
<1> SUFFICES ASSUME IInv, sys_sleep(c, p, n) PROVE IInv'
  BY ZenonT(60) DEF Keeps
<1>a. /\ stack[c] = p /\ ctx[p] = "on" /\ intr[c] = "no" /\ pc[p] = "user"
      /\ pc'[p] = "ticks" /\ \A r \in Procs \ {p} : pc'[r] = pc[r] /\ tsl'[r] = tsl[r]
      /\ DOMAIN tsl' = Procs
      /\ UNCHANGED <<table, ptlock, clock, cpuv, ctx, why, np>>
  BY ZenonT(60) DEF IInv, Types, TickSleepers, sys_sleep, Syscall, Runs
<1>b. /\ state[p] = "RUNNING" /\ why[p] # "exit" /\ \A d \in CPUs : stack[d] = p => d = c
  BY <1>a, Runner, ZenonT(60)
<1>1. Types'
  BY ZenonT(60) DEF IInv, Types, sys_sleep
<1>o. OwnRun(c, p) /\ OwnState(c, p)
  BY <1>a, <1>b, ZenonT(60) DEF OwnRun, OwnState, InUse
<1>2. OnCpu' /\ Saved' /\ Slots' /\ Ticks' /\ TickSleepers'
  BY <1>a, <1>o, OwnStep, ZenonT(60)
<1>6. InitRuns'
  BY ZenonT(60) DEF IInv, InitRuns, sys_sleep
<1>7. WaitSleepers'
  BY ZenonT(60) DEF IInv, WaitSleepers, sys_sleep
<1> QED
  BY <1>1, <1>2, <1>6, <1>7, ZenonT(60) DEF IInv

(* A process, never init, starts to exit. *)
LEMMA StartExitStep ==
  ASSUME NEW c \in CPUs, NEW p \in Procs
  PROVE  Keeps(StartExit(c, p))
<1> SUFFICES ASSUME IInv, StartExit(c, p) PROVE IInv'
  BY ZenonT(60) DEF Keeps
<1>a. /\ stack[c] = p /\ ctx[p] = "on" /\ intr[c] = "no" /\ pc[p] = "user"
      /\ pc'[p] = "exit" /\ \A r \in Procs \ {p} : pc'[r] = pc[r]
      /\ UNCHANGED <<table, ptlock, clock, cpuv, ctx, why, np, tsl>> /\ DOMAIN tsl' = Procs
  BY ZenonT(60) DEF IInv, Types, TickSleepers, StartExit, Runs
<1>b. /\ state[p] = "RUNNING" /\ why[p] # "exit" /\ \A d \in CPUs : stack[d] = p => d = c
  BY <1>a, Runner, ZenonT(60)
<1>1. Types'
  BY ZenonT(60) DEF IInv, Types, StartExit
<1>o. OwnRun(c, p) /\ OwnState(c, p)
  BY <1>a, <1>b, ZenonT(60) DEF OwnRun, OwnState, InUse
<1>2. OnCpu' /\ Saved' /\ Slots' /\ Ticks' /\ TickSleepers'
  BY <1>a, <1>o, OwnStep, ZenonT(60)
<1>6. InitRuns'
  BY ZenonT(60) DEF IInv, InitRuns, StartExit
<1>7. WaitSleepers'
  BY ZenonT(60) DEF IInv, WaitSleepers, StartExit
<1> QED
  BY <1>1, <1>2, <1>6, <1>7, ZenonT(60) DEF IInv

(* A fork that finds no slot changes nothing but where the process goes on. *)
LEMMA NoSlotStep ==
  ASSUME NEW c \in CPUs, NEW p \in Procs
  PROVE  Keeps(NoSlot(c, p))
<1> SUFFICES ASSUME IInv, NoSlot(c, p) PROVE IInv'
  BY ZenonT(60) DEF Keeps
<1>a. /\ stack[c] = p /\ ctx[p] = "on" /\ intr[c] = "no" /\ pc[p] = "user"
      /\ pc'[p] \in {"exit", "user"} /\ \A r \in Procs \ {p} : pc'[r] = pc[r]
      /\ UNCHANGED <<table, ptlock, clock, cpuv, ctx, why, np, tsl>> /\ DOMAIN tsl' = Procs
  BY ZenonT(60) DEF IInv, Types, TickSleepers, NoSlot, Syscall, Runs, ForkFailed, UserRet
<1>b. /\ state[p] = "RUNNING" /\ why[p] # "exit" /\ \A d \in CPUs : stack[d] = p => d = c
  BY <1>a, Runner, ZenonT(60)
<1>1. Types'
  BY ZenonT(60) DEF IInv, Types, NoSlot, ForkFailed, UserRet
<1>o. OwnRun(c, p) /\ OwnState(c, p)
  BY <1>a, <1>b, ZenonT(60) DEF OwnRun, OwnState, InUse
<1>2. OnCpu' /\ Saved' /\ Slots' /\ Ticks' /\ TickSleepers'
  BY <1>a, <1>o, OwnStep, ZenonT(60)
<1>6. InitRuns'
  BY ZenonT(60) DEF IInv, InitRuns, NoSlot
<1>7. WaitSleepers'
  BY ZenonT(60) DEF IInv, WaitSleepers, NoSlot
<1> QED
  BY <1>1, <1>2, <1>6, <1>7, ZenonT(60) DEF IInv

(* kill marks and wakes a process. *)
LEMMA killStep ==
  ASSUME NEW c \in CPUs, NEW p \in Procs, NEW n
  PROVE  Keeps(kill(c, p, n))
<1> SUFFICES ASSUME IInv, kill(c, p, n) PROVE IInv'
  BY ZenonT(60) DEF Keeps
<1>b. PICK q \in Procs :
        /\ pid[q] = n
        /\ stack[c] = p /\ ctx[p] = "on" /\ intr[c] = "no" /\ pc[p] = "user" /\ ptlock = None
        /\ killed' = [killed EXCEPT ![q] = TRUE]
        /\ state' = IF state[q] = "SLEEPING" THEN [state EXCEPT ![q] = "RUNNABLE"] ELSE state
        /\ pc' = [pc EXCEPT ![p] = IF killed'[p] THEN "exit" ELSE "user"]
        /\ UNCHANGED <<pid, parent, chan, kstack, nextpid, ptlock, clock, cpuv, ctx, why, np, tsl>>
  BY ZenonT(60) DEF kill, Syscall, Runs, KillWake, UserRet, First
<1>c. /\ \A r \in Procs : state'[r] = state[r] \/ (state[r] = "SLEEPING" /\ state'[r] = "RUNNABLE")
      /\ \A r \in Procs \ {p} : pc'[r] = pc[r]
      /\ pc'[p] # "fork" /\ pc'[p] # "tsleep" /\ DOMAIN tsl' = Procs
  BY <1>b, ZenonT(60) DEF IInv, Types, TickSleepers
<1>d. /\ state[p] = "RUNNING" /\ InUse(p) /\ why[p] # "exit"
      /\ \A d \in CPUs : stack[d] = p => d = c
  BY <1>b, Runner, ZenonT(60)
<1>1. Types'
  BY <1>b, ZenonT(60) DEF IInv, Types, States
<1>o. OwnRun(c, p) /\ OwnState(c, p)
  BY <1>b, <1>c, <1>d, ZenonT(60) DEF OwnRun, OwnState, InUse
<1>2. OnCpu' /\ Saved' /\ Slots' /\ Ticks' /\ TickSleepers'
  BY <1>b, <1>o, OwnStep, ZenonT(60)
<1>6. InitRuns'
  BY <1>b DEF IInv, InitRuns
<1>7. WaitSleepers'
  BY <1>b DEF IInv, Types, WaitSleepers
<1> QED
  BY <1>1, <1>2, <1>6, <1>7, ZenonT(60) DEF IInv

(* The clock interrupt preempts a process, or sends it to exit. *)
LEMMA yieldStep ==
  ASSUME NEW c \in CPUs
  PROVE  Keeps(yield(c))
<1> SUFFICES ASSUME IInv, yield(c) PROVE IInv'
  BY ZenonT(60) DEF Keeps
<1>a. PICK p \in Procs : p = stack[c]
  BY DEF IInv, Types, yield
<1>b. /\ stack[c] = p /\ state[p] = "RUNNING" /\ ctx[p] = "on" /\ tklock # c /\ ptlock # c /\ pc[p] # "tsleep"
      /\ intr' = [intr EXCEPT ![c] = "no"] /\ intr[c] # "wakeup"
      /\ UNCHANGED <<pid, parent, chan, killed, kstack, nextpid, tklock, ticks, cpuv, np, tsl>>
  BY <1>a, Consts DEF IInv, OnCpu, Ticks, yield, Interruptible
<1>c. /\ state[p] = "RUNNING" /\ InUse(p) /\ why[p] # "exit"
      /\ \A d \in CPUs : stack[d] = p => d = c
      /\ intr'[c] = "no" /\ \A d \in CPUs \ {c} : intr'[d] = intr[d]
  BY <1>b, Runner, ZenonT(60) DEF IInv, Types
<1>1. CASE killed[p] /\ pc[p] = "user"
  <2>a. pc' = [pc EXCEPT ![p] = "exit"] /\ UNCHANGED <<state, ptlock, ctx, why>>
    BY <1>a, <1>1, ZenonT(60) DEF IInv, Types, yield
  <2>b. /\ \A r \in Procs \ {p} : ctx'[r] = ctx[r] /\ why'[r] = why[r] /\ pc'[r] = pc[r]
        /\ pc'[p] = "exit" /\ DOMAIN tsl' = Procs
    BY <1>b, <2>a, ZenonT(60) DEF IInv, Types, TickSleepers
  <2>1. Types'
    BY <1>b, <2>a, ZenonT(60) DEF IInv, Types
  <2>2. OwnRun(c, p) /\ OwnState(c, p)
    BY <1>b, <1>c, <2>a, <2>b, ZenonT(60) DEF OwnRun, OwnState, InUse
  <2>3. OnCpu' /\ Saved' /\ Slots' /\ Ticks' /\ TickSleepers'
    BY <1>b, <2>2, OwnStep, ZenonT(60)
  <2>4. InitRuns' /\ WaitSleepers'
    BY <1>b, <2>a, ZenonT(60) DEF IInv, InitRuns, WaitSleepers
  <2> QED
    BY <2>1, <2>3, <2>4, ZenonT(60) DEF IInv
<1>2. CASE ~(killed[p] /\ pc[p] = "user")
  <2>a. /\ ptlock = None /\ state' = [state EXCEPT ![p] = "RUNNABLE"] /\ UNCHANGED pc
        /\ ptlock' = c /\ ctx' = [ctx EXCEPT ![p] = "sched"] /\ why' = [why EXCEPT ![p] = "yield"]
    BY <1>a, <1>2, ZenonT(60) DEF IInv, Types, yield, EnterSched
  <2>b. /\ \A r \in Procs \ {p} : ctx'[r] = ctx[r] /\ why'[r] = why[r] /\ state'[r] = state[r]
        /\ state'[p] = "RUNNABLE" /\ ctx'[p] = "sched" /\ why'[p] = "yield" /\ DOMAIN tsl' = Procs
    BY <1>b, <2>a, ZenonT(60) DEF IInv, Types, TickSleepers
  <2>1. Types'
    BY <1>b, <2>a, ZenonT(60) DEF IInv, Types, States
  <2>2. OwnRun(c, p) /\ OwnState(c, p)
    BY <1>b, <1>c, <2>a, <2>b, ZenonT(60) DEF OwnRun, OwnState, InUse
  <2>3. OnCpu' /\ Saved' /\ Slots' /\ Ticks' /\ TickSleepers'
    BY <1>b, <2>2, OwnStep, ZenonT(60)
  <2>4. InitRuns'
    BY <1>b, <2>b, Consts, ZenonT(60) DEF IInv, InitRuns
  <2>5. WaitSleepers'
    <3>1. \A r \in Procs : state'[r] = "SLEEPING" => r # p
      BY <2>b, ZenonT(60)
    <3>2. \A r \in Procs : state'[r] = "ZOMBIE" => state[r] = "ZOMBIE"
      BY <2>b, ZenonT(60)
    <3> QED
      BY <1>b, <2>b, <3>1, <3>2 DEF IInv, WaitSleepers
  <2> QED
    BY <2>1, <2>3, <2>4, <2>5, ZenonT(60) DEF IInv
<1> QED
  BY <1>1, <1>2, ZenonT(60)

(* exit passes its children to init and wakes those who wait for it. *)
LEMMA exitStep ==
  ASSUME NEW c \in CPUs, NEW p \in Procs
  PROVE  Keeps(exit(c, p))
<1> SUFFICES ASSUME IInv, exit(c, p) PROVE IInv'
  BY ZenonT(60) DEF Keeps
<1>a. /\ stack[c] = p /\ ctx[p] = "on" /\ intr[c] = "no" /\ pc[p] = "exit" /\ p # initproc /\ ptlock = None
      /\ ptlock' = c /\ ctx' = [ctx EXCEPT ![p] = "sched"] /\ why' = [why EXCEPT ![p] = "exit"]
      /\ UNCHANGED <<pid, chan, killed, kstack, nextpid, clock, cpuv, pc, np, tsl>>
  BY ZenonT(60) DEF exit, Runs, EnterSched
<1>b. /\ state' \in [Procs -> States] /\ state'[p] = "ZOMBIE"
      /\ \A q \in Procs \ {p} : state'[q] = state[q] \/ (state[q] = "SLEEPING" /\ state'[q] = "RUNNABLE")
  BY ZenonT(60) DEF exit, IInv, Types, States, WakeInit, wakeup1
<1>c. \A q \in Procs \ {p} : state'[q] = "SLEEPING" =>
        chan[q] # parent[p] /\ (Zombies(p) # {} => chan[q] # initproc)
  BY ZenonT(60) DEF exit, WakeInit, wakeup1
<1>d. parent' = [q \in Procs |-> IF parent[q] = p THEN initproc ELSE parent[q]]
  BY ZenonT(60) DEF exit, IInv, Types, Update, Abandoned, Children
<1>e. tklock # c
  BY <1>a, ZenonT(60) DEF IInv, Ticks
<1>f. /\ \A q \in Procs \ {p} : ctx'[q] = ctx[q] /\ why'[q] = why[q]
  BY <1>a, ZenonT(60) DEF IInv, Types
<1>g. /\ state[p] = "RUNNING" /\ why[p] # "exit" /\ InUse(p) /\ ctx'[p] = "sched" /\ why'[p] = "exit" /\ DOMAIN tsl' = Procs
      /\ \A d \in CPUs : stack[d] = p => d = c
  BY <1>a, Runner, ZenonT(60) DEF IInv, Types, TickSleepers
<1>1. Types'
  BY Consts, <1>a, <1>b, <1>d, ZenonT(60) DEF IInv, Types
<1>2. OwnRun(c, p) /\ OwnState(c, p)
  BY <1>a, <1>b, <1>e, <1>f, <1>g, ZenonT(60) DEF OwnRun, OwnState, InUse
<1>3. OnCpu' /\ Saved' /\ Ticks' /\ TickSleepers'
  BY <1>2, OwnStep, ZenonT(60)
<1>4. Slots'
  <2>1. \A q \in Procs : /\ state'[q] = "UNUSED" <=> state[q] = "UNUSED"
                         /\ state'[q] = "EMBRYO" <=> state[q] = "EMBRYO"
    BY <1>b, <1>g, ZenonT(60)
  <2>2. \A q \in Procs : /\ q \notin kstack => parent'[q] = None
                         /\ parent'[q] # q
    BY <1>d, Consts DEF IInv, Slots, InitRuns
  <2>3. \A q \in Procs : state[q] = "EMBRYO" => ctx'[q] = ctx[q] /\ why'[q] = why[q]
    BY <1>f, <1>g, ZenonT(60)
  <2>4. \A q \in Procs : pc[q] = "fork" => np[q] # None /\ state'[np[q]] = "EMBRYO"
    BY <2>1 DEF IInv, Types, Slots
  <2>5. \A q \in Procs : state'[q] = "EMBRYO" /\ q \in kstack =>
          ctx'[q] = "off" /\ why'[q] = "forkret" /\ pc[q] = "user"
    BY <2>1, <2>3 DEF IInv, Slots
  <2>6. \A q \in Procs : state'[q] = "UNUSED" => q \notin kstack
    BY <2>1, ZenonT(60) DEF IInv, Slots
  <2>7. \A q, r \in Procs : pc[q] = "fork" /\ pc[r] = "fork" /\ np[q] = np[r] => q = r
    BY ZenonT(60) DEF IInv, Slots
  <2> QED
    BY <1>a, <2>2, <2>4, <2>5, <2>6, <2>7, ZenonT(60) DEF Slots
<1>6. InitRuns'
  BY Consts, <1>a, <1>b, <1>d, ZenonT(60) DEF IInv, InitRuns
<1>7. WaitSleepers'
  <2> SUFFICES ASSUME NEW r \in Procs, state'[r] = "SLEEPING", why'[r] = "wait"
               PROVE  /\ chan[r] = r /\ ~killed[r]
                      /\ \E q \in Procs : parent'[q] = r
                      /\ \A q \in Procs : parent'[q] = r => state'[q] # "ZOMBIE"
    BY <1>a, ZenonT(60) DEF WaitSleepers
  <2>1. r # p /\ state[r] = "SLEEPING" /\ why[r] = "wait"
    BY <1>a, <1>b
  <2>2. /\ chan[r] = r /\ ~killed[r]
        /\ \E q \in Procs : parent[q] = r
        /\ \A q \in Procs : parent[q] = r => state[q] # "ZOMBIE"
    BY <2>1, ZenonT(60) DEF IInv, WaitSleepers
  <2>3. parent[p] # r
    BY <1>c, <2>1, <2>2, ZenonT(60)
  <2>4. \E q \in Procs : parent'[q] = r
    BY <1>d, <2>1, <2>2, ZenonT(60)
  <2>5. ASSUME NEW q \in Procs, parent'[q] = r PROVE state'[q] # "ZOMBIE"
    <3>1. CASE parent[q] = p /\ q # p
      <4>1. r = initproc
        BY <1>d, <2>5, <3>1, ZenonT(60)
      <4>2. state[q] # "ZOMBIE"
        BY <1>c, <2>2, <3>1, <4>1, ZenonT(60) DEF Zombies, Children
      <4> QED
        BY <3>1, <4>2, <1>b, ZenonT(60)
    <3>2. CASE q = p
      BY <1>d, <2>3, <2>5, <3>2, ZenonT(60) DEF IInv, Slots
    <3>3. CASE parent[q] # p
      BY <1>b, <1>d, <2>2, <2>3, <2>5, <3>3, ZenonT(60)
    <3> QED
      BY <3>1, <3>2, <3>3, ZenonT(60)
  <2> QED
    BY <2>2, <2>4, <2>5, ZenonT(60)
<1> QED
  BY <1>1, <1>3, <1>4, <1>6, <1>7, ZenonT(60) DEF IInv

(* A turn of the loop of wait, in wait or after sched. *)
Scans(c, p) ==
  /\ stack[c] = p /\ intr[c] = "no" /\ ctx[p] \in {"on", "off"} /\ pc[p] # "tsleep"
  /\ ptlock \in {None, c}
  /\ WaitScan(c, p)
  /\ UNCHANGED <<nextpid, clock, cpuv, np, tsl>>

(* A turn of the loop of wait: the zombie it frees is on no CPU. *)
LEMMA WaitScanStep ==
  ASSUME NEW c \in CPUs, NEW p \in Procs
  PROVE  Keeps(Scans(c, p))
<1> SUFFICES ASSUME IInv, Scans(c, p) PROVE IInv'
  BY ZenonT(60) DEF Keeps
<1> USE DEF Scans
<1>a. state[p] = "RUNNING" /\ tklock # c
  BY Consts DEF IInv, OnCpu, Ticks
<1>b. /\ InUse(p) /\ why[p] # "exit" /\ UNCHANGED <<tklock, ticks, intr, stack, np, tsl>>
      /\ stack[c] = p /\ \A d \in CPUs : stack[d] = p => d = c
      /\ DOMAIN tsl' = Procs
  BY Runner, ZenonT(60) DEF IInv, TickSleepers
<1>1. CASE Reap(p)
  <2>b. PICK q \in Procs :
          /\ parent[q] = p /\ state[q] = "ZOMBIE"
          /\ state' = [state EXCEPT ![q] = "UNUSED"] /\ pid' = [pid EXCEPT ![q] = 0]
          /\ parent' = [parent EXCEPT ![q] = None] /\ killed' = [killed EXCEPT ![q] = FALSE]
          /\ kstack' = kstack \ {q}
    BY <1>1, ZenonT(60) DEF Reap, First, Zombies, Children
  <2>c. /\ chan' = [chan EXCEPT ![p] = None] /\ ptlock' = None /\ UNCHANGED why
        /\ ctx' = [ctx EXCEPT ![p] = "on"]
        /\ pc' = [pc EXCEPT ![p] = IF killed'[p] THEN "exit" ELSE "user"]
    <3>1. Zombies(p) # {}
      BY <1>1, ZenonT(60) DEF Reap, First
    <3> QED
      BY <3>1, ZenonT(60) DEF WaitScan, UserRet
  <2>d. q # p /\ \A d \in CPUs : stack[d] # q
    BY <2>b, Consts, ZenonT(60) DEF IInv, OnCpu
  <2>e. /\ \A r \in Procs \ {p} : ctx'[r] = ctx[r] /\ pc'[r] = pc[r] /\ chan'[r] = chan[r]
        /\ ctx'[p] = "on" /\ pc'[p] \in {"exit", "user"} /\ chan'[p] = None
    BY <2>c, ZenonT(60) DEF IInv, Types
  <2>f. /\ \A r \in Procs \ {q} : state'[r] = state[r] /\ parent'[r] = parent[r] /\ killed'[r] = killed[r]
        /\ state'[q] = "UNUSED" /\ parent'[q] = None
    BY <2>b, ZenonT(60) DEF IInv, Types
  <2>1. Types'
    BY Consts, <1>a, <2>b, <2>c, <2>d, ZenonT(60) DEF IInv, Types, Slots, States
  <2>2. OnCpu'
    <3>1. ASSUME NEW d \in CPUs \ {c}, stack[d] # None
          PROVE  ctx'[stack[d]] = ctx[stack[d]] /\ state'[stack[d]] = state[stack[d]]
      <4>1. stack[d] \in Procs
        BY <3>1, ZenonT(60) DEF IInv, Types
      <4>2. stack[d] # p /\ stack[d] # q
        BY <1>b, <2>d, ZenonT(60)
      <4> QED
        BY <2>e, <2>f, <4>1, <4>2, ZenonT(60)
    <3>2. state'[p] = "RUNNING"
      BY <1>a, <2>d, <2>f, ZenonT(60)
    <3> QED
      BY Consts, <1>b, <2>c, <2>e, <3>1, <3>2 DEF IInv, OnCpu, InUse
  <2>3. Saved'
    <3>1. \A r \in Procs : InUse(r)' => r # q /\ InUse(r) /\ state'[r] = state[r]
      BY <2>f, ZenonT(60) DEF InUse
    <3>2. \A r \in Procs : (\A d \in CPUs : stack'[d] # r) => r # p /\ \A d \in CPUs : stack[d] # r
      BY <1>b, ZenonT(60)
    <3>3. ASSUME NEW r \in Procs, InUse(r)'
          PROVE  r \in kstack' /\ (why'[r] = "exit" <=> state'[r] = "ZOMBIE")
      <4>1. r # q /\ r \in kstack /\ (why[r] = "exit" <=> state[r] = "ZOMBIE") /\ state'[r] = state[r]
        BY <3>1, <3>3, ZenonT(60) DEF IInv, Saved
      <4> QED
        BY <2>b, <2>c, <4>1, ZenonT(60)
    <3>4. ASSUME NEW r \in Procs, InUse(r)', \A d \in CPUs : stack'[d] # r
          PROVE  ctx'[r] = "off" /\ state'[r] # "RUNNING"
      <4>1. r # p /\ InUse(r) /\ state'[r] = state[r] /\ \A d \in CPUs : stack[d] # r
        BY <3>1, <3>2, <3>4, ZenonT(60)
      <4>2. ctx[r] = "off" /\ state[r] # "RUNNING"
        BY <4>1, ZenonT(60) DEF IInv, Saved
      <4> QED
        BY <2>e, <4>1, <4>2, ZenonT(60)
    <3> QED
      BY <3>3, <3>4, ZenonT(60) DEF Saved
  <2>4. Slots'
    <3>1. ASSUME NEW r \in Procs, state'[r] = "EMBRYO", r \in kstack'
          PROVE  ctx'[r] = "off" /\ why'[r] = "forkret" /\ pc'[r] = "user"
      <4>1. r # p /\ state[r] = "EMBRYO" /\ r \in kstack
        BY <1>a, <2>b, <2>d, <2>f, <3>1, ZenonT(60)
      <4>2. ctx[r] = "off" /\ why[r] = "forkret" /\ pc[r] = "user"
        BY <4>1, ZenonT(60) DEF IInv, Slots
      <4> QED
        BY <2>c, <2>e, <4>1, <4>2, ZenonT(60)
    <3>2. \A r \in Procs : pc'[r] = "fork" => pc[r] = "fork"
      BY <2>e, ZenonT(60)
    <3>3. ASSUME NEW r \in Procs, pc'[r] = "fork" PROVE np'[r] # None /\ state'[np'[r]] = "EMBRYO"
      <4>1. np[r] \in Procs /\ np[r] # None /\ state[np[r]] = "EMBRYO"
        BY <3>2, <3>3, ZenonT(60) DEF IInv, Types, Slots
      <4> QED
        BY <1>b, <2>b, <2>f, <4>1, ZenonT(60)
    <3>4. ASSUME NEW r \in Procs, NEW s \in Procs, pc'[r] = "fork", pc'[s] = "fork", np'[r] = np'[s]
          PROVE  r = s
      <4>1. pc[r] = "fork" /\ pc[s] = "fork" /\ np[r] = np[s]
        BY <1>b, <3>2, <3>4, ZenonT(60)
      <4> QED
        BY <4>1, ZenonT(60) DEF IInv, Slots
    <3>5. \A r \in Procs : /\ state'[r] = "UNUSED" => r \notin kstack'
                           /\ r \notin kstack' => parent'[r] = None
                           /\ parent'[r] # r
      BY <2>b, <2>f, Consts DEF IInv, Slots
    <3> QED
      BY <3>1, <3>3, <3>4, <3>5, ZenonT(60) DEF Slots
  <2>5. Ticks'
    <3>1. OwnRun(c, p)
      BY <1>b, <2>c, <2>e, ZenonT(60) DEF OwnRun
    <3> QED
      BY <3>1, OwnTicks, ZenonT(60) DEF IInv
  <2>6. InitRuns'
    BY <2>b, <2>f, Consts DEF IInv, InitRuns
  <2>7. WaitSleepers'
    <3> SUFFICES ASSUME NEW r \in Procs, state'[r] = "SLEEPING", why[r] = "wait"
                 PROVE  /\ chan'[r] = r /\ ~killed'[r]
                        /\ \E s \in Procs : parent'[s] = r
                        /\ \A s \in Procs : parent'[s] = r => state'[s] # "ZOMBIE"
      BY <2>c, ZenonT(60) DEF WaitSleepers
    <3>1. r # p /\ r # q /\ r # None /\ state[r] = "SLEEPING"
      BY <1>a, <2>d, <2>f, Consts, ZenonT(60)
    <3>2. /\ chan[r] = r /\ ~killed[r]
          /\ \E s \in Procs : parent[s] = r
          /\ \A s \in Procs : parent[s] = r => state[s] # "ZOMBIE"
      BY <3>1, ZenonT(60) DEF IInv, WaitSleepers
    <3> QED
      BY <2>b, <2>e, <2>f, <3>1, <3>2, ZenonT(60)
  <2>8. TickSleepers'
    <3>1. \A r \in Procs : Elapsed(r)' <=> Elapsed(r)
      BY <1>b, SameElapsed, ZenonT(60)
    <3>2. \A r \in Procs : /\ pc'[r] = "tsleep" => pc[r] = "tsleep"
                           /\ state'[r] = "SLEEPING" => r # p /\ state[r] = "SLEEPING" /\ chan'[r] = chan[r]
      BY <1>a, <2>d, <2>e, <2>f, ZenonT(60)
    <3> QED
      BY <1>b, <3>1, <3>2, ZenonT(60) DEF IInv, TickSleepers
  <2> QED
    BY <2>1, <2>2, <2>3, <2>4, <2>5, <2>6, <2>7, <2>8, ZenonT(60) DEF IInv
<1>2. CASE Zombies(p) = {} /\ (Children(p) = {} \/ killed[p])
  <2>a. /\ chan' = [chan EXCEPT ![p] = None] /\ ptlock' = None /\ UNCHANGED why
        /\ ctx' = [ctx EXCEPT ![p] = "on"]
        /\ pc' = [pc EXCEPT ![p] = IF killed[p] THEN "exit" ELSE "user"]
        /\ UNCHANGED <<state, pid, parent, killed, kstack>>
    BY <1>2, ZenonT(60) DEF WaitScan, Reap, First, UserRet
  <2>b. /\ \A r \in Procs \ {p} : ctx'[r] = ctx[r] /\ pc'[r] = pc[r] /\ chan'[r] = chan[r]
        /\ ctx'[p] = "on" /\ pc'[p] \in {"exit", "user"} /\ chan'[p] = None
    BY <2>a, ZenonT(60) DEF IInv, Types
  <2>1. Types'
    BY <2>a, ZenonT(60) DEF IInv, Types
  <2>2. OwnRun(c, p) /\ OwnState(c, p)
    <3>1. why[p] = "exit" <=> state[p] = "ZOMBIE"
      BY <1>a, <1>b, ZenonT(60)
    <3> QED
      BY <1>a, <1>b, <2>a, <2>b, <3>1, ZenonT(60) DEF OwnRun, OwnState, InUse
  <2>3. OnCpu' /\ Saved' /\ Slots' /\ Ticks' /\ TickSleepers'
    BY <2>a, <2>2, OwnStep, ZenonT(60)
  <2>4. InitRuns'
    BY <2>a, ZenonT(60) DEF IInv, InitRuns
  <2>5. WaitSleepers'
    <3>1. \A r \in Procs : state'[r] = "SLEEPING" => state[r] = "SLEEPING" /\ chan'[r] = chan[r]
      BY <1>a, <2>a, <2>b, ZenonT(60)
    <3> QED
      BY <2>a, <3>1, ZenonT(60) DEF IInv, WaitSleepers
  <2> QED
    BY <2>1, <2>3, <2>4, <2>5, ZenonT(60) DEF IInv
<1>3. CASE Zombies(p) = {} /\ Children(p) # {} /\ ~killed[p]
  <2>a. /\ chan' = [chan EXCEPT ![p] = p] /\ state' = [state EXCEPT ![p] = "SLEEPING"]
        /\ ptlock' = c /\ ctx' = [ctx EXCEPT ![p] = "sched"] /\ why' = [why EXCEPT ![p] = "wait"]
        /\ UNCHANGED <<pid, parent, killed, kstack, pc>>
    BY <1>3, ZenonT(60) DEF WaitScan, Reap, First, EnterSched
  <2>b. /\ \E q \in Procs : parent[q] = p
        /\ \A q \in Procs : parent[q] = p => state[q] # "ZOMBIE"
    BY <1>3, ZenonT(60) DEF Zombies, Children
  <2>c. /\ \A r \in Procs \ {p} : /\ ctx'[r] = ctx[r] /\ why'[r] = why[r]
                                  /\ state'[r] = state[r] /\ chan'[r] = chan[r]
        /\ ctx'[p] = "sched" /\ why'[p] = "wait" /\ state'[p] = "SLEEPING" /\ chan'[p] = p
    BY <2>a, ZenonT(60) DEF IInv, Types
  <2>1. Types'
    BY <2>a, ZenonT(60) DEF IInv, Types, States
  <2>2. OwnRun(c, p) /\ OwnState(c, p)
    BY <1>a, <1>b, <2>a, <2>c, Consts, ZenonT(60) DEF OwnRun, OwnState, InUse
  <2>3. OnCpu' /\ Saved' /\ Slots' /\ Ticks' /\ TickSleepers'
    BY <2>a, <2>2, OwnStep, ZenonT(60)
  <2>4. InitRuns'
    BY <2>a, <2>c, Consts DEF IInv, InitRuns
  <2>5. WaitSleepers'
    <3>1. \A r \in Procs : state'[r] = "ZOMBIE" => r # p /\ state[r] = "ZOMBIE"
      BY <2>c, ZenonT(60)
    <3>2. \A r \in Procs \ {p} : state'[r] = "SLEEPING" /\ why'[r] = "wait" =>
            state[r] = "SLEEPING" /\ why[r] = "wait" /\ chan'[r] = chan[r]
      BY <2>c, ZenonT(60)
    <3> QED
      BY <1>3, <2>a, <2>b, <2>c, <3>1, <3>2 DEF IInv, WaitSleepers
  <2> QED
    BY <2>1, <2>3, <2>4, <2>5, ZenonT(60) DEF IInv
<1> QED
  BY <1>1, <1>2, <1>3, ZenonT(60) DEF WaitScan

(* wait. *)
LEMMA waitStep ==
  ASSUME NEW c \in CPUs, NEW p \in Procs
  PROVE  Keeps(wait(c, p))
<1> SUFFICES ASSUME IInv, wait(c, p) PROVE IInv'
  BY ZenonT(60) DEF Keeps
<1>1. ptlock = None /\ stack[c] = p /\ intr[c] = "no" /\ ctx[p] = "on" /\ pc[p] # "tsleep"
  BY ZenonT(60) DEF wait, Syscall, Runs
<1> QED
  BY <1>1, WaitScanStep, ZenonT(60) DEF wait, Keeps, Scans

(* wait, after sched. *)
LEMMA WaitResumeStep ==
  ASSUME NEW c \in CPUs
  PROVE  Keeps(WaitResume(c))
<1> SUFFICES ASSUME IInv, WaitResume(c) PROVE IInv'
  BY ZenonT(60) DEF Keeps
<1>1. PICK p \in Procs : p = stack[c]
  BY ZenonT(60) DEF WaitResume, IInv, Types
<1>2. ptlock = c /\ intr[c] = "no" /\ ctx[p] = "off" /\ pc[p] # "tsleep"
  BY <1>1, ZenonT(60) DEF WaitResume, IInv, OnCpu, Ticks
<1> QED
  BY <1>1, <1>2, WaitScanStep, ZenonT(60) DEF WaitResume, Keeps, Scans

(* The table userinit leaves. *)
LEMMA InitIInv == Init => IInv
BY Consts
  DEF Init, IInv, Types, States, OnCpu, Saved, Slots, Ticks, InitRuns, InUse, WaitSleepers,
      TickSleepers

(* Nothing changes. *)
LEMMA StutterIInv == Keeps(UNCHANGED vars)
<1> SUFFICES ASSUME IInv, UNCHANGED vars PROVE IInv'
  BY ZenonT(60) DEF Keeps
<1>1. Types'
  BY ZenonT(60) DEF IInv, Types
<1>2. OnCpu'
  BY ZenonT(60) DEF IInv, OnCpu, InUse
<1>3. Saved'
  BY ZenonT(60) DEF IInv, Saved, InUse
<1>4. Slots'
  BY ZenonT(60) DEF IInv, Slots
<1>5. Ticks'
  BY ZenonT(60) DEF IInv, Ticks
<1>6. InitRuns'
  BY ZenonT(60) DEF IInv, InitRuns
<1>7. WaitSleepers'
  BY ZenonT(60) DEF IInv, WaitSleepers
<1>8. TickSleepers'
  BY SameElapsed, ZenonT(60) DEF IInv, TickSleepers
<1> QED
  BY <1>1, <1>2, <1>3, <1>4, <1>5, <1>6, <1>7, <1>8, ZenonT(60) DEF IInv

(* Every step preserves the inductive invariant. *)
LEMMA NextIInv == IInv /\ [Next]_vars => IInv'
<1> SUFFICES ASSUME IInv, Next PROVE IInv'
  BY StutterIInv, ZenonT(60) DEF Keeps
<1>1. PICK c \in CPUs : \/ Switching(c) \/ Clock(c)
                        \/ \E p \in Procs : InKernel(c, p) \/ StartExit(c, p) \/ User(c, p)
  BY ZenonT(60) DEF Next
<1>2. CASE Switching(c)
  BY <1>2, SchedulerPassStep, schedulerStep, schedStep, ResumeStep, WaitResumeStep, ZenonT(60)
    DEF Switching, Keeps
<1>3. CASE Clock(c)
  BY <1>3, TickStep, TickWakeupStep, yieldStep, ZenonT(60) DEF Clock, Keeps
<1>4. ASSUME NEW p \in Procs, InKernel(c, p) PROVE IInv'
  BY <1>4, ForkFillStep, ForkFailStep, forkStep, exitStep, TicksTestStep, sleepStep, ZenonT(60)
    DEF InKernel, Keeps
<1>5. ASSUME NEW p \in Procs, StartExit(c, p) PROVE IInv'
  BY <1>5, StartExitStep, ZenonT(60) DEF Keeps
<1>6. ASSUME NEW p \in Procs, User(c, p) PROVE IInv'
  BY <1>6, allocprocStep, NoSlotStep, waitStep, killStep, sys_sleepStep, ZenonT(60) DEF User, Keeps
<1> QED
  BY <1>1, <1>2, <1>3, <1>4, <1>5, <1>6, ZenonT(60)

(* The inductive invariant holds. *)
LEMMA ProcInvariant == Spec => []IInv
<1>1. Init => IInv
  BY InitIInv, ZenonT(60)
<1>2. IInv /\ [Next]_vars => IInv'
  BY NextIInv, ZenonT(60)
<1> QED
  BY <1>1, <1>2, PTL DEF Spec

(* Whatever the number of CPUs, processes and clock ticks: a kernel stack   *)
(* is never run on by two CPUs and never after it was freed, and while      *)
(* ptable.lock is free the RUNNING processes are the current ones of the    *)
(* CPUs.                                                                    *)
THEOREM ProcStackExclusive == Spec => []StackExclusive
<1>1. IInv => StackExclusive
  <2> SUFFICES ASSUME IInv PROVE StackExclusive
    OBVIOUS
  <2>1. ASSUME NEW c \in CPUs, stack[c] # None
        PROVE  stack[c] \in kstack /\ \A d \in CPUs \ {c} : stack[d] # stack[c]
    <3>1. stack[c] \in Procs /\ InUse(stack[c])
      BY <2>1, ZenonT(60) DEF IInv, Types, OnCpu
    <3>2. stack[c] \in kstack
      BY <3>1, ZenonT(60) DEF IInv, Saved
    <3>3. \A d \in CPUs \ {c} : stack[d] # stack[c]
      BY <2>1, ZenonT(60) DEF IInv, OnCpu
    <3> QED
      BY <3>2, <3>3, ZenonT(60)
  <2>2. ASSUME ptlock = None, NEW p \in Procs
        PROVE  /\ state[p] = "RUNNING" <=> \E c \in CPUs : cproc[c] = p
               /\ InUse(p) => (state[p] = "RUNNING" <=> ctx[p] = "on")
    BY <2>2, Consts DEF IInv, Types, OnCpu, Saved, InUse
  <2> QED
    BY <2>1, <2>2, ZenonT(60) DEF StackExclusive, IInv, Types
<1> QED
  BY <1>1, ProcInvariant, PTL

(* No panic of sched or switchuvm is reached, and no zombie returns to exit. *)
THEOREM ProcNoPanic == Spec => []NoPanic
<1>1. IInv => NoPanic
  BY Consts DEF IInv, OnCpu, Saved, NoPanic
<1> QED
  BY <1>1, ProcInvariant, PTL

(* No exit is missed by a parent asleep in wait. *)
THEOREM ProcNoLostExit == Spec => []NoLostExit
<1>1. IInv => NoLostExit
  BY ZenonT(60) DEF IInv, WaitSleepers, NoLostExit, Children, Zombies
<1> QED
  BY <1>1, ProcInvariant, PTL

(* No tick is missed by a process asleep in sys_sleep. *)
THEOREM ProcNoLostTick == Spec => []NoLostTick
<1>1. IInv => NoLostTick
  BY Consts DEF IInv, Ticks, TickSleepers, NoLostTick
<1> QED
  BY <1>1, ProcInvariant, PTL
=============================================================================
