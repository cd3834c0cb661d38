------------------------------ MODULE SpinLock ------------------------------
(***************************************************************************)
(* Spin locks and the interrupt flag (spinlock.c), with what makes them    *)
(* delicate: handlers that interrupt a kernel thread and take locks too    *)
(* (trap.c), and sched / scheduler (proc.c), which switch threads between  *)
(* the acquire and the release of ptable.lock.  The state of pushcli, ncli *)
(* and intena, belongs to the CPU; the flag a thread had belongs to it.    *)
(*                                                                         *)
(* acquire and release are split at each access to the shared fields       *)
(* locked and cpu.  A thread or a handler never takes a lock that it holds *)
(* itself; of what it has interrupted a handler knows nothing.  In which   *)
(* order locks are nested is the callers' matter: here it is any order.    *)
(***************************************************************************)
EXTENDS Integers, Sequences, FiniteSets

CONSTANTS
  CPUs, Threads,
  Locks,
  PT,          \* ptable.lock
  None         \* no CPU, no flag

ASSUME SpinAssumption ==
  /\ PT \in Locks /\ IsFiniteSet(Locks)
  /\ CPUs \cap Threads = {} /\ None \notin CPUs \cup BOOLEAN

VARIABLES
  locked, cpu,          \* the fields of struct spinlock
  ncli, intena, fl,     \* of a CPU: its counters, and FL_IF of eflags
  cur,                  \* the thread on a CPU; the CPU itself: its scheduler
  pc, lk,               \* of a CPU: the step of acquire or release, the lock
  held,                 \* of a CPU: locks acquired and not yet released
  under,                \* of a CPU: those of what its handler has interrupted
  frames,               \* of a thread: FL_IF at entry of each nested handler
  saved                 \* of a thread: sched's local intena; None: never in sched

lock == <<locked, cpu>>
cli == <<ncli, intena, fl>>
thread == <<cur, frames, saved, under>>
vars == <<locked, cpu, ncli, intena, fl, cur, pc, lk, held, under, frames, saved>>

Contexts == CPUs \cup Threads

(* Every CPU is at the top of scheduler; no thread has run. *)
Init ==
  /\ locked = [l \in Locks |-> FALSE]
  /\ cpu = [l \in Locks |-> None]
  /\ ncli = [c \in CPUs |-> 0]
  /\ intena = [c \in CPUs |-> FALSE]
  /\ fl = [c \in CPUs |-> FALSE]
  /\ cur = [c \in CPUs |-> c]
  /\ pc = [c \in CPUs |-> "run"]
  /\ lk = [c \in CPUs |-> PT]
  /\ held = [c \in CPUs |-> {}]
  /\ under = [c \in CPUs |-> {}]
  /\ frames = [t \in Contexts |-> IF t \in CPUs THEN <<TRUE>> ELSE <<>>]
  /\ saved = [t \in Threads |-> None]

Goto(c, l) == pc' = [pc EXCEPT ![c] = l]

holding(c, l) == locked[l] /\ cpu[l] = c

-----------------------------------------------------------------------------
(* acquire *)

SaveFlag(c) == intena' = IF ncli[c] = 0 THEN [intena EXCEPT ![c] = fl[c]] ELSE intena

CliOff(c) == fl' = [fl EXCEPT ![c] = FALSE]

pushcli(c) ==
  /\ CliOff(c)
  /\ SaveFlag(c)
  /\ ncli' = [ncli EXCEPT ![c] = @ + 1]

(* The scheduler takes ptable.lock only, after its sti. *)
acquire(c, l) ==
  /\ pc[c] = "run"
  /\ l \notin held[c] \ under[c]
  /\ cur[c] = c /\ Len(frames[c]) = 1 => l = PT /\ held[c] = {} /\ fl[c]
  /\ pushcli(c)
  /\ lk' = [lk EXCEPT ![c] = l]
  /\ Goto(c, "holding")
  /\ UNCHANGED <<lock, thread, held>>

CheckHolding(c) ==
  /\ pc[c] = "holding"
  /\ Goto(c, IF holding(c, lk[c]) THEN "panic" ELSE "xchg")
  /\ UNCHANGED <<lock, cli, thread, lk, held>>

(* Mutant: the test and the set are not one instruction. *)
Free_any(l) == TRUE

(* What xchg returned. *)
Free(l) == ~locked[l]

(* An xchg that finds the lock taken changes nothing: the CPU spins. *)
xchg(c) ==
  /\ pc[c] = "xchg"
  /\ Free(lk[c])
  /\ locked' = [locked EXCEPT ![lk[c]] = TRUE]
  /\ Goto(c, "owner")
  /\ UNCHANGED <<cpu, cli, thread, lk, held>>

Owner(c) ==
  /\ pc[c] = "owner"
  /\ cpu' = [cpu EXCEPT ![lk[c]] = c]
  /\ held' = [held EXCEPT ![c] = @ \cup {lk[c]}]
  /\ Goto(c, "run")
  /\ UNCHANGED <<locked, cli, thread, lk>>

-----------------------------------------------------------------------------
(* release *)

(* Mutant: the owner stays recorded. *)
ClearOwner_no(l) == cpu

ClearOwner(l) == [cpu EXCEPT ![l] = None]

release(c, l) ==
  /\ pc[c] = "run"
  /\ l \in held[c]
  /\ lk' = [lk EXCEPT ![c] = l]
  /\ IF holding(c, l)
     THEN cpu' = ClearOwner(l) /\ Goto(c, "unlock")
     ELSE UNCHANGED cpu /\ Goto(c, "panic")
  /\ UNCHANGED <<locked, cli, thread, held>>

Unlock(c) ==
  /\ pc[c] = "unlock"
  /\ locked' = [locked EXCEPT ![lk[c]] = FALSE]
  /\ held' = [held EXCEPT ![c] = @ \ {lk[c]}]
  /\ Goto(c, "popcli")
  /\ UNCHANGED <<cpu, cli, thread, lk>>

popcli(c) ==
  /\ pc[c] = "popcli"
  /\ Goto(c, IF fl[c] \/ ncli[c] < 1 THEN "panic" ELSE "run")
  /\ ncli' = [ncli EXCEPT ![c] = @ - 1]
  /\ fl' = [fl EXCEPT ![c] = @ \/ (ncli[c] = 1 /\ intena[c])]
  /\ UNCHANGED <<lock, intena, thread, lk, held>>

-----------------------------------------------------------------------------
(* Interrupts: the gate clears FL_IF, iret restores it. *)

interrupt(c) ==
  /\ pc[c] = "run"
  /\ fl[c]
  /\ fl' = [fl EXCEPT ![c] = FALSE]
  /\ frames' = [frames EXCEPT ![cur[c]] = Append(@, FALSE)]
  /\ under' = [under EXCEPT ![c] = held[c]]
  /\ UNCHANGED <<lock, ncli, intena, cur, pc, lk, held, saved>>

(* The newest frame of a handler has the flag off. *)
InHandler(t) == frames[t] # <<>> /\ ~frames[t][Len(frames[t])]

iret(c) ==
  LET t == cur[c] IN
    /\ pc[c] = "run" /\ held[c] = under[c]
    /\ InHandler(t)
    /\ frames' = [frames EXCEPT ![t] = SubSeq(@, 1, Len(@) - 1)]
    /\ under' = [under EXCEPT ![c] = {}]
    /\ fl' = [fl EXCEPT ![c] = TRUE]
    /\ UNCHANGED <<lock, ncli, intena, cur, pc, lk, held, saved>>

-----------------------------------------------------------------------------
(* proc.c *)

(* The top of scheduler's loop. *)
sti(c) ==
  /\ cur[c] = c /\ pc[c] = "run" /\ held[c] = {}
  /\ Len(frames[c]) = 1
  /\ ~fl[c]
  /\ fl' = [fl EXCEPT ![c] = TRUE]
  /\ UNCHANGED <<lock, ncli, intena, thread, pc, lk, held>>

(* A thread that holds ptable.lock and no other calls sched: its intena is *)
(* kept, and the scheduler of the CPU goes on.                             *)
sched(c) ==
  /\ cur[c] \in Threads /\ pc[c] = "run"
  /\ held[c] = {PT}
  /\ IF ncli[c] # 1 \/ fl[c]
     THEN Goto(c, "panic") /\ UNCHANGED <<cur, saved>>
     ELSE /\ saved' = [saved EXCEPT ![cur[c]] = intena[c]]
          /\ cur' = [cur EXCEPT ![c] = c]
          /\ UNCHANGED pc
  /\ UNCHANGED <<lock, cli, lk, held, under, frames>>

(* Mutant: sched does not put intena back. *)
RestoreIntena_no(c, t) == intena

RestoreIntena(c, t) == [intena EXCEPT ![c] = saved[t]]

(* scheduler switches to a thread that has been in sched before, on this CPU *)
(* or on another, or to a new one, which starts in forkret.                  *)
swtch(c, t) ==
  /\ cur[c] = c /\ pc[c] = "run" /\ held[c] = {PT}
  /\ Len(frames[c]) = 1
  /\ \A d \in CPUs : cur[d] # t
  /\ cur' = [cur EXCEPT ![c] = t]
  /\ intena' = IF saved[t] = None THEN intena ELSE RestoreIntena(c, t)
  /\ UNCHANGED <<lock, ncli, fl, pc, lk, held, under, frames, saved>>

(* forkret has released ptable.lock; trapret's iret enters user space. *)
trapret(c) ==
  LET t == cur[c] IN
    /\ t \in Threads /\ frames[t] = <<>>
    /\ pc[c] = "run" /\ held[c] = {}
    /\ frames' = [frames EXCEPT ![t] = <<TRUE>>]
    /\ fl' = [fl EXCEPT ![c] = TRUE]
    /\ UNCHANGED <<lock, ncli, intena, cur, pc, lk, held, under, saved>>

-----------------------------------------------------------------------------
(* The steps of CPU c inside acquire and release. *)
Inside(c) == CheckHolding(c) \/ xchg(c) \/ Owner(c) \/ Unlock(c) \/ popcli(c)

Next ==
  \E c \in CPUs :
    \/ \E l \in Locks : acquire(c, l) \/ release(c, l)
    \/ Inside(c)
    \/ interrupt(c) \/ iret(c)
    \/ sti(c) \/ sched(c) \/ trapret(c)
    \/ \E t \in Threads : swtch(c, t)

Spec == Init /\ [][Next]_vars

-----------------------------------------------------------------------------

(* A lock has one holder. *)
MutualExclusion ==
  \A c, d \in CPUs : held[c] \cap held[d] # {} => c = d

(* None of the panics of acquire, release, popcli and sched is reached: an  *)
(* interrupt never finds its CPU holding a lock, whose handler would then   *)
(* wait for its own CPU, and holding, which reads lk->cpu while others      *)
(* write it, is never wrong about the reading CPU.                          *)
NoPanic == \A c \in CPUs : pc[c] # "panic"

(* pushcli and popcli are matched: interrupts are off while a lock is held, *)
(* and with the last release a thread gets back the FL_IF it had, also when *)
(* sched has moved it to another CPU in between or a handler has yielded.   *)
FlagRestored ==
  \A c \in CPUs :
    pc[c] = "run" =>
      /\ held[c] # {} => ~fl[c]
      /\ (held[c] = {} /\ cur[c] \in Threads /\ frames[cur[c]] # <<>>)
           => fl[c] = frames[cur[c]][Len(frames[cur[c]])]
=============================================================================
