----------------------------- MODULE AtomicDisk -----------------------------
(***************************************************************************)
(* What the logging layer (log.c) promises to the file system calls above  *)
(* it.  A call brackets its updates with begin_op and end_op; its writes   *)
(* are seen at once by later reads, and reach the state a crash preserves  *)
(* only all together, at an instant when no call is in progress.           *)
(***************************************************************************)
CONSTANTS Procs, Blocks, Val

VARIABLES stable,    \* what a reboot would find in each block
          current,   \* what a read of each block returns now
          active     \* processes between begin_op and end_op

vars == <<stable, current, active>>

(* mkfs writes the blocks before the first boot. *)
Init ==
  /\ stable \in [Blocks -> Val]
  /\ current = stable
  /\ active = {}

Begin(p) ==
  /\ p \notin active
  /\ active' = active \cup {p}
  /\ UNCHANGED <<stable, current>>

Write(p, b, v) ==
  /\ p \in active
  /\ current' = [current EXCEPT ![b] = v]
  /\ UNCHANGED <<stable, active>>

End(p) ==
  /\ p \in active
  /\ active' = active \ {p}
  /\ UNCHANGED <<stable, current>>

(* Everything written so far becomes durable, in one step. *)
Commit ==
  /\ active = {}
  /\ stable' = current
  /\ UNCHANGED <<current, active>>

Crash ==
  /\ active' = {}
  /\ current' = stable
  /\ UNCHANGED stable

Next ==
  \/ \E p \in Procs : Begin(p) \/ End(p)
  \/ \E p \in Procs, b \in Blocks, v \in Val : Write(p, b, v)
  \/ Commit
  \/ Crash

Spec == Init /\ [][Next]_vars
=============================================================================
