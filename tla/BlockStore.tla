----------------------------- MODULE BlockStore -----------------------------
(***************************************************************************)
(* What the buffer cache promises: blocks with contents that only the      *)
(* process holding the block can change, one process at a time.            *)
(***************************************************************************)
CONSTANTS Holders, Blocks, Val, NoBlock

VARIABLES
  store,   \* the contents of each block
  holds    \* the block a process has, between bread and brelse

Init == store \in [Blocks -> Val] /\ holds = [h \in Holders |-> NoBlock]

Take(h, bn) ==
  /\ holds[h] = NoBlock
  /\ \A g \in Holders : holds[g] # bn
  /\ holds' = [holds EXCEPT ![h] = bn]
  /\ UNCHANGED store

Change(h, v) ==
  /\ holds[h] # NoBlock
  /\ store' = [store EXCEPT ![holds[h]] = v]
  /\ UNCHANGED holds

Drop(h) ==
  /\ holds[h] # NoBlock
  /\ holds' = [holds EXCEPT ![h] = NoBlock]
  /\ UNCHANGED store

Next ==
  \E h \in Holders : \/ \E bn \in Blocks : Take(h, bn)
                     \/ \E v \in Val : Change(h, v)
                     \/ Drop(h)

Spec == Init /\ [][Next]_<<store, holds>>
=============================================================================
