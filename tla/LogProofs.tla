----------------------------- MODULE LogProofs -----------------------------
(***************************************************************************)
(* Proofs about Log, for every number of processes and blocks and every    *)
(* size of the log.                                                        *)
(***************************************************************************)
EXTENDS Log, FiniteSetTheorems, TLAPS

(* The calls of the file system leave a block of their reservation unused, *)
(* and two if the on-disk log has NLOG = LOGSIZE blocks.  As built, NLOG   *)
(* and LOGSIZE are 30, MAXOPBLOCKS is 10 and no call writes more than 7    *)
(* blocks.                                                                 *)
Fits ==
  /\ OPBLOCKS < MAXOPBLOCKS
  /\ OPBLOCKS + 2 + LOGSIZE <= MAXOPBLOCKS + NLOG

(* Processes between begin_op and end_op. *)
Active == {p \in Procs : pc[p] \in OpPCs}

(* What is left of the reservations: MAXOPBLOCKS tokens for each active    *)
(* call, less one for each of its blocks that is in the log.               *)
Reserved ==
  {x \in Active \X (1..MAXOPBLOCKS) : x[2] > Cardinality(wrote[x[1]] \cap Logged)}

Types ==
  /\ home \in [Blocks -> Val]
  /\ logd \in [Slots -> Val]
  /\ hdr \in Seq(Blocks) /\ Len(hdr) <= LOGSIZE
  /\ buf \in [Blocks -> Val \cup {NoBuf}]
  /\ dirty \subseteq Blocks
  /\ lh \in Seq(Blocks)
  /\ committing \in BOOLEAN
  /\ pc \in [Procs -> PCs]
  /\ blk \in [Procs -> Blocks \cup {NoBlock}]
  /\ wrote \in [Procs -> SUBSET Blocks]
  /\ writes \in [Procs -> 0..OPWRITES]
  /\ boot \in {"read_head", "install_trans", "up"}
  /\ tail \in 1..(LOGSIZE + 1)
  /\ crashes \in 0..MAXCRASH

(* Who may be where: one committer, and no call in progress beside it. *)
Control ==
  /\ \A p \in Procs : pc[p] # "panic"
  /\ \A p \in Procs : pc[p] \in CommitPCs => committing
  /\ committing => Active = {}
  /\ \A p, q \in Procs : pc[p] \in CommitPCs /\ pc[q] \in CommitPCs => p = q
  /\ boot # "up" => ~committing /\ \A p \in Procs : pc[p] = "out"

(* The counters of the log agree with the processes. *)
Counts ==
  /\ outstanding = Cardinality(Active)
  /\ Len(lh) + Cardinality(Reserved) <= LOGSIZE
  /\ \A p \in Procs : Cardinality(wrote[p]) <= OPBLOCKS

(* The buffers locked in log_write. *)
Locked ==
  /\ \A p \in Procs : blk[p] # NoBlock <=> pc[p] = "append"
  /\ \A p \in Procs : pc[p] = "append" => blk[p] \in wrote[p]
  /\ \A p, q \in Procs : blk[p] # NoBlock /\ blk[p] = blk[q] => p = q

CInv == Types /\ Control /\ Counts /\ Locked

-----------------------------------------------------------------------------
(* Facts about the reservation tokens. *)

USE SMTT(60), ZenonT(60) DEF vars, disk, cache, logv, opv, bootv, OpPCs, CommitPCs, PCs

(* The sizes are natural numbers. *)
LEMMA Consts ==
  /\ MAXOPBLOCKS \in Nat /\ LOGSIZE \in Nat /\ NLOG \in Nat /\ OPBLOCKS \in Nat
  /\ OPWRITES \in Nat /\ MAXCRASH \in Nat
  /\ MAXOPBLOCKS > 0 /\ OPBLOCKS <= MAXOPBLOCKS
  /\ IsFiniteSet(Procs) /\ IsFiniteSet(Blocks)
  /\ Zero \in Val /\ NoBuf \notin Val /\ NoBlock \notin Blocks
BY LogAssumption

(* The processes in a call and the tokens they hold are finite in number. *)
LEMMA Finite ==
  ASSUME Types
  PROVE  /\ IsFiniteSet(Active) /\ IsFiniteSet(Reserved)
         /\ Cardinality(Active) \in 0..Cardinality(Procs)
         /\ Cardinality(Reserved) \in Nat
         /\ \A p \in Procs : /\ IsFiniteSet(wrote[p])
                             /\ Cardinality(wrote[p]) \in Nat
                             /\ IsFiniteSet(wrote[p] \cap Logged)
                             /\ Cardinality(wrote[p] \cap Logged) \in Nat
                             /\ Cardinality(wrote[p] \cap Logged) <= Cardinality(wrote[p])
<1>1. /\ IsFiniteSet(Active)
      /\ Cardinality(Active) \in Nat
      /\ Cardinality(Active) <= Cardinality(Procs)
      /\ Cardinality(Procs) \in Nat
  BY Consts, FS_Subset, FS_CardinalityType DEF Active
<1>2. IsFiniteSet(1..MAXOPBLOCKS)
  BY Consts, FS_Interval
<1>3. IsFiniteSet(Active \X (1..MAXOPBLOCKS))
  BY <1>1, <1>2, FS_Product, ZenonT(60)
<1>4. IsFiniteSet(Reserved) /\ Cardinality(Reserved) \in Nat
  <2>1. Reserved \in SUBSET (Active \X (1..MAXOPBLOCKS))
    BY DEF Reserved
  <2> QED
    BY <2>1, <1>3, FS_Subset, FS_CardinalityType
<1>5. ASSUME NEW p \in Procs
      PROVE  /\ IsFiniteSet(wrote[p])
             /\ Cardinality(wrote[p]) \in Nat
             /\ IsFiniteSet(wrote[p] \cap Logged)
             /\ Cardinality(wrote[p] \cap Logged) \in Nat
             /\ Cardinality(wrote[p] \cap Logged) <= Cardinality(wrote[p])
  <2>1. wrote[p] \in SUBSET Blocks
    BY DEF Types
  <2>2. IsFiniteSet(wrote[p])
    BY <2>1, Consts, FS_Subset
  <2> QED
    BY <2>2, FS_Intersection, FS_CardinalityType, ZenonT(60)
<1> QED
  BY <1>1, <1>4, <1>5

(* An active call keeps the part of its reservation it never uses. *)
LEMMA Unused ==
  ASSUME Types, Counts, NEW p \in Active
  PROVE  Len(lh) + MAXOPBLOCKS <= LOGSIZE + OPBLOCKS
<1> DEFINE I == (OPBLOCKS + 1)..MAXOPBLOCKS
           T == {p} \X I
<1>1. T \in SUBSET Reserved
  <2>1. p \in Procs /\ Cardinality(wrote[p]) <= OPBLOCKS
    BY DEF Active, Counts
  <2>2. ASSUME NEW i \in I
        PROVE  <<p, i>> \in Reserved
    <3>1. i \in 1..MAXOPBLOCKS /\ i > Cardinality(wrote[p] \cap Logged)
      BY <2>1, Finite, Consts
    <3> QED
      BY <3>1, ZenonT(60) DEF Reserved
  <2> QED
    BY <2>2
<1>2. Cardinality(T) <= Cardinality(Reserved)
  BY <1>1, Finite, FS_Subset
<1>3. Cardinality(T) = MAXOPBLOCKS - OPBLOCKS
  <2>1. IsFiniteSet(I) /\ Cardinality(I) = MAXOPBLOCKS - OPBLOCKS
    <3>1. OPBLOCKS + 1 \in Int /\ MAXOPBLOCKS \in Int
      BY Consts
    <3> QED
      BY <3>1, FS_Interval, Consts
  <2>2. IsFiniteSet({p}) /\ Cardinality({p}) = 1
    BY FS_Singleton, ZenonT(60)
  <2> HIDE DEF I
  <2>3. Cardinality(T) = Cardinality({p}) * Cardinality(I)
    BY <2>1, <2>2, FS_Product
  <2> QED
    BY <2>1, <2>2, <2>3, Consts
<1> HIDE DEF T
<1> QED
  BY <1>2, <1>3, Finite, Consts DEF Counts, Types

-----------------------------------------------------------------------------
(* The control invariant. *)

(* log.lh never names more blocks than a log header has room for. *)
LEMMA LhFits ==
  ASSUME Types, Counts
  PROVE  Len(lh) \in Nat /\ Len(lh) <= LOGSIZE
BY Finite, Consts DEF Types, Counts

(* mkfs and the start of the kernel establish all of it. *)
LEMMA InitCInv == Init => CInv
<1> SUFFICES ASSUME Init PROVE CInv
  OBVIOUS
<1>1. Types
  <2>1. wrote \in [Procs -> SUBSET Blocks] /\ writes \in [Procs -> 0..OPWRITES]
    BY Consts DEF Init
  <2>2. pc \in [Procs -> PCs] /\ blk \in [Procs -> Blocks \cup {NoBlock}]
    BY DEF Init
  <2>3. logd \in [Slots -> Val] /\ buf \in [Blocks -> Val \cup {NoBuf}]
    BY Consts DEF Init
  <2>4. /\ home \in [Blocks -> Val] /\ dirty \subseteq Blocks
        /\ hdr \in Seq(Blocks) /\ Len(hdr) <= LOGSIZE /\ lh \in Seq(Blocks)
        /\ boot \in {"read_head", "install_trans", "up"}
        /\ tail \in 1..(LOGSIZE + 1) /\ crashes \in 0..MAXCRASH
    BY Consts DEF Init
  <2>5. committing \in BOOLEAN
    BY ZenonT(60) DEF Init
  <2> QED
    BY <2>1, <2>2, <2>3, <2>4, <2>5 DEF Types
<1>2. Active = {} /\ Reserved = {}
  BY DEF Init, Active, Reserved
<1>3. Cardinality(Active) = 0 /\ Cardinality(Reserved) = 0 /\ Cardinality({}) = 0
  BY <1>2, FS_EmptySet
<1>4. Control
  BY <1>2 DEF Init, Control
<1>5. Counts
  <2>1. \A p \in Procs : Cardinality(wrote[p]) <= OPBLOCKS
    BY <1>3, Consts DEF Init
  <2>2. Len(lh) = 0 /\ outstanding = 0
    BY DEF Init
  <2> QED
    BY <2>1, <2>2, <1>3, Consts DEF Counts
<1>6. Locked
  BY Consts DEF Init, Locked
<1> QED
  BY <1>1, <1>4, <1>5, <1>6 DEF CInv

(* Every step keeps the types. *)
LEMMA TypesStep == CInv /\ [Next]_vars => Types'
<1> SUFFICES ASSUME CInv, [Next]_vars PROVE Types'
  OBVIOUS
<1>0. Types /\ Len(lh) \in Nat /\ Len(lh) <= LOGSIZE
  BY LhFits DEF CInv
<1> USE Consts DEF Slots, Goto
<1>1. CASE read_head
  BY <1>0, <1>1 DEF read_head, Types
<1>2. ASSUME Install, UNCHANGED pc \/ \E p \in Procs : UNCHANGED pc PROVE Types'
  <2>1. lh[tail] \in Blocks /\ tail \in Slots
    BY <1>0, <1>2 DEF Install, Types
  <2> QED
    BY <1>0, <1>2, <2>1 DEF Install, Types
<1>3. CASE RecoverInstall
  BY <1>2, <1>3 DEF RecoverInstall
<1>4. CASE RecoverErase
  BY <1>0, <1>4 DEF RecoverErase, Types
<1>5. ASSUME NEW p \in Procs, Call(p) PROVE Types'
  BY <1>0, <1>5 DEF Call, Types
<1>6. ASSUME NEW p \in Procs, begin_op(p) PROVE Types'
  <2>1. wrote' \in [Procs -> SUBSET Blocks] /\ writes' \in [Procs -> 0..OPWRITES]
    <3>1. \/ wrote' = wrote /\ writes' = writes
          \/ wrote' = [wrote EXCEPT ![p] = {}] /\ writes' = [writes EXCEPT ![p] = 0]
      BY <1>6 DEF begin_op
    <3>2. {} \in SUBSET Blocks /\ 0 \in 0..OPWRITES
      OBVIOUS
    <3>3. wrote' \in [Procs -> SUBSET Blocks]
      BY <1>0, <3>1, <3>2 DEF Types
    <3>4. writes' \in [Procs -> 0..OPWRITES]
      BY <1>0, <3>1, <3>2 DEF Types
    <3> QED
      BY <3>3, <3>4
  <2>2. pc' \in [Procs -> PCs]
    <3>1. Goto(p, "sleep") \/ Goto(p, "op")
      BY <1>6 DEF begin_op
    <3> QED
      BY <1>0, <3>1, ZenonT(60) DEF Types
  <2>3. UNCHANGED <<home, logd, hdr, buf, dirty, lh, committing, blk, boot, tail, crashes>>
    BY <1>6 DEF begin_op
  <2> QED
    BY <1>0, <2>1, <2>2, <2>3 DEF Types
<1>7. ASSUME NEW p \in Procs, log_write(p) PROVE Types'
  <2>1. blk[p] \in Blocks
    BY <1>0, <1>7 DEF log_write, Types, CInv, Locked
  <2>2. lh' \in Seq(Blocks)
    BY <1>0, <1>7, <2>1 DEF log_write, Types
  <2> QED
    BY <1>0, <1>7, <2>1, <2>2 DEF log_write, Pin, Types
<1>8. ASSUME NEW p \in Procs, end_op(p) PROVE Types'
  BY <1>0, <1>8, ZenonT(60) DEF end_op, Wakeup, Types
<1>9. ASSUME NEW p \in Procs, commit(p) PROVE Types'
  BY <1>0, <1>9 DEF commit, Types
<1>10. ASSUME NEW p \in Procs, write_log(p) PROVE Types'
  <2>1. CASE MoreToLog
    <3>1. View(lh[tail]) \in Val /\ tail \in Slots
      BY <1>0, <2>1 DEF MoreToLog, Types, View
    <3> QED
      BY <1>0, <1>10, <2>1, <3>1 DEF write_log, MoreToLog, Types
  <2>2. CASE ~MoreToLog
    BY <1>0, <1>10, <2>2, ZenonT(60) DEF write_log, Types
  <2> QED
    BY <2>1, <2>2
<1>11. ASSUME NEW p \in Procs, write_head(p) PROVE Types'
  BY <1>0, <1>11 DEF write_head, Types
<1>12. ASSUME NEW p \in Procs, install_trans(p) PROVE Types'
  BY <1>0, <1>2, <1>12, ZenonT(60) DEF install_trans, Types
<1>13. ASSUME NEW p \in Procs, erase(p) PROVE Types'
  BY <1>0, <1>13 DEF erase, Types
<1>14. ASSUME NEW p \in Procs, committed(p) PROVE Types'
  BY <1>0, <1>14, ZenonT(60) DEF committed, Wakeup, Types
<1>15. ASSUME NEW p \in Procs, NEW b \in Blocks, NEW v \in Val, Modify(p, b, v) PROVE Types'
  <2>1. wrote' \in [Procs -> SUBSET Blocks] /\ writes' \in [Procs -> 0..OPWRITES]
    BY <1>0, <1>15 DEF Modify, Types
  <2>2. pc' \in [Procs -> PCs]
    BY <1>0, <1>15 DEF Modify, Types
  <2> QED
    BY <1>0, <1>15, <2>1, <2>2 DEF Modify, Types
<1>16. ASSUME NEW b \in Blocks, Fill(b) \/ Recycle(b) PROVE Types'
  BY <1>0, <1>16, ZenonT(60) DEF Fill, Recycle, Types
<1>17. CASE Crash
  <2>1. wrote' \in [Procs -> SUBSET Blocks] /\ writes' \in [Procs -> 0..OPWRITES]
    BY <1>17 DEF Crash
  <2>2. pc' \in [Procs -> PCs] /\ blk' \in [Procs -> Blocks \cup {NoBlock}]
    BY <1>17 DEF Crash
  <2>3. buf' \in [Blocks -> Val \cup {NoBuf}]
    BY <1>17 DEF Crash
  <2>4. /\ dirty' \subseteq Blocks /\ lh' \in Seq(Blocks)
        /\ boot' \in {"read_head", "install_trans", "up"}
        /\ tail' \in 1..(LOGSIZE + 1) /\ crashes' \in 0..MAXCRASH
        /\ UNCHANGED <<home, logd, hdr>>
    BY <1>0, <1>17 DEF Crash, Types
  <2>5. committing' \in BOOLEAN
    BY <1>17, ZenonT(60) DEF Crash
  <2> QED
    BY <1>0, <2>1, <2>2, <2>3, <2>4, <2>5 DEF Types
<1>18. CASE UNCHANGED vars
  BY <1>0, <1>18 DEF Types
<1> QED
  BY <1>1, <1>3, <1>4, <1>5, <1>6, <1>7, <1>8, <1>9, <1>10, <1>11, <1>12, <1>13,
     <1>14, <1>15, <1>16, <1>17, <1>18 DEF Next, Recovery, Commit

(* The last call to end is the only one in progress. *)
LEMMA LastOne ==
  ASSUME Types, Counts, NEW p \in Active
  PROVE  /\ outstanding \in Nat /\ outstanding >= 1
         /\ outstanding = 1 => Active = {p}
<1>1. Cardinality(Active) \in Nat /\ IsFiniteSet(Active)
  BY Finite
<1>2. Cardinality(Active) # 0
  BY <1>1, FS_EmptySet
<1>3. Cardinality(Active) = 1 => Active = {p}
  BY <1>1, FS_Singleton
<1> QED
  BY <1>1, <1>2, <1>3 DEF Counts

(* With Fits, log_write finds room. *)
LEMMA RoomToLog ==
  ASSUME Fits, Types, Counts, NEW p \in Active
  PROVE  ~(Len(lh) >= LOGSIZE \/ Len(lh) >= NLOG - 1 \/ outstanding < 1)
BY Unused, LhFits, LastOne, Consts DEF Fits

(* Every step keeps one committer, no call beside it, and no panic. *)
LEMMA ControlStep == Fits /\ CInv /\ [Next]_vars => Control'
<1> SUFFICES ASSUME Fits, CInv, [Next]_vars PROVE Control'
  OBVIOUS
<1>0. Types /\ Control /\ Counts
  BY DEF CInv
<1> USE DEF Goto, Active
<1>1. ASSUME UNCHANGED <<pc, committing>>, boot' = boot \/ boot' = "up" \/ boot # "up" PROVE Control'
  BY <1>0, <1>1 DEF Control
<1>2. CASE Recovery
  BY <1>1, <1>2 DEF Recovery, read_head, RecoverInstall, Install, RecoverErase
<1>3. ASSUME NEW p \in Procs, Call(p) PROVE Control'
  BY <1>0, <1>3 DEF Call, Control, Types
<1>4. ASSUME NEW p \in Procs, begin_op(p) PROVE Control'
  BY <1>0, <1>4 DEF begin_op, MustWait, Control, Types
<1>5. ASSUME NEW p \in Procs, log_write(p) PROVE Control'
  BY <1>0, <1>5 DEF log_write, Control, Types
<1>6. ASSUME NEW p \in Procs, end_op(p) PROVE Control'
  <2>1. p \in Active /\ ~committing /\ boot = "up"
    BY <1>0, <1>6 DEF end_op, Control
  <2>2. CASE outstanding = 1
    <3>1. \A q \in Procs : pc[q] \in OpPCs => q = p
      BY <1>0, <2>1, <2>2, LastOne
    <3>2. /\ pc' = [pc EXCEPT ![p] = "commit"] /\ committing' = TRUE
          /\ boot' = boot
      BY <1>6, <2>1, <2>2 DEF end_op
    <3>3. \A q \in Procs : pc[q] \notin CommitPCs
      BY <1>0, <2>1 DEF Control
    <3> QED
      BY <1>0, <2>1, <3>1, <3>2, <3>3 DEF Control, Types
  <2>3. CASE outstanding # 1
    <3>1. /\ pc' = Wakeup([pc EXCEPT ![p] = "out"]) /\ committing' = committing
          /\ boot' = boot
      BY <1>6, <2>1, <2>3 DEF end_op
    <3> QED
      BY <1>0, <2>1, <3>1 DEF Wakeup, Control, Types
  <2> QED
    BY <2>2, <2>3
<1>7. ASSUME NEW p \in Procs, commit(p) PROVE Control'
  BY <1>0, <1>7 DEF commit, Control, Types
<1>8. ASSUME NEW p \in Procs, write_log(p) PROVE Control'
  BY <1>0, <1>8, ZenonT(60) DEF write_log, Control, Types
<1>9. ASSUME NEW p \in Procs, write_head(p) PROVE Control'
  BY <1>0, <1>9 DEF write_head, Control, Types
<1>10. ASSUME NEW p \in Procs, install_trans(p) PROVE Control'
  BY <1>0, <1>1, <1>10 DEF install_trans, Install, Control, Types
<1>11. ASSUME NEW p \in Procs, erase(p) PROVE Control'
  BY <1>0, <1>11 DEF erase, Control, Types
<1>12. ASSUME NEW p \in Procs, committed(p) PROVE Control'
  BY <1>0, <1>12 DEF committed, Wakeup, Control, Types
<1>13. ASSUME NEW p \in Procs, NEW b \in Blocks, NEW v \in Val, Modify(p, b, v) PROVE Control'
  <2>1. pc' = [pc EXCEPT ![p] = "append"]
    <3>1. p \in Active
      BY <1>13 DEF Modify
    <3> QED
      BY <1>0, <1>13, <3>1, RoomToLog, ZenonT(60) DEF Modify
  <2> QED
    BY <1>0, <1>13, <2>1 DEF Modify, Control, Types
<1>14. ASSUME NEW b \in Blocks, Fill(b) \/ Recycle(b) PROVE Control'
  BY <1>1, <1>14 DEF Fill, Recycle
<1>15. CASE Crash
  BY <1>15 DEF Crash, Control
<1>16. CASE UNCHANGED vars
  BY <1>1, <1>16
<1> QED
  BY <1>2, <1>3, <1>4, <1>5, <1>6, <1>7, <1>8, <1>9, <1>10, <1>11, <1>12, <1>13,
     <1>14, <1>15, <1>16 DEF Next, Commit

(* Every step keeps a buffer locked by at most the one call that logs it. *)
LEMMA LockedStep == Fits /\ CInv /\ [Next]_vars => Locked'
<1> SUFFICES ASSUME Fits, CInv, [Next]_vars PROVE Locked'
  OBVIOUS
<1>0. Types /\ Control /\ Counts /\ Locked
  BY DEF CInv
<1> USE DEF Goto
<1>1. ASSUME UNCHANGED <<blk, wrote>>,
             \A q \in Procs : pc[q] = "append" <=> pc'[q] = "append"
      PROVE  Locked'
  BY <1>0, <1>1 DEF Locked
<1>2. CASE Recovery
  BY <1>1, <1>2 DEF Recovery, read_head, RecoverInstall, Install, RecoverErase
<1>3. ASSUME NEW p \in Procs, Call(p) \/ end_op(p) PROVE Locked'
  BY <1>0, <1>1, <1>3 DEF Call, end_op, Wakeup, Types
<1>4. ASSUME NEW p \in Procs, begin_op(p) PROVE Locked'
  BY <1>0, <1>4, ZenonT(60) DEF begin_op, Locked, Types
<1>5. ASSUME NEW p \in Procs, log_write(p) PROVE Locked'
  BY <1>0, <1>5, Consts DEF log_write, Locked, Types
<1>6. ASSUME NEW p \in Procs, Commit(p) PROVE Locked'
  BY <1>0, <1>1, <1>6, ZenonT(60) DEF Commit, commit, write_log, write_head, install_trans, Install,
     erase, committed, Wakeup, Types
<1>7. ASSUME NEW p \in Procs, NEW b \in Blocks, NEW v \in Val, Modify(p, b, v) PROVE Locked'
  <2>1. pc' = [pc EXCEPT ![p] = "append"]
    <3>1. p \in Active
      BY <1>7 DEF Modify, Active
    <3> QED
      BY <1>0, <1>7, <3>1, RoomToLog, ZenonT(60) DEF Modify
  <2> QED
    BY <1>0, <1>7, <2>1, Consts DEF Modify, Locked, Types
<1>8. ASSUME NEW b \in Blocks, Fill(b) \/ Recycle(b) PROVE Locked'
  BY <1>1, <1>8 DEF Fill, Recycle
<1>9. CASE Crash
  BY <1>9 DEF Crash, Locked
<1>10. CASE UNCHANGED vars
  BY <1>1, <1>10
<1> QED
  BY <1>2, <1>3, <1>4, <1>5, <1>6, <1>7, <1>8, <1>9, <1>10 DEF Next

(* Tokens that go away leave room. *)
LEMMA FewerTokens ==
  ASSUME Types, Types', Counts, Reserved' \subseteq Reserved, Len(lh') = Len(lh)
  PROVE  Len(lh') + Cardinality(Reserved') <= LOGSIZE
<1>1. Cardinality(Reserved') <= Cardinality(Reserved)
  BY Finite, FS_Subset
<1>2. Cardinality(Reserved') \in Nat /\ Cardinality(Reserved) \in Nat
  <2>1. IsFiniteSet(Reserved')
    BY Finite, FS_Subset
  <2> QED
    BY <2>1, Finite, FS_CardinalityType
<1> QED
  BY <1>1, <1>2, LhFits, Consts DEF Counts

(* log_write names one more block in log.lh. *)
LEMMA LoggedAppend ==
  ASSUME lh \in Seq(Blocks), NEW b \in Blocks, lh' = Append(lh, b)
  PROVE  Logged' = Logged \cup {b} /\ Len(lh') = Len(lh) + 1
<1>1. /\ Len(lh') = Len(lh) + 1 /\ Len(lh) \in Nat
      /\ \A i \in 1..Len(lh) : lh'[i] = lh[i]
      /\ lh'[Len(lh) + 1] = b
  OBVIOUS
<1>2. Logged' \subseteq Logged \cup {b}
  <2> SUFFICES ASSUME NEW i \in 1..Len(lh') PROVE lh'[i] \in Logged \cup {b}
    BY DEF Logged
  <2>1. i \in 1..Len(lh) \/ i = Len(lh) + 1
    BY <1>1
  <2> QED
    BY <1>1, <2>1 DEF Logged
<1>3. Logged \subseteq Logged'
  <2> SUFFICES ASSUME NEW i \in 1..Len(lh) PROVE lh[i] \in Logged'
    BY DEF Logged
  <2>1. i \in 1..Len(lh') /\ lh[i] = lh'[i]
    BY <1>1
  <2> QED
    BY <2>1 DEF Logged
<1>4. b \in Logged'
  <2>1. Len(lh) + 1 \in 1..Len(lh')
    BY <1>1
  <2> QED
    BY <1>1, <2>1 DEF Logged
<1> QED
  BY <1>1, <1>2, <1>3, <1>4

(* A new block in the log costs the call that logs it a token. *)
LEMMA LogWriteCounts ==
  ASSUME CInv, Types', NEW p \in Procs, log_write(p)
  PROVE  Counts'
<1>0. Types /\ Counts /\ Locked
  BY DEF CInv
<1>1. /\ pc[p] = "append" /\ pc' = [pc EXCEPT ![p] = "op"]
      /\ UNCHANGED <<outstanding, wrote>>
      /\ blk[p] \in wrote[p] /\ blk[p] \in Blocks
  BY <1>0 DEF log_write, Goto, Locked, Types
<1>2. Active' = Active /\ p \in Active
  BY <1>0, <1>1 DEF Active, Types
<1>3. CASE blk[p] \in Logged
  <2>1. lh' = lh
    BY <1>3 DEF log_write
  <2>2. Reserved' = Reserved
    BY <1>1, <1>2, <2>1 DEF Reserved, Logged
  <2> QED
    BY <1>0, <1>1, <1>2, <2>1, <2>2 DEF Counts
<1>4. CASE blk[p] \notin Logged
  <2>1. lh' = Append(lh, blk[p])
    BY <1>4 DEF log_write
  <2>2. Logged' = Logged \cup {blk[p]} /\ Len(lh') = Len(lh) + 1
    BY <1>0, <1>1, <2>1, LoggedAppend DEF Types
  <2> DEFINE u(q) == Cardinality(wrote[q] \cap Logged)
             w(q) == Cardinality(wrote[q] \cap Logged')
             t == <<p, u(p) + 1>>
  <2>3. ASSUME NEW q \in Procs
        PROVE  u(q) \in Nat /\ w(q) \in Nat /\ u(q) <= w(q)
    <3>1. IsFiniteSet(wrote[q] \cap Logged')
      BY <1>0, Finite, FS_Intersection, ZenonT(60)
    <3>2. wrote[q] \cap Logged \in SUBSET (wrote[q] \cap Logged')
      BY <2>2
    <3> QED
      BY <1>0, <3>1, <3>2, FS_Subset, FS_CardinalityType, Finite
  <2>4. w(p) = u(p) + 1
    <3>1. wrote[p] \cap Logged' = (wrote[p] \cap Logged) \cup {blk[p]}
      BY <1>1, <2>2
    <3>2. blk[p] \notin wrote[p] \cap Logged
      BY <1>4
    <3> QED
      BY <1>0, <3>1, <3>2, Finite, FS_AddElement, ZenonT(60)
  <2>5. u(p) + 1 <= MAXOPBLOCKS
    <3>1. w(p) <= Cardinality(wrote[p])
      BY <1>0, Finite, FS_Intersection, ZenonT(60)
    <3>2. Cardinality(wrote[p]) <= OPBLOCKS /\ Cardinality(wrote[p]) \in Nat
      BY <1>0, Finite, ZenonT(60) DEF Counts
    <3>3. w(p) \in Nat
      BY <2>3, ZenonT(60)
    <3> HIDE DEF w, u
    <3> QED
      BY <2>4, <3>1, <3>2, <3>3, Consts
  <2>6. t \in Reserved
    <3>1. u(p) \in Nat
      BY <2>3, ZenonT(60)
    <3>2. u(p) + 1 \in 1..MAXOPBLOCKS /\ u(p) + 1 > u(p)
      <4> HIDE DEF u
      <4> QED
        BY <2>5, <3>1, Consts
    <3> QED
      BY <1>2, <3>2, ZenonT(60) DEF Reserved
  <2>7. Reserved' \subseteq Reserved \ {t}
    <3> SUFFICES ASSUME NEW x \in Reserved' PROVE x \in Reserved \ {t}
      OBVIOUS
    <3>1. PICK q \in Active, i \in 1..MAXOPBLOCKS : x = <<q, i>>
      BY <1>2 DEF Reserved
    <3>2. i > w(q)
      BY <1>1, <3>1 DEF Reserved
    <3>3. u(q) \in Nat /\ w(q) \in Nat /\ u(q) <= w(q)
      BY <2>3 DEF Active
    <3>4. i > u(q)
      <4> HIDE DEF u, w
      <4> QED
        BY <3>2, <3>3
    <3>5. <<q, i>> # t
      <4> HIDE DEF u, w
      <4> QED
        BY <2>4, <3>2, <3>3
    <3> QED
      BY <3>1, <3>4, <3>5, ZenonT(60) DEF Reserved
  <2>8. /\ IsFiniteSet(Reserved \ {t})
        /\ Cardinality(Reserved \ {t}) = Cardinality(Reserved) - 1
    BY <1>0, <2>6, Finite, FS_RemoveElement, ZenonT(60)
  <2>9. /\ Cardinality(Reserved') <= Cardinality(Reserved) - 1
        /\ Cardinality(Reserved') \in Nat
    <3>1. /\ IsFiniteSet(Reserved') /\ Cardinality(Reserved') \in Nat
          /\ Cardinality(Reserved') <= Cardinality(Reserved \ {t})
      <4> HIDE DEF t
      <4> QED
        BY <2>7, <2>8, FS_Subset, FS_CardinalityType
    <3> QED
      BY <2>8, <3>1
  <2>10. Len(lh') + Cardinality(Reserved') <= LOGSIZE
    BY <1>0, <2>2, <2>9, Finite, LhFits, Consts DEF Counts
  <2> QED
    BY <1>0, <1>1, <1>2, <2>10 DEF Counts
<1> QED
  BY <1>3, <1>4

(* begin_op reserves MAXOPBLOCKS more blocks, and they fit. *)
LEMMA BeginOpCounts ==
  ASSUME CInv, Types', NEW p \in Procs, begin_op(p), ~MustWait
  PROVE  Counts'
<1>0. Types /\ Counts
  BY DEF CInv
<1>1. /\ pc[p] = "begin_op" /\ pc' = [pc EXCEPT ![p] = "op"]
      /\ outstanding' = outstanding + 1 /\ lh' = lh
      /\ wrote' = [wrote EXCEPT ![p] = {}]
      /\ Len(lh) + (outstanding + 1) * MAXOPBLOCKS <= LOGSIZE
  <2>1. outstanding \in Nat
    BY <1>0, Finite DEF Counts
  <2> QED
    BY <1>0, <2>1, LhFits, Consts DEF begin_op, MustWait, NoSpace, Goto
<1>2. Active' = Active \cup {p} /\ p \notin Active
  BY <1>0, <1>1 DEF Active, Types
<1>3. /\ IsFiniteSet(Active') /\ Cardinality(Active') = outstanding + 1
      /\ outstanding \in Nat
  BY <1>0, <1>2, Finite, FS_AddElement DEF Counts
<1>4. /\ IsFiniteSet(1..MAXOPBLOCKS) /\ Cardinality(1..MAXOPBLOCKS) = MAXOPBLOCKS
  BY FS_Interval, Consts
<1>5. /\ IsFiniteSet(Active' \X (1..MAXOPBLOCKS))
      /\ Cardinality(Active' \X (1..MAXOPBLOCKS)) = (outstanding + 1) * MAXOPBLOCKS
  BY <1>3, <1>4, FS_Product, ZenonT(60)
<1>6. Reserved' \in SUBSET (Active' \X (1..MAXOPBLOCKS))
  BY DEF Reserved
<1>7. /\ Cardinality(Reserved') <= (outstanding + 1) * MAXOPBLOCKS
      /\ Cardinality(Reserved') \in Nat
  BY <1>5, <1>6, FS_Subset, FS_CardinalityType
<1>8. Len(lh') + Cardinality(Reserved') <= LOGSIZE
  <2>1. (outstanding + 1) * MAXOPBLOCKS \in Nat
    BY <1>3, <1>5, FS_CardinalityType
  <2> QED
    BY <1>0, <1>1, <1>7, <2>1, LhFits, Consts
<1>9. \A q \in Procs : Cardinality(wrote'[q]) <= OPBLOCKS
  BY <1>0, <1>1, FS_EmptySet, Consts DEF Counts, Types
<1> QED
  BY <1>1, <1>3, <1>8, <1>9 DEF Counts

(* end_op gives back what its call had reserved. *)
LEMMA EndOpCounts ==
  ASSUME CInv, Types', NEW p \in Procs, end_op(p)
  PROVE  Counts'
<1>0. Types /\ Counts /\ Control
  BY DEF CInv
<1>1. /\ pc[p] = "op" /\ outstanding' = outstanding - 1
      /\ UNCHANGED <<lh, wrote>>
      /\ pc'[p] \notin OpPCs
      /\ \A q \in Procs \ {p} : pc'[q] \in OpPCs <=> pc[q] \in OpPCs
  BY <1>0 DEF end_op, Goto, Wakeup, Types
<1>2. Active' = Active \ {p} /\ p \in Active
  BY <1>0, <1>1 DEF Active
<1>3. Cardinality(Active') = outstanding'
  BY <1>0, <1>1, <1>2, Finite, FS_RemoveElement, ZenonT(60) DEF Counts
<1>4. Reserved' \subseteq Reserved
  BY <1>1, <1>2 DEF Reserved, Logged
<1>5. Len(lh') + Cardinality(Reserved') <= LOGSIZE
  BY <1>0, <1>1, <1>4, FewerTokens
<1> QED
  BY <1>0, <1>1, <1>3, <1>5 DEF Counts

(* A block a call changes may use a token, never make one. *)
LEMMA ModifyCounts ==
  ASSUME CInv, Types', NoPanic', NEW p \in Procs, NEW b \in Blocks, NEW v \in Val,
         Modify(p, b, v)
  PROVE  Counts'
<1>0. Types /\ Counts
  BY DEF CInv
<1>1. /\ pc[p] = "op" /\ pc' = [pc EXCEPT ![p] = "append"]
      /\ UNCHANGED <<lh, outstanding>>
      /\ wrote' = [wrote EXCEPT ![p] = @ \cup {b}]
      /\ Cardinality(wrote[p] \cup {b}) <= OPBLOCKS
  <2>1. /\ pc[p] = "op" /\ UNCHANGED <<lh, outstanding>>
        /\ wrote' = [wrote EXCEPT ![p] = @ \cup {b}]
        /\ Cardinality(wrote[p] \cup {b}) <= OPBLOCKS
        /\ \/ pc' = [pc EXCEPT ![p] = "append"]
           \/ pc' = [pc EXCEPT ![p] = "panic"]
    BY ZenonT(60) DEF Modify, Goto
  <2> QED
    BY <1>0, <2>1 DEF NoPanic, Types
<1>2. Active' = Active
  BY <1>0, <1>1 DEF Active, Types
<1>3. ASSUME NEW q \in Procs
      PROVE  /\ Cardinality(wrote[q] \cap Logged) <= Cardinality(wrote'[q] \cap Logged')
             /\ Cardinality(wrote'[q] \cap Logged') \in Nat
  <2>1. wrote[q] \cap Logged \in SUBSET (wrote'[q] \cap Logged')
    BY <1>0, <1>1, ZenonT(60) DEF Logged, Types
  <2>2. wrote'[q] \cap Logged' \in SUBSET Blocks
    BY DEF Types
  <2>3. IsFiniteSet(wrote'[q] \cap Logged')
    BY <2>2, FS_Subset, Consts, ZenonT(60)
  <2> QED
    BY <2>1, <2>3, FS_Subset, FS_CardinalityType
<1>4. Reserved' \subseteq Reserved
  <2> SUFFICES ASSUME NEW x \in Reserved' PROVE x \in Reserved
    OBVIOUS
  <2>1. PICK q \in Active, i \in 1..MAXOPBLOCKS : x = <<q, i>>
    BY <1>2 DEF Reserved
  <2> DEFINE u == Cardinality(wrote[q] \cap Logged)
             w == Cardinality(wrote'[q] \cap Logged')
  <2>2. i > w
    BY <2>1 DEF Reserved
  <2>3. q \in Procs
    BY DEF Active
  <2>4. u \in Nat /\ w \in Nat /\ u <= w
    BY <1>0, <1>3, <2>3, Finite
  <2>5. i > u
    <3> HIDE DEF u, w
    <3> QED
      BY <2>2, <2>4
  <2> QED
    BY <2>1, <2>5 DEF Reserved
<1>5. Len(lh') + Cardinality(Reserved') <= LOGSIZE
  BY <1>0, <1>1, <1>4, FewerTokens
<1>6. \A q \in Procs : Cardinality(wrote'[q]) <= OPBLOCKS
  BY <1>0, <1>1 DEF Counts, Types
<1> QED
  BY <1>0, <1>1, <1>2, <1>5, <1>6 DEF Counts

(* Steps outside any call hold no token. *)
LEMMA IdleCounts ==
  ASSUME Types', Active' = {}, outstanding' = 0, Len(lh') <= LOGSIZE,
         \A p \in Procs : Cardinality(wrote'[p]) <= OPBLOCKS
  PROVE  Counts'
<1>1. Reserved' = {}
  BY DEF Reserved
<1>2. Cardinality({}) = 0
  BY FS_EmptySet
<1>3. Len(lh') \in Nat
  BY DEF Types
<1> QED
  BY <1>1, <1>2, <1>3, Consts DEF Counts

(* Every step keeps log.outstanding and the room in the log right. *)
LEMMA CountsStep ==
  ASSUME CInv, Types', Control', [Next]_vars
  PROVE  Counts'
<1>0. Types /\ Control /\ Counts /\ Locked
  BY DEF CInv
<1>a. NoPanic'
  BY DEF Control, NoPanic
<1>b. /\ outstanding \in Nat /\ Cardinality({}) = 0
      /\ Active = {} => outstanding = 0
  BY <1>0, Finite, FS_EmptySet DEF Counts
<1>1. ASSUME UNCHANGED <<lh, outstanding, wrote>>, Active' = Active
      PROVE  Counts'
  <2>1. Reserved' = Reserved
    BY <1>1 DEF Reserved, Logged
  <2> QED
    BY <1>0, <1>1, <2>1 DEF Counts
<1>2. CASE read_head
  <2>1. boot # "up" /\ UNCHANGED <<pc, outstanding, wrote>> /\ lh' = hdr
    BY <1>2 DEF read_head
  <2>2. Active = {} /\ Active' = {}
    BY <1>0, <2>1 DEF Control, Active
  <2>3. Len(lh') <= LOGSIZE
    BY <1>0, <2>1 DEF Types
  <2>4. outstanding' = 0 /\ \A q \in Procs : Cardinality(wrote'[q]) <= OPBLOCKS
    BY <1>0, <1>b, <2>1, <2>2 DEF Counts
  <2> QED
    BY <2>2, <2>3, <2>4, IdleCounts
<1>3. CASE RecoverInstall
  BY <1>1, <1>3 DEF RecoverInstall, Install, Active
<1>4. CASE RecoverErase
  <2>1. boot # "up" /\ UNCHANGED <<pc, outstanding, wrote>> /\ lh' = <<>>
    BY <1>4 DEF RecoverErase
  <2>2. Active = {} /\ Active' = {}
    BY <1>0, <2>1 DEF Control, Active
  <2>3. Len(lh') <= LOGSIZE
    BY <2>1, Consts
  <2>4. outstanding' = 0 /\ \A q \in Procs : Cardinality(wrote'[q]) <= OPBLOCKS
    BY <1>0, <1>b, <2>1, <2>2 DEF Counts
  <2> QED
    BY <2>2, <2>3, <2>4, IdleCounts
<1>5. ASSUME NEW p \in Procs, Call(p) PROVE Counts'
  BY <1>0, <1>1, <1>5 DEF Call, Goto, Active, Types
<1>6. ASSUME NEW p \in Procs, begin_op(p) PROVE Counts'
  <2>1. CASE MustWait
    BY <1>0, <1>1, <1>6, <2>1 DEF begin_op, Goto, Active, Types
  <2> QED
    BY <1>6, <2>1, BeginOpCounts
<1>7. ASSUME NEW p \in Procs, log_write(p) PROVE Counts'
  BY <1>7, LogWriteCounts
<1>8. ASSUME NEW p \in Procs, end_op(p) PROVE Counts'
  BY <1>8, EndOpCounts
<1>9. ASSUME NEW p \in Procs, commit(p) PROVE Counts'
  BY <1>0, <1>1, <1>9 DEF commit, Goto, Active, Types
<1>10. ASSUME NEW p \in Procs, write_log(p) PROVE Counts'
  BY <1>0, <1>1, <1>10 DEF write_log, Goto, Active, Types
<1>11. ASSUME NEW p \in Procs, write_head(p) PROVE Counts'
  BY <1>0, <1>1, <1>11 DEF write_head, Goto, Active, Types
<1>12. ASSUME NEW p \in Procs, install_trans(p) PROVE Counts'
  BY <1>0, <1>1, <1>12, ZenonT(60) DEF install_trans, Install, Goto, Active, Types
<1>13. ASSUME NEW p \in Procs, erase(p) PROVE Counts'
  <2>1. /\ pc[p] = "erase" /\ pc' = [pc EXCEPT ![p] = "committed"]
        /\ UNCHANGED <<outstanding, wrote>> /\ lh' = <<>>
    BY <1>13 DEF erase, Goto
  <2>2. Active = {}
    BY <1>0, <2>1 DEF Control
  <2>3. Active' = {}
    BY <1>0, <2>1, <2>2 DEF Active, Types
  <2>4. Len(lh') <= LOGSIZE
    BY <2>1, Consts
  <2>5. outstanding' = 0 /\ \A q \in Procs : Cardinality(wrote'[q]) <= OPBLOCKS
    BY <1>0, <1>b, <2>1, <2>2, ZenonT(60) DEF Counts
  <2> QED
    BY <2>3, <2>4, <2>5, IdleCounts
<1>14. ASSUME NEW p \in Procs, committed(p) PROVE Counts'
  BY <1>0, <1>1, <1>14 DEF committed, Wakeup, Active, Types
<1>15. ASSUME NEW p \in Procs, NEW b \in Blocks, NEW v \in Val, Modify(p, b, v)
       PROVE  Counts'
  BY <1>a, <1>15, ModifyCounts
<1>16. ASSUME NEW b \in Blocks, Fill(b) \/ Recycle(b) PROVE Counts'
  BY <1>1, <1>16, ZenonT(60) DEF Fill, Recycle, Active
<1>17. CASE Crash
  <2>1. Active' = {} /\ outstanding' = 0 /\ lh' = <<>>
        /\ \A p \in Procs : wrote'[p] = {}
    BY <1>17 DEF Crash, Active
  <2>2. Len(lh') <= LOGSIZE
    BY <2>1, Consts
  <2>3. \A p \in Procs : Cardinality(wrote'[p]) <= OPBLOCKS
    <3>1. Cardinality({}) = 0 /\ 0 <= OPBLOCKS
      BY FS_EmptySet, Consts
    <3> QED
      BY <2>1, <3>1, ZenonT(60)
  <2> QED
    BY <2>1, <2>2, <2>3, IdleCounts
<1>18. CASE UNCHANGED vars
  BY <1>1, <1>18 DEF Active
<1> QED
  BY <1>2, <1>3, <1>4, <1>5, <1>6, <1>7, <1>8, <1>9, <1>10, <1>11, <1>12,
     <1>13, <1>14, <1>15, <1>16, <1>17, <1>18 DEF Next, Recovery, Commit

-----------------------------------------------------------------------------
(* Control and counting part of the invariant, for every behaviour. *)
THEOREM ControlInvariant == Fits /\ Spec => []CInv
<1> SUFFICES ASSUME Fits PROVE Spec => []CInv
  OBVIOUS
<1>1. CInv /\ [Next]_vars => CInv'
  BY TypesStep, ControlStep, CountsStep, LockedStep DEF CInv
<1> QED
  BY <1>1, InitCInv, PTL DEF Spec

(* Every variable of log.c keeps its type, log.lh its bound and               *)
(* log.outstanding the number of calls: begin_op admits no more than fit.     *)
THEOREM TypeCorrect == Fits /\ Spec => []TypeOK
<1>1. CInv => TypeOK
  BY Finite, LhFits, ZenonT(60) DEF CInv, Types, Counts, TypeOK
<1> QED
  BY <1>1, ControlInvariant, PTL

(* The panics of log_write and end_op are unreachable: a call that begin_op *)
(* has admitted finds room for its blocks, however calls interleave and     *)
(* whenever the machine stops.                                              *)
THEOREM PanicFree == Fits /\ Spec => []NoPanic
<1>1. CInv => NoPanic
  BY DEF CInv, Control, NoPanic
<1> QED
  BY <1>1, ControlInvariant, PTL
=============================================================================
