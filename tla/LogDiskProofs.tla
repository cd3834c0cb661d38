--------------------------- MODULE LogDiskProofs ---------------------------
(***************************************************************************)
(* Log implements AtomicDisk, for every number of processes, blocks and    *)
(* crashes and every size of the log.                                      *)
(***************************************************************************)
EXTENDS LogProofs

Distinct(s) == \A i, j \in 1..Len(s) : s[i] = s[j] => i = j

Stages == {"write_log", "write_head", "install_trans", "erase"}

Installing == \E p \in Procs : pc[p] \in {"install_trans", "erase"}

(* The header on disk names blocks only while they are being installed. *)
Header ==
  /\ Distinct(lh) /\ Distinct(hdr)
  /\ boot = "up" /\ ~Installing => hdr = <<>>
  /\ boot = "install_trans" \/ Installing => hdr = lh

(* A read differs from the home block only while the buffer is pinned. *)
Pinned ==
  \A b \in Blocks : View(b) # home[b] =>
    /\ boot = "up"
    /\ b \in Logged \cap dirty \/ \E p \in Procs : blk[p] = b

(* write_log has copied the blocks below tail, or all of them. *)
LogCopied ==
  \A p \in Procs, i \in 1..Len(lh) :
    (pc[p] = "write_log" /\ i < tail) \/ pc[p] \in {"write_head", "install_trans", "erase"}
      => logd[i] = View(lh[i])

(* install_trans has copied the blocks below tail, or all of them. *)
HomeCopied ==
  /\ \A i \in 1..Len(lh) : boot = "install_trans" /\ i < tail => home[lh[i]] = logd[i]
  /\ \A p \in Procs, i \in 1..Len(lh) :
       (pc[p] = "install_trans" /\ i < tail) \/ pc[p] = "erase" => home[lh[i]] = logd[i]

DInv == Header /\ Pinned /\ LogCopied /\ HomeCopied

-----------------------------------------------------------------------------
USE SMTT(60), ZenonT(60) DEF vars, disk, cache, logv, opv, bootv, OpPCs, CommitPCs, PCs

(* A commit runs beside no call and no other commit. *)
LEMMA CommitAlone ==
  ASSUME CInv, NEW p \in Procs, pc[p] \in CommitPCs
  PROVE  /\ boot = "up"
         /\ \A q \in Procs : q # p => pc[q] \notin CommitPCs
         /\ \A q \in Procs : pc[q] \notin OpPCs
         /\ \A q \in Procs, b \in Blocks : blk[q] # b
<1>1. committing /\ boot = "up"
  BY DEF CInv, Control
<1>2. \A q \in Procs : pc[q] \notin OpPCs
  BY <1>1 DEF CInv, Control, Active
<1>3. \A q \in Procs : blk[q] = NoBlock
  BY <1>2 DEF CInv, Locked
<1>4. \A q \in Procs : q # p => pc[q] \notin CommitPCs
  BY DEF CInv, Control
<1> QED
  BY <1>1, <1>2, <1>3, <1>4, Consts

(* A call runs beside no commit. *)
LEMMA CallAlone ==
  ASSUME CInv, NEW p \in Procs, pc[p] \in OpPCs
  PROVE  boot = "up" /\ \A q \in Procs : pc[q] \notin CommitPCs
BY DEF CInv, Control, Active

(* Nothing runs before recovery is done. *)
LEMMA BootAlone ==
  ASSUME CInv, boot # "up"
  PROVE  \A q \in Procs : pc[q] = "out"
BY DEF CInv, Control

(* While there is no commit and no recovery, only the buffers count. *)
LEMMA NoCommit ==
  ASSUME \A q \in Procs : pc'[q] \notin Stages,
         boot' = "up", hdr' = <<>>, Distinct(lh)', Pinned'
  PROVE  DInv'
<1>1. ~Installing'
  BY DEF Installing, Stages
<1>2. Distinct(hdr)'
  BY DEF Distinct
<1>3. Header'
  BY <1>1, <1>2 DEF Header
<1>4. LogCopied' /\ HomeCopied'
  BY DEF LogCopied, HomeCopied, Stages
<1> QED
  BY <1>3, <1>4 DEF DInv

(* A step that copies no block and leaves the stage of the commit alone. *)
LEMMA Quiet ==
  ASSUME DInv, UNCHANGED <<home, logd, hdr, lh, boot, tail>>,
         \A b \in Blocks : View(b)' = View(b), lh \in Seq(Blocks),
         \A q \in Procs : pc'[q] = pc[q] \/ (pc'[q] \notin Stages /\ pc[q] \notin Stages),
         Pinned'
  PROVE  DInv'
<1>1. Installing' <=> Installing
  BY DEF Installing, Stages
<1>2. Header'
  BY <1>1 DEF DInv, Header, Distinct
<1>3. \A i \in 1..Len(lh) : lh[i] \in Blocks
  OBVIOUS
<1>4. LogCopied'
  BY <1>3 DEF DInv, LogCopied, Stages
<1>5. HomeCopied'
  BY DEF DInv, HomeCopied, Stages
<1> QED
  BY <1>2, <1>4, <1>5 DEF DInv

(* mkfs leaves no block in the log. *)
LEMMA InitDInv == Init => DInv
<1> SUFFICES ASSUME Init PROVE DInv
  OBVIOUS
<1>1. Header
  BY DEF Init, Header, Distinct, Installing
<1>2. Pinned
  BY DEF Init, Pinned, View
<1>3. LogCopied /\ HomeCopied
  BY DEF Init, LogCopied, HomeCopied
<1> QED
  BY <1>1, <1>2, <1>3 DEF DInv

(* A call keeps its buffers pinned. *)
LEMMA CallDInv ==
  ASSUME CInv, DInv, NEW p \in Procs,
         Call(p) \/ begin_op(p) \/ end_op(p) \/ committed(p)
  PROVE  DInv'
<1>0. Types
  BY DEF CInv
<1>1. /\ UNCHANGED <<home, logd, hdr, lh, boot, tail, buf, dirty, blk>>
      /\ pc[p] \notin Stages
  BY DEF Call, begin_op, end_op, committed, Stages
<1>2. \A q \in Procs : pc'[q] = pc[q] \/ (pc'[q] \notin Stages /\ pc[q] \notin Stages)
  BY <1>0 DEF Call, begin_op, end_op, committed, Goto, Wakeup, Stages, Types
<1>3. \A b \in Blocks : View(b)' = View(b)
  BY <1>1 DEF View
<1>4. Pinned'
  BY <1>1, <1>3 DEF DInv, Pinned, Logged
<1> QED
  BY <1>0, <1>1, <1>2, <1>3, <1>4, Quiet DEF Types

(* A block changed by a call is locked until log_write has pinned it. *)
LEMMA WriteDInv ==
  ASSUME CInv, DInv, Types', Control', NEW p \in Procs,
         log_write(p) \/ \E b \in Blocks, v \in Val : Modify(p, b, v)
  PROVE  DInv'
<1>0. Types /\ Locked
  BY DEF CInv
<1>1. boot = "up" /\ \A q \in Procs : pc[q] \notin CommitPCs
  BY CallAlone, ZenonT(60) DEF log_write, Modify
<1>2. hdr = <<>>
  BY <1>1 DEF DInv, Header, Installing
<1>3. \A q \in Procs : pc'[q] \notin Stages
  <2>1. PICK l \in {"op", "append", "panic"} : pc' = [pc EXCEPT ![p] = l]
    BY ZenonT(60) DEF log_write, Modify, Goto
  <2> QED
    BY <1>0, <1>1, <2>1 DEF Stages, Types
<1>4. hdr' = <<>> /\ boot' = "up" /\ home' = home
  BY <1>1, <1>2, ZenonT(60) DEF log_write, Modify
<1>5. CASE log_write(p)
  <2>1. /\ lh' = IF blk[p] \in Logged THEN lh ELSE Append(lh, blk[p])
        /\ dirty' = dirty \cup {blk[p]} /\ blk' = [blk EXCEPT ![p] = NoBlock] /\ buf' = buf
    BY <1>5 DEF log_write, Pin
  <2>2. blk[p] \in Blocks
    BY <1>0, <1>5 DEF log_write, Locked, Types
  <2>3. Logged' = Logged \cup {blk[p]}
    <3>1. CASE blk[p] \in Logged
      BY <2>1, <3>1 DEF Logged
    <3>2. CASE blk[p] \notin Logged
      BY <1>0, <2>1, <2>2, <3>2, LoggedAppend DEF Types
    <3> QED
      BY <3>1, <3>2
  <2>4. Distinct(lh)'
    <3>1. CASE blk[p] \in Logged
      BY <2>1, <3>1 DEF DInv, Header, Distinct
    <3>2. CASE blk[p] \notin Logged
      <4>1. /\ Len(lh') = Len(lh) + 1 /\ Len(lh) \in Nat
            /\ \A i \in 1..Len(lh) : lh'[i] = lh[i] /\ lh[i] # blk[p]
            /\ lh'[Len(lh) + 1] = blk[p]
        BY <1>0, <2>1, <2>2, <3>2 DEF Types, Logged
      <4>2. \A i, j \in 1..Len(lh) : lh[i] = lh[j] => i = j
        BY DEF DInv, Header, Distinct
      <4>3. \A i \in 1..Len(lh') : i \in 1..Len(lh) \/ i = Len(lh) + 1
        BY <4>1
      <4>4. \A i, j \in 1..Len(lh') : lh'[i] = lh'[j] => i = j
        BY <4>1, <4>2, <4>3
      <4> QED
        BY <4>4 DEF Distinct
    <3> QED
      BY <3>1, <3>2
  <2>5. Pinned'
    <3> SUFFICES ASSUME NEW b \in Blocks, View(b)' # home'[b]
                 PROVE  /\ boot' = "up"
                        /\ b \in Logged' \cap dirty' \/ \E q \in Procs : blk'[q] = b
      BY DEF Pinned
    <3>1. View(b) # home[b]
      BY <1>4, <2>1 DEF View
    <3>2. b \in Logged \cap dirty \/ \E q \in Procs : blk[q] = b
      BY <3>1 DEF DInv, Pinned
    <3> QED
      BY <1>0, <1>4, <2>1, <2>3, <3>2 DEF Types
  <2> QED
    BY <1>3, <1>4, <2>4, <2>5, NoCommit
<1>6. ASSUME NEW b \in Blocks, NEW v \in Val, Modify(p, b, v) PROVE DInv'
  <2>1. /\ blk' = [blk EXCEPT ![p] = b] /\ buf' = [buf EXCEPT ![b] = v]
        /\ UNCHANGED <<lh, dirty>> /\ pc[p] = "op"
    BY <1>6 DEF Modify
  <2>2. Distinct(lh)'
    BY <2>1 DEF DInv, Header, Distinct
  <2>3. Pinned'
    <3> SUFFICES ASSUME NEW c \in Blocks, View(c)' # home'[c]
                 PROVE  /\ boot' = "up"
                        /\ c \in Logged' \cap dirty' \/ \E q \in Procs : blk'[q] = c
      BY DEF Pinned
    <3>1. CASE c = b
      BY <1>0, <1>4, <2>1, <3>1 DEF Types
    <3>2. CASE c # b
      <4>1. View(c) # home[c]
        BY <1>0, <1>4, <2>1, <3>2 DEF View, Types
      <4>2. c \in Logged \cap dirty \/ \E q \in Procs : blk[q] = c
        BY <4>1 DEF DInv, Pinned
      <4>3. blk[p] = NoBlock
        BY <1>0, <2>1 DEF Locked
      <4> QED
        BY <1>0, <1>4, <2>1, <4>2, <4>3, Consts DEF Types, Logged
    <3> QED
      BY <3>1, <3>2
  <2> QED
    BY <1>3, <1>4, <2>2, <2>3, NoCommit
<1> QED
  BY <1>5, <1>6

(* The buffer cache drops no buffer that differs from its home block. *)
LEMMA CacheView ==
  ASSUME Types, Pinned, NEW b \in Blocks, Fill(b) \/ Recycle(b)
  PROVE  \A c \in Blocks : View(c)' = View(c)
<1>1. CASE Fill(b)
  BY <1>1, Consts DEF Fill, View, Types
<1>2. CASE Recycle(b)
  <2>1. View(b) = home[b]
    BY <1>2 DEF Recycle, Pinned
  <2> QED
    BY <1>2, <2>1 DEF Recycle, View, Types
<1> QED
  BY <1>1, <1>2

(* So reads of the cache and recycled buffers change nothing. *)
LEMMA CacheDInv ==
  ASSUME CInv, DInv, NEW b \in Blocks, Fill(b) \/ Recycle(b)
  PROVE  DInv'
<1>1. \A c \in Blocks : View(c)' = View(c)
  BY CacheView DEF CInv, DInv
<1>2. UNCHANGED <<home, logd, hdr, lh, boot, tail, dirty, blk, pc>>
  BY DEF Fill, Recycle
<1>3. Pinned'
  BY <1>1, <1>2 DEF DInv, Pinned, Logged
<1> QED
  BY <1>1, <1>2, <1>3, Quiet DEF CInv, Types

-----------------------------------------------------------------------------
(* Where install_trans is, and what it copies. *)
LEMMA Installed ==
  ASSUME CInv, DInv, Install, boot = "install_trans" \/ Installing
  PROVE  /\ hdr = lh /\ tail \in 1..Len(lh) /\ lh[tail] \in Blocks /\ tail \in Slots
         /\ home' = [home EXCEPT ![lh[tail]] = logd[tail]]
         /\ \A i \in 1..Len(lh) : lh[i] \in Blocks /\ (lh[i] = lh[tail] => i = tail)
         /\ \A b \in Blocks : b # lh[tail] => home'[b] = home[b] /\ View(b)' = View(b)
         /\ \A b \in Blocks : b = lh[tail] => home'[b] = logd[tail] /\ View(b)' = logd[tail]
<1>0. Types /\ Len(lh) \in Nat /\ Len(lh) <= LOGSIZE
  BY LhFits DEF CInv
<1>1. hdr = lh /\ Distinct(lh)
  BY DEF DInv, Header
<1>2. /\ tail \in 1..Len(lh) /\ lh[tail] \in Blocks /\ tail \in Slots
      /\ \A i \in 1..Len(lh) : lh[i] \in Blocks
  BY <1>0, Consts DEF Install, Types, Slots
<1>3. \A i \in 1..Len(lh) : lh[i] = lh[tail] => i = tail
  BY <1>1, <1>2 DEF Distinct
<1>4. /\ home' = [home EXCEPT ![lh[tail]] = logd[tail]]
      /\ buf' = [buf EXCEPT ![lh[tail]] = logd[tail]]
  BY DEF Install
<1>5. logd[tail] \in Val
  BY <1>0, <1>2 DEF Types
<1>6. \A b \in Blocks : b # lh[tail] => home'[b] = home[b] /\ View(b)' = View(b)
  BY <1>0, <1>4 DEF View, Types
<1>7. \A b \in Blocks : b = lh[tail] => home'[b] = logd[tail] /\ View(b)' = logd[tail]
  BY <1>0, <1>2, <1>4, <1>5, Consts DEF View, Types
<1> QED
  BY <1>1, <1>2, <1>3, <1>4, <1>6, <1>7

(* An iteration of install_trans, in recovery or in a commit. *)
LEMMA InstallDInv ==
  ASSUME CInv, DInv, Install, UNCHANGED pc,
         boot = "install_trans" \/ \E p \in Procs : pc[p] = "install_trans"
  PROVE  DInv'
<1>0. Types /\ Len(lh) \in Nat
  BY LhFits DEF CInv
<1>1. /\ UNCHANGED <<logd, hdr, lh, boot, blk, pc>> /\ tail' = tail + 1
      /\ dirty' = dirty \ {lh[tail]}
  BY DEF Install
<1>i. boot = "install_trans" \/ Installing
  BY DEF Installing
<1>2. /\ tail \in 1..Len(lh)
      /\ \A i \in 1..Len(lh) : lh[i] \in Blocks /\ (lh[i] = lh[tail] => i = tail)
      /\ \A b \in Blocks : b # lh[tail] => home'[b] = home[b] /\ View(b)' = View(b)
      /\ \A b \in Blocks : b = lh[tail] => home'[b] = logd[tail] /\ View(b)' = logd[tail]
  BY <1>i, Installed
<1>3. Header'
  <2>1. Installing' <=> Installing
    BY <1>1 DEF Installing
  <2> QED
    BY <1>1, <2>1 DEF DInv, Header, Distinct
<1>4. Pinned'
  <2> SUFFICES ASSUME NEW b \in Blocks, View(b)' # home'[b]
               PROVE  /\ boot' = "up"
                      /\ b \in Logged' \cap dirty' \/ \E q \in Procs : blk'[q] = b
    BY DEF Pinned
  <2>1. b # lh[tail] /\ View(b) # home[b]
    BY <1>2
  <2>2. boot = "up" /\ (b \in Logged \cap dirty \/ \E q \in Procs : blk[q] = b)
    BY <2>1 DEF DInv, Pinned
  <2> QED
    BY <1>1, <2>1, <2>2 DEF Logged
<1>5. LogCopied'
  <2> SUFFICES ASSUME NEW p \in Procs, NEW i \in 1..Len(lh), NEW b \in Blocks, b = lh[i],
                      \/ pc[p] = "write_log" /\ i < tail'
                      \/ pc[p] \in {"write_head", "install_trans", "erase"}
               PROVE  logd[i] = View(b)'
    BY <1>1, <1>2 DEF LogCopied
  <2>1. pc[p] = "install_trans"
    <3>1. boot # "up" => pc[p] = "out"
      BY BootAlone
    <3>2. PICK q \in Procs : boot = "up" => pc[q] = "install_trans"
      BY <3>1
    <3>3. boot = "up" => p = q
      BY <3>2, CommitAlone
    <3> QED
      BY <3>1, <3>2, <3>3
  <2>2. logd[i] = View(lh[i])
    BY <2>1 DEF DInv, LogCopied
  <2>3. CASE b = lh[tail]
    BY <1>2, <2>3, ZenonT(60)
  <2>4. CASE b # lh[tail]
    BY <1>2, <2>2, <2>4
  <2> QED
    BY <2>3, <2>4
<1>6. HomeCopied'
  <2>1. ASSUME NEW i \in 1..Len(lh), i < tail + 1, i < tail => home[lh[i]] = logd[i]
        PROVE  home'[lh[i]] = logd[i]
    <3>1. CASE i = tail
      BY <1>2, <3>1
    <3>2. CASE i # tail
      <4>1. i < tail
        BY <1>2, <2>1, <3>2
      <4> QED
        BY <1>2, <2>1, <3>2, <4>1
    <3> QED
      BY <3>1, <3>2
  <2>2. \A p \in Procs : pc[p] # "erase"
    <3>1. boot # "up" => \A p \in Procs : pc[p] = "out"
      BY BootAlone
    <3>2. boot = "up" => \E q \in Procs : pc[q] = "install_trans"
      OBVIOUS
    <3> QED
      BY <3>1, <3>2, CommitAlone
  <2>3. \A i \in 1..Len(lh) : boot = "install_trans" /\ i < tail + 1 => home'[lh[i]] = logd[i]
    BY <2>1 DEF DInv, HomeCopied
  <2>4. \A p \in Procs, i \in 1..Len(lh) :
          pc[p] = "install_trans" /\ i < tail + 1 => home'[lh[i]] = logd[i]
    BY <2>1 DEF DInv, HomeCopied
  <2> QED
    BY <1>1, <2>2, <2>3, <2>4 DEF HomeCopied
<1> QED
  BY <1>3, <1>4, <1>5, <1>6 DEF DInv

(* Once all is copied, every read returns the home block. *)
LEMMA AllHome ==
  ASSUME CInv, DInv, \/ boot # "up"
                     \/ \E p \in Procs : pc[p] = "erase"
  PROVE  \A b \in Blocks : View(b) = home[b]
<1> SUFFICES ASSUME NEW b \in Blocks, boot = "up" PROVE View(b) = home[b]
  BY DEF DInv, Pinned
<1>1. PICK p \in Procs : pc[p] = "erase"
  OBVIOUS
<1>2. \A q \in Procs : blk[q] # b
  BY <1>1, CommitAlone
<1>3. CASE b \notin Logged
  BY <1>2, <1>3 DEF DInv, Pinned
<1>4. CASE b \in Logged
  <2>1. PICK i \in 1..Len(lh) : b = lh[i]
    BY <1>4 DEF Logged
  <2> QED
    BY <1>1, <2>1 DEF DInv, LogCopied, HomeCopied
<1> QED
  BY <1>3, <1>4

(* The steps of commit before the header is written. *)
LEMMA PrepareDInv ==
  ASSUME CInv, DInv, NEW p \in Procs, commit(p) \/ write_log(p)
  PROVE  DInv'
<1>0. Types /\ Len(lh) \in Nat /\ Len(lh) <= LOGSIZE
  BY LhFits DEF CInv
<1>1. /\ boot = "up"
      /\ \A q \in Procs : q # p => pc[q] \notin CommitPCs
  BY CommitAlone DEF commit, write_log
<1>2. ~Installing /\ hdr = <<>> /\ pc[p] \in {"commit", "write_log"}
  <2>1. pc[p] \in {"commit", "write_log"}
    BY DEF commit, write_log
  <2>2. ~Installing
    BY <1>1, <2>1 DEF Installing
  <2> QED
    BY <1>1, <2>1, <2>2 DEF DInv, Header
<1>3. UNCHANGED <<home, hdr, lh, boot, buf, dirty, blk>>
  BY DEF commit, write_log
<1>4. /\ \A q \in Procs : q # p => pc'[q] = pc[q]
      /\ pc'[p] \in {"write_log", "committed", "write_head"}
  BY <1>0 DEF commit, write_log, Goto, Types
<1>5. ~Installing'
  BY <1>1, <1>4 DEF Installing
<1>6. Header'
  BY <1>2, <1>3, <1>5, <1>1 DEF DInv, Header, Distinct
<1>7. Pinned'
  BY <1>3 DEF DInv, Pinned, View, Logged
<1>8. LogCopied'
  <2> SUFFICES ASSUME NEW i \in 1..Len(lh), NEW b \in Blocks, b = lh[i],
                      (pc'[p] = "write_log" /\ i < tail') \/ pc'[p] = "write_head"
               PROVE  logd'[i] = View(b)
    <3>1. \A q \in Procs : q # p => pc'[q] \notin Stages
      BY <1>1, <1>4 DEF Stages
    <3>2. pc'[p] \notin {"install_trans", "erase"}
      BY <1>4
    <3>3. \A i \in 1..Len(lh) : lh[i] \in Blocks
      BY <1>0 DEF Types
    <3> QED
      BY <1>3, <3>1, <3>2, <3>3 DEF LogCopied, Stages, View
  <2>1. CASE commit(p)
    <3>1. tail' = 1 /\ pc'[p] # "write_head"
      BY <1>0, <2>1 DEF commit, Goto, Types
    <3> QED
      BY <3>1
  <2>2. CASE write_log(p) /\ MoreToLog
    <3>1. /\ tail \in 1..Len(lh) /\ tail \in Slots /\ tail' = tail + 1 /\ pc' = pc
          /\ logd' = [logd EXCEPT ![tail] = View(lh[tail])] /\ pc[p] = "write_log"
      BY <1>0, <2>2, Consts DEF write_log, MoreToLog, Types, Slots
    <3>2. CASE i = tail
      BY <1>0, <3>1, <3>2 DEF Types
    <3>3. CASE i # tail
      <4>1. i < tail /\ logd'[i] = logd[i]
        BY <1>0, <3>1, <3>3 DEF Types
      <4> QED
        BY <3>1, <4>1 DEF DInv, LogCopied
    <3> QED
      BY <3>2, <3>3
  <2>3. CASE write_log(p) /\ ~MoreToLog
    <3>1. logd' = logd /\ pc[p] = "write_log" /\ i < tail
      BY <1>0, <2>3 DEF write_log, MoreToLog, Types
    <3> QED
      BY <3>1 DEF DInv, LogCopied
  <2> QED
    BY <2>1, <2>2, <2>3
<1>9. HomeCopied'
  <2>1. \A q \in Procs : pc'[q] \notin {"install_trans", "erase"}
    BY <1>1, <1>4
  <2> QED
    BY <1>1, <1>3, <2>1 DEF HomeCopied
<1> QED
  BY <1>6, <1>7, <1>8, <1>9 DEF DInv

(* The header write, and the end of install_trans. *)
LEMMA HeadDInv ==
  ASSUME CInv, DInv, NEW p \in Procs,
         write_head(p) \/ (pc[p] = "install_trans" /\ install_trans(p) /\ tail > Len(lh))
  PROVE  DInv'
<1>0. Types /\ Len(lh) \in Nat
  BY LhFits DEF CInv
<1>1. /\ boot = "up"
      /\ \A q \in Procs : q # p => pc[q] \notin CommitPCs
      /\ pc[p] \in {"write_head", "install_trans"}
  BY CommitAlone DEF write_head
<1>2. UNCHANGED <<home, logd, lh, boot, buf, dirty, blk>>
  <2>1. ~(tail <= Len(lh)) \/ write_head(p)
    BY <1>0 DEF Types
  <2> QED
    BY <2>1 DEF write_head, install_trans, Install
<1>3. /\ \A q \in Procs : q # p => pc'[q] = pc[q]
      /\ \/ pc'[p] = "install_trans" /\ tail' = 1
         \/ pc'[p] = "erase" /\ pc[p] = "install_trans" /\ tail > Len(lh)
  <2>1. ~(tail <= Len(lh)) \/ write_head(p)
    BY <1>0 DEF Types
  <2> QED
    BY <1>0, <2>1 DEF write_head, install_trans, Install, Goto, Types
<1>4. hdr' = lh /\ Installing'
  <2>1. CASE write_head(p)
    BY <1>3, <2>1, ZenonT(60) DEF write_head, Installing
  <2>2. CASE pc[p] = "install_trans" /\ install_trans(p) /\ tail > Len(lh)
    <3>1. hdr' = hdr
      BY <1>0, <2>2 DEF install_trans, Install, Types
    <3>2. Installing
      BY <2>2 DEF Installing
    <3> QED
      BY <1>3, <3>1, <3>2 DEF DInv, Header, Installing
  <2> QED
    BY <2>1, <2>2
<1>5. Header'
  BY <1>1, <1>2, <1>4 DEF DInv, Header, Distinct
<1>6. Pinned'
  BY <1>2 DEF DInv, Pinned, View, Logged
<1>7. \A q \in Procs : q # p => pc'[q] \notin Stages
  BY <1>1, <1>3 DEF Stages
<1>8. LogCopied'
  <2>1. \A i \in 1..Len(lh) : logd[i] = View(lh[i])
    BY <1>1 DEF DInv, LogCopied
  <2>2. \A i \in 1..Len(lh) : View(lh[i])' = View(lh[i])
    BY <1>2 DEF View
  <2> QED
    BY <1>2, <2>1, <2>2 DEF LogCopied
<1>9. HomeCopied'
  <2>1. ASSUME NEW i \in 1..Len(lh), (pc'[p] = "install_trans" /\ i < tail') \/ pc'[p] = "erase"
        PROVE  home[lh[i]] = logd[i]
    <3>1. pc[p] = "install_trans" /\ i < tail
      BY <1>0, <1>3, <2>1 DEF Types
    <3> QED
      BY <3>1 DEF DInv, HomeCopied
  <2> QED
    BY <1>1, <1>2, <1>7, <2>1 DEF HomeCopied, Stages
<1> QED
  BY <1>5, <1>6, <1>8, <1>9 DEF DInv

(* The header is erased when every block is home. *)
LEMMA EraseDInv ==
  ASSUME CInv, DInv, RecoverErase \/ \E p \in Procs : erase(p)
  PROVE  DInv'
<1>0. Types
  BY DEF CInv
<1>1. \A b \in Blocks : View(b) = home[b]
  BY AllHome DEF RecoverErase, erase
<1>2. hdr' = <<>> /\ lh' = <<>> /\ UNCHANGED <<home, buf>>
  BY DEF RecoverErase, erase
<1>3. boot' = "up" /\ \A q \in Procs : pc'[q] \notin Stages
  <2>1. CASE RecoverErase
    BY <2>1, BootAlone DEF RecoverErase, Stages
  <2>2. ASSUME NEW p \in Procs, erase(p) PROVE boot' = "up" /\ \A q \in Procs : pc'[q] \notin Stages
    <3>1. boot = "up" /\ \A q \in Procs : q # p => pc[q] \notin CommitPCs
      BY <2>2, CommitAlone, ZenonT(60) DEF erase
    <3> QED
      BY <1>0, <2>2, <3>1 DEF erase, Goto, Stages, Types
  <2> QED
    BY <2>1, <2>2
<1>4. Pinned'
  BY <1>1, <1>2 DEF Pinned, View
<1>5. Distinct(lh)'
  BY <1>2 DEF Distinct
<1> QED
  BY <1>2, <1>3, <1>4, <1>5, NoCommit

(* The start of recovery, after a crash or at the first boot. *)
LEMMA StartDInv ==
  ASSUME CInv, DInv, read_head \/ Crash
  PROVE  DInv'
<1>1. \A q \in Procs : pc'[q] = "out"
  BY BootAlone DEF read_head, Crash
<1>2. boot' # "up" /\ tail' = 1 /\ hdr' = hdr /\ home' = home
  BY DEF read_head, Crash
<1>3. \A b \in Blocks : View(b)' = home'[b]
  <2>1. CASE read_head
    <3>1. buf' = buf /\ home' = home /\ boot # "up"
      BY <2>1 DEF read_head
    <3>2. \A b \in Blocks : View(b) = home[b]
      BY <3>1, AllHome
    <3> QED
      BY <3>1, <3>2 DEF View
  <2>2. CASE Crash
    BY <2>2 DEF Crash, View
  <2> QED
    BY <2>1, <2>2
<1>4. Header'
  <2>1. ~Installing'
    BY <1>1 DEF Installing
  <2>2. Distinct(hdr) /\ (lh' = hdr \/ (lh' = <<>> /\ boot' = "read_head"))
    BY DEF DInv, Header, read_head, Crash
  <2> QED
    BY <1>2, <2>1, <2>2 DEF Header, Distinct
<1>5. Pinned'
  BY <1>3 DEF Pinned
<1>6. LogCopied' /\ HomeCopied'
  BY <1>1, <1>2 DEF LogCopied, HomeCopied
<1> QED
  BY <1>4, <1>5, <1>6 DEF DInv

(* DInv is inductive, given the control invariant. *)
LEMMA DInvStep == CInv /\ CInv' /\ DInv /\ [Next]_vars => DInv'
<1> SUFFICES ASSUME CInv, CInv', DInv, [Next]_vars PROVE DInv'
  OBVIOUS
<1>1. CASE read_head \/ Crash
  BY <1>1, StartDInv
<1>2. CASE RecoverErase \/ \E p \in Procs : erase(p)
  BY <1>2, EraseDInv
<1>3. CASE RecoverInstall
  BY <1>3, InstallDInv DEF RecoverInstall
<1>4. ASSUME NEW p \in Procs, Call(p) \/ begin_op(p) \/ end_op(p) \/ committed(p) PROVE DInv'
  BY <1>4, CallDInv
<1>5. ASSUME NEW p \in Procs, log_write(p) \/ \E b \in Blocks, v \in Val : Modify(p, b, v)
      PROVE  DInv'
  BY <1>5, WriteDInv DEF CInv
<1>6. ASSUME NEW p \in Procs, commit(p) \/ write_log(p) PROVE DInv'
  BY <1>6, PrepareDInv
<1>7. ASSUME NEW p \in Procs, write_head(p) PROVE DInv'
  BY <1>7, HeadDInv
<1>8. ASSUME NEW p \in Procs, install_trans(p) PROVE DInv'
  <2>1. pc[p] = "install_trans" /\ ((Install /\ UNCHANGED pc) \/ tail > Len(lh))
    BY <1>8 DEF install_trans
  <2> QED
    BY <1>8, <2>1, InstallDInv, HeadDInv
<1>9. ASSUME NEW b \in Blocks, Fill(b) \/ Recycle(b) PROVE DInv'
  BY <1>9, CacheDInv
<1>10. CASE UNCHANGED vars
  <2>1. \A b \in Blocks : View(b)' = View(b)
    BY <1>10, ZenonT(60) DEF View
  <2>2. Pinned'
    BY <1>10, <2>1, ZenonT(60) DEF DInv, Pinned, Logged
  <2> QED
    BY <1>10, <2>1, <2>2, Quiet DEF CInv, Types
<1> QED
  BY <1>1, <1>2, <1>3, <1>4, <1>5, <1>6, <1>7, <1>8, <1>9, <1>10 DEF Next, Recovery, Commit

-----------------------------------------------------------------------------
(* What recovery would restore. *)

(* With an empty header, the home blocks as they are. *)
LEMMA RecoveredEmpty ==
  ASSUME Types, hdr = <<>>
  PROVE  Recovered = home
BY DEF Recovered, Types

(* With distinct blocks in the header, their copies in the log. *)
LEMMA RecoveredNamed ==
  ASSUME Distinct(hdr)
  PROVE  /\ \A i \in 1..Len(hdr), b \in Blocks : b = hdr[i] => Recovered[b] = logd[i]
         /\ \A b \in Blocks : (\A i \in 1..Len(hdr) : hdr[i] # b) => Recovered[b] = home[b]
<1>1. ASSUME NEW i \in 1..Len(hdr), NEW b \in Blocks, b = hdr[i]
      PROVE  Recovered[b] = logd[i]
  <2> DEFINE k == CHOOSE j \in 1..Len(hdr) : hdr[j] = b
  <2>1. k \in 1..Len(hdr) /\ hdr[k] = b
    BY <1>1
  <2>2. k = i
    BY <1>1, <2>1 DEF Distinct
  <2> QED
    BY <1>1, <2>2 DEF Recovered
<1>2. \A b \in Blocks : (\A i \in 1..Len(hdr) : hdr[i] # b) => Recovered[b] = home[b]
  BY DEF Recovered
<1> QED
  BY <1>1, <1>2

(* Where the uncommitted writes are. *)
LEMMA ImpliesUncommittedPinned == CInv /\ DInv => UncommittedPinned
<1> SUFFICES ASSUME CInv, DInv, NEW b \in Blocks, boot = "up", View(b) # Recovered[b]
             PROVE  b \in Logged \cap dirty \/ \E p \in Procs : blk[p] = b
  BY DEF UncommittedPinned
<1>1. CASE ~Installing
  <2>1. Recovered = home
    BY <1>1, RecoveredEmpty DEF DInv, Header, CInv
  <2> QED
    BY <2>1 DEF DInv, Pinned
<1>2. CASE Installing
  <2>1. hdr = lh /\ Distinct(hdr)
    BY <1>2 DEF DInv, Header
  <2>2. CASE \E i \in 1..Len(hdr) : hdr[i] = b
    <3>1. PICK i \in 1..Len(hdr) : hdr[i] = b
      BY <2>2
    <3>2. Recovered[b] = logd[i]
      BY <2>1, <3>1, RecoveredNamed
    <3>3. logd[i] = View(lh[i])
      BY <1>2, <2>1, <3>1 DEF DInv, LogCopied, Installing
    <3> QED
      BY <2>1, <3>1, <3>2, <3>3
  <2>3. CASE ~ \E i \in 1..Len(hdr) : hdr[i] = b
    <3>1. Recovered[b] = home[b]
      BY <2>1, <2>3, RecoveredNamed
    <3> QED
      BY <3>1 DEF DInv, Pinned
  <2> QED
    BY <2>2, <2>3
<1> QED
  BY <1>1, <1>2

-----------------------------------------------------------------------------
(* The refinement.  Current and InCall are what Abs substitutes. *)
Current == IF boot = "up" THEN [b \in Blocks |-> View(b)] ELSE Recovered
InCall == {p \in Procs : pc[p] \in OpPCs \cup {"panic"}}

(* A step that leaves the disk alone leaves what recovery restores alone. *)
LEMMA SameRecovered ==
  ASSUME UNCHANGED <<home, logd, hdr>>
  PROVE  Recovered' = Recovered
BY DEF Recovered

(* Before the header is written, write_log is invisible. *)
LEMMA WriteLogRecovered ==
  ASSUME CInv, CInv', DInv, NEW p \in Procs, write_log(p)
  PROVE  Recovered' = Recovered
<1>1. boot = "up" /\ ~Installing
  <2>1. pc[p] = "write_log"
    BY DEF write_log
  <2> QED
    BY <2>1, CommitAlone DEF Installing
<1>2. hdr = <<>>
  BY <1>1 DEF DInv, Header
<1>3. hdr' = hdr /\ home' = home
  BY DEF write_log
<1>4. Recovered = home
  BY <1>2, RecoveredEmpty DEF CInv
<1>5. Recovered' = home'
  BY <1>2, <1>3 DEF Recovered, CInv, Types
<1> QED
  BY <1>3, <1>4, <1>5

(* Copying a log block to its home changes nothing recovery would not. *)
LEMMA InstallRecovered ==
  ASSUME CInv, DInv, Install, boot = "install_trans" \/ Installing
  PROVE  Recovered' = Recovered
<1>1. /\ hdr = lh /\ tail \in 1..Len(lh)
      /\ \A b \in Blocks : b # lh[tail] => home'[b] = home[b]
  BY Installed
<1>2. hdr' = hdr /\ logd' = logd
  BY DEF Install
<1>3. ASSUME NEW b \in Blocks, ~ \E i \in 1..Len(hdr) : hdr[i] = b
      PROVE  home'[b] = home[b]
  BY <1>1, <1>3
<1> QED
  BY <1>2, <1>3 DEF Recovered

(* When every block is home, the header is no longer needed. *)
LEMMA EraseRecovered ==
  ASSUME CInv, CInv', DInv, RecoverErase \/ \E p \in Procs : erase(p)
  PROVE  Recovered = home /\ Recovered' = home
<1>0. Types
  BY DEF CInv
<1>1. hdr' = <<>> /\ home' = home
  BY DEF RecoverErase, erase
<1>2. Recovered' = home
  BY <1>0, <1>1 DEF Recovered, Types
<1>3. hdr = lh /\ Distinct(hdr)
  BY DEF RecoverErase, erase, DInv, Header, Installing
<1>4. \A i \in 1..Len(lh) : home[lh[i]] = logd[i]
  <2>1. CASE RecoverErase
    <3>1. boot = "install_trans" /\ \A i \in 1..Len(lh) : i < tail
      BY <1>0, <2>1 DEF RecoverErase, Types
    <3> QED
      BY <3>1 DEF DInv, HomeCopied
  <2>2. CASE \E p \in Procs : erase(p)
    BY <2>2, ZenonT(60) DEF erase, DInv, HomeCopied
  <2> QED
    BY <2>1, <2>2
<1>5. ASSUME NEW b \in Blocks PROVE Recovered[b] = home[b]
  <2>1. CASE \E i \in 1..Len(hdr) : hdr[i] = b
    <3>1. PICK i \in 1..Len(hdr) : hdr[i] = b
      BY <2>1, ZenonT(60)
    <3>2. Recovered[b] = logd[i]
      BY <1>3, <3>1, RecoveredNamed, ZenonT(60)
    <3>3. home[b] = logd[i]
      BY <1>3, <1>4, <3>1, ZenonT(60)
    <3> QED
      BY <3>2, <3>3, ZenonT(60)
  <2>2. CASE ~ \E i \in 1..Len(hdr) : hdr[i] = b
    BY <1>3, <2>2, RecoveredNamed
  <2> QED
    BY <2>1, <2>2
<1>6. Recovered = [b \in Blocks |-> Recovered[b]] /\ home = [b \in Blocks |-> home[b]]
  BY <1>0 DEF Recovered, Types
<1> QED
  BY <1>2, <1>5, <1>6

(* The header write makes durable what reads return. *)
LEMMA HeadRecovered ==
  ASSUME CInv, DInv, NEW p \in Procs, write_head(p)
  PROVE  Recovered' = [b \in Blocks |-> View(b)]
<1>0. Types
  BY DEF CInv
<1>1. hdr' = lh /\ UNCHANGED <<home, logd>> /\ pc[p] = "write_head"
  BY DEF write_head
<1>2. \A q \in Procs, b \in Blocks : blk[q] # b
  BY <1>1, CommitAlone
<1>4. ASSUME NEW b \in Blocks PROVE Recovered'[b] = View(b)
  <2>1. CASE b \in Logged
    <3> DEFINE k == CHOOSE j \in 1..Len(lh) : lh[j] = b
    <3>1. k \in 1..Len(lh) /\ lh[k] = b
      BY <2>1 DEF Logged
    <3>2. logd[k] = View(lh[k])
      BY <1>1, <3>1 DEF DInv, LogCopied
    <3>3. Recovered'[b] = logd[k]
      BY <1>1, <3>1 DEF Recovered
    <3> HIDE DEF k
    <3> QED
      BY <3>1, <3>2, <3>3
  <2>2. CASE b \notin Logged
    <3>1. View(b) = home[b]
      BY <1>2, <2>2 DEF DInv, Pinned
    <3>2. \A i \in 1..Len(lh) : lh[i] # b
      BY <2>2 DEF Logged
    <3>3. Recovered'[b] = home[b]
      BY <1>1, <3>2 DEF Recovered
    <3> QED
      BY <3>1, <3>3
  <2> QED
    BY <2>1, <2>2
<1>5. Recovered' = [b \in Blocks |-> Recovered'[b]]
  BY DEF Recovered
<1> QED
  BY <1>4, <1>5

(* A step that shows nothing of itself. *)
LEMMA Stutter ==
  ASSUME Recovered' = Recovered, InCall' = InCall,
         \/ boot = "up" /\ boot' = "up" /\ \A b \in Blocks : View(b)' = View(b)
         \/ boot # "up" /\ boot' # "up"
  PROVE  UNCHANGED <<Recovered, Current, InCall>>
BY DEF Current

(* The steps of AtomicDisk, seen through the refinement mapping. *)
AbsBegin(p) == p \notin InCall /\ InCall' = InCall \cup {p} /\ UNCHANGED <<Recovered, Current>>
AbsEnd(p) == p \in InCall /\ InCall' = InCall \ {p} /\ UNCHANGED <<Recovered, Current>>
AbsWrite(p, b, v) ==
  p \in InCall /\ Current' = [Current EXCEPT ![b] = v] /\ UNCHANGED <<Recovered, InCall>>
AbsCommit == InCall = {} /\ Recovered' = Current /\ UNCHANGED <<Current, InCall>>
AbsCrash == InCall' = {} /\ Current' = Recovered /\ Recovered' = Recovered
AbsNext ==
  \/ \E p \in Procs : AbsBegin(p) \/ AbsEnd(p)
  \/ \E p \in Procs, b \in Blocks, v \in Val : AbsWrite(p, b, v)
  \/ AbsCommit
  \/ AbsCrash

(* They are AtomicDisk's own. *)
LEMMA Mapping ==
  AbsNext \/ UNCHANGED <<Recovered, Current, InCall>> => [Abs!Next]_(Abs!vars)
BY ZenonT(60) DEF AbsNext, AbsBegin, AbsEnd, AbsWrite, AbsCommit, AbsCrash, Current, InCall,
   Abs!Next, Abs!vars, Abs!Begin, Abs!End, Abs!Write, Abs!Commit, Abs!Crash

(* Recovery is invisible. *)
LEMMA RecoveryMaps ==
  ASSUME CInv, CInv', DInv, Recovery
  PROVE  UNCHANGED <<Recovered, Current, InCall>>
<1>1. InCall' = InCall
  BY DEF Recovery, read_head, RecoverInstall, RecoverErase, InCall
<1>2. CASE read_head
  BY <1>1, <1>2, SameRecovered, Stutter DEF read_head
<1>3. CASE RecoverInstall
  BY <1>1, <1>3, InstallRecovered, Stutter DEF RecoverInstall, Install
<1>4. CASE RecoverErase
  <2>1. Recovered = home /\ Recovered' = home
    BY <1>4, EraseRecovered
  <2>2. boot # "up" /\ boot' = "up" /\ buf' = buf /\ home' = home
    BY <1>4 DEF RecoverErase
  <2>3. \A b \in Blocks : View(b) = home[b]
    BY <2>2, AllHome
  <2>4. \A b \in Blocks : View(b)' = home[b]
    BY <2>2, <2>3 DEF View
  <2>5. home = [b \in Blocks |-> home[b]]
    BY DEF CInv, Types
  <2>6. Current' = home /\ Current = home
    BY <2>1, <2>2, <2>4, <2>5 DEF Current
  <2> QED
    BY <1>1, <2>1, <2>6
<1> QED
  BY <1>2, <1>3, <1>4 DEF Recovery

(* A commit is visible at its header write only. *)
LEMMA CommitMaps ==
  ASSUME CInv, CInv', DInv, NEW p \in Procs, Commit(p)
  PROVE  AbsNext \/ UNCHANGED <<Recovered, Current, InCall>>
<1>0. Types /\ Control
  BY DEF CInv
<1>1. /\ boot = "up" /\ boot' = "up"
      /\ \A q \in Procs : pc[q] \notin OpPCs
  <2>1. pc[p] \in CommitPCs /\ boot' = boot
    BY ZenonT(60) DEF Commit, commit, write_log, write_head, install_trans, Install, erase, committed
  <2> QED
    BY <2>1, CommitAlone
<1>2. InCall = {} /\ InCall' = {}
  <2>1. \A q \in Procs : pc'[q] \notin OpPCs \cup {"panic"}
    BY <1>0, <1>1, ZenonT(60) DEF Commit, commit, write_log, write_head, install_trans, erase, committed,
       Goto, Wakeup, Control, Types
  <2>2. \A q \in Procs : pc[q] \notin OpPCs \cup {"panic"}
    BY <1>0, <1>1 DEF Control
  <2> QED
    BY <2>1, <2>2, ZenonT(60) DEF InCall
<1>3. ASSUME UNCHANGED <<home, buf>> PROVE \A b \in Blocks : View(b)' = View(b)
  BY <1>3 DEF View
<1>4. CASE commit(p) \/ committed(p)
  BY <1>1, <1>2, <1>3, <1>4, SameRecovered, Stutter DEF commit, committed
<1>5. CASE write_log(p)
  BY <1>1, <1>2, <1>3, <1>5, WriteLogRecovered, Stutter, ZenonT(60) DEF write_log
<1>6. CASE write_head(p)
  <2>1. Recovered' = [b \in Blocks |-> View(b)]
    BY <1>6, HeadRecovered
  <2>2. \A b \in Blocks : View(b)' = View(b)
    BY <1>3, <1>6 DEF write_head
  <2>3. Current = [b \in Blocks |-> View(b)] /\ Current' = Current
    BY <1>1, <2>2 DEF Current
  <2>4. AbsCommit
    BY <1>2, <2>1, <2>3 DEF AbsCommit
  <2> QED
    BY <2>4 DEF AbsNext
<1>7. CASE pc[p] = "install_trans" /\ Install
  <2>1. Installing
    BY <1>7 DEF Installing
  <2>2. Recovered' = Recovered
    BY <1>7, <2>1, InstallRecovered
  <2>3. /\ tail \in 1..Len(lh)
        /\ \A b \in Blocks : b # lh[tail] => View(b)' = View(b)
        /\ \A b \in Blocks : b = lh[tail] => View(b)' = logd[tail]
    BY <1>7, <2>1, Installed
  <2>4. logd[tail] = View(lh[tail])
    BY <1>7, <2>3 DEF DInv, LogCopied
  <2>5. \A b \in Blocks : View(b)' = View(b)
    BY <2>3, <2>4
  <2> QED
    BY <1>1, <1>2, <2>2, <2>5, Stutter
<1>8. CASE install_trans(p) /\ UNCHANGED <<home, logd, hdr, buf>>
  BY <1>1, <1>2, <1>3, <1>8, SameRecovered, Stutter
<1>9. CASE erase(p)
  BY <1>1, <1>2, <1>3, <1>9, EraseRecovered, Stutter DEF erase
<1> QED
  BY <1>4, <1>5, <1>6, <1>7, <1>8, <1>9 DEF Commit, install_trans

(* begin_op, the changes a call makes and end_op are steps of the call. *)
LEMMA CallMaps ==
  ASSUME CInv, CInv', DInv, NEW p \in Procs,
         \/ Call(p) \/ begin_op(p) \/ log_write(p) \/ end_op(p)
         \/ \E b \in Blocks, v \in Val : Modify(p, b, v)
  PROVE  AbsNext \/ UNCHANGED <<Recovered, Current, InCall>>
<1>0. Types /\ Control
  BY DEF CInv
<1>1. boot = "up" /\ boot' = "up"
  <2>1. boot # "up" => pc[p] = "out"
    BY BootAlone
  <2>2. boot' = boot
    BY ZenonT(60) DEF Call, begin_op, log_write, end_op, Modify
  <2>3. boot = "up"
    BY <2>1, ZenonT(60) DEF Call, begin_op, log_write, end_op, Modify
  <2> QED
    BY <2>2, <2>3
<1>2. UNCHANGED <<home, logd, hdr>>
  BY ZenonT(60) DEF Call, begin_op, log_write, end_op, Modify
<1>3. Recovered' = Recovered
  BY <1>2, SameRecovered
<1>4. ASSUME buf' = buf PROVE Current' = Current
  <2>1. \A b \in Blocks : View(b)' = View(b)
    BY <1>2, <1>4 DEF View
  <2> QED
    BY <1>1, <2>1 DEF Current
<1>5. CASE Call(p) \/ log_write(p) \/ (begin_op(p) /\ MustWait)
  <2>1. \A q \in Procs : pc'[q] \in OpPCs \cup {"panic"} <=> pc[q] \in OpPCs \cup {"panic"}
    BY <1>0, <1>5, ZenonT(60) DEF Call, log_write, begin_op, Goto, Types
  <2>2. InCall' = InCall
    BY <2>1, ZenonT(60) DEF InCall
  <2>3. buf' = buf
    BY <1>5 DEF Call, log_write, begin_op
  <2> QED
    BY <1>3, <1>4, <2>2, <2>3
<1>6. CASE begin_op(p) /\ ~MustWait
  <2>1. pc[p] = "begin_op" /\ pc' = [pc EXCEPT ![p] = "op"] /\ buf' = buf
    BY <1>6 DEF begin_op, Goto
  <2>2. p \notin InCall /\ InCall' = InCall \cup {p}
    BY <1>0, <2>1 DEF InCall, Types
  <2>3. AbsBegin(p)
    BY <1>3, <1>4, <2>1, <2>2 DEF AbsBegin
  <2> QED
    BY <2>3 DEF AbsNext
<1>7. CASE end_op(p)
  <2>1. pc[p] = "op" /\ buf' = buf
    BY <1>7 DEF end_op
  <2>2. ~committing
    BY <1>0, <2>1 DEF Control, Active
  <2>3. /\ pc'[p] \notin OpPCs \cup {"panic"}
        /\ \A q \in Procs : q # p =>
             (pc'[q] \in OpPCs \cup {"panic"} <=> pc[q] \in OpPCs \cup {"panic"})
    BY <1>0, <1>7, <2>1, <2>2, ZenonT(60) DEF end_op, Goto, Wakeup, Types
  <2>4. p \in InCall /\ InCall' = InCall \ {p}
    BY <2>1, <2>3, ZenonT(60) DEF InCall
  <2>5. AbsEnd(p)
    BY <1>3, <1>4, <2>1, <2>4 DEF AbsEnd
  <2> QED
    BY <2>5 DEF AbsNext
<1>8. ASSUME NEW b \in Blocks, NEW v \in Val, Modify(p, b, v) PROVE AbsNext
  <2>1. pc[p] = "op" /\ buf' = [buf EXCEPT ![b] = v]
    BY <1>8, ZenonT(60) DEF Modify
  <2>2. PICK l \in {"append", "panic"} : pc' = [pc EXCEPT ![p] = l]
    BY <1>8, ZenonT(60) DEF Modify, Goto
  <2>3. p \in InCall /\ InCall' = InCall
    BY <1>0, <2>1, <2>2 DEF InCall, Types
  <2>4. View(b)' = v /\ \A c \in Blocks : c # b => View(c)' = View(c)
    BY <1>0, <1>2, <2>1, Consts DEF View, Types
  <2>5. Current' = [Current EXCEPT ![b] = v]
    BY <1>1, <2>4, ZenonT(60) DEF Current
  <2>6. AbsWrite(p, b, v)
    BY <1>3, <2>3, <2>5 DEF AbsWrite
  <2> QED
    BY <2>6 DEF AbsNext
<1> QED
  BY <1>5, <1>6, <1>7, <1>8

(* Every step of the log is a step of the atomic disk, or none. *)
LEMMA StepMaps ==
  CInv /\ CInv' /\ DInv /\ [Next]_vars => [Abs!Next]_(Abs!vars)
<1> SUFFICES ASSUME CInv, CInv', DInv, [Next]_vars
             PROVE  AbsNext \/ UNCHANGED <<Recovered, Current, InCall>>
  BY Mapping
<1>1. CASE Recovery
  BY <1>1, RecoveryMaps
<1>2. ASSUME NEW p \in Procs, Commit(p)
      PROVE  AbsNext \/ UNCHANGED <<Recovered, Current, InCall>>
  BY <1>2, CommitMaps
<1>3. ASSUME NEW p \in Procs,
             \/ Call(p) \/ begin_op(p) \/ log_write(p) \/ end_op(p)
             \/ \E b \in Blocks, v \in Val : Modify(p, b, v)
      PROVE  AbsNext \/ UNCHANGED <<Recovered, Current, InCall>>
  BY <1>3, CallMaps
<1>4. ASSUME NEW b \in Blocks, Fill(b) \/ Recycle(b)
      PROVE  UNCHANGED <<Recovered, Current, InCall>>
  <2>1. UNCHANGED <<home, logd, hdr, boot, pc>>
    BY <1>4, ZenonT(60) DEF Fill, Recycle
  <2>2. Recovered' = Recovered /\ InCall' = InCall
    BY <2>1, SameRecovered DEF InCall
  <2>3. \A c \in Blocks : View(c)' = View(c)
    BY <1>4, CacheView DEF CInv, DInv
  <2> QED
    BY <2>1, <2>2, <2>3, Stutter
<1>5. CASE Crash
  <2>1. Recovered' = Recovered
    BY <1>5, SameRecovered DEF Crash
  <2>2. InCall' = {} /\ Current' = Recovered
    BY <1>5, <2>1 DEF Crash, InCall, Current
  <2> QED
    BY <2>1, <2>2 DEF AbsNext, AbsCrash
<1>6. CASE UNCHANGED vars
  <2>1. Recovered' = Recovered /\ InCall' = InCall
    BY <1>6, SameRecovered DEF InCall
  <2>2. \A c \in Blocks : View(c)' = View(c)
    BY <1>6 DEF View
  <2> QED
    BY <1>6, <2>1, <2>2, Stutter
<1> QED
  BY <1>1, <1>2, <1>3, <1>4, <1>5, <1>6 DEF Next

(* The disk of mkfs is an initial state of the atomic disk. *)
LEMMA InitMaps == Init => Abs!Init
<1> SUFFICES ASSUME Init PROVE Abs!Init
  OBVIOUS
<1>1. Recovered = home
  BY InitCInv, RecoveredEmpty DEF Init, CInv
<1>2. home \in [Blocks -> Val] /\ boot # "up" /\ \A p \in Procs : pc[p] = "out"
  BY DEF Init
<1> QED
  BY <1>1, <1>2 DEF Abs!Init

-----------------------------------------------------------------------------
(* Both invariants hold in every behaviour. *)
THEOREM DiskInvariant == Fits /\ Spec => [](CInv /\ DInv)
<1>1. CInv /\ CInv' /\ DInv /\ [Next]_vars => DInv'
  BY DInvStep
<1> QED
  BY <1>1, ControlInvariant, InitDInv, PTL DEF Spec

(* What a call has written and not committed is pinned in the buffer cache, *)
(* in log.lh or locked: bget never recycles the only copy of a block.       *)
THEOREM UncommittedStaysPinned == Fits /\ Spec => []UncommittedPinned
BY DiskInvariant, ImpliesUncommittedPinned, PTL

(* log.c makes calls atomic with respect to crashes: whatever the            *)
(* interleaving of calls, commits, recoveries and crashes, what a reboot     *)
(* restores changes only by whole groups of finished calls.                  *)
THEOREM LogIsAtomic == Fits /\ Spec => RefinesAtomicDisk
<1>1. Init => Abs!Init
  BY InitMaps
<1>2. CInv /\ CInv' /\ DInv /\ [Next]_vars => [Abs!Next]_(Abs!vars)
  BY StepMaps
<1> QED
  BY <1>1, <1>2, DiskInvariant, PTL DEF Spec, RefinesAtomicDisk, Abs!Spec
=============================================================================
