-------------------------- MODULE BufferCacheSteps --------------------------
(***************************************************************************)
(* Proofs about BufferCache: what each step of bio.c, sleeplock.c and      *)
(* ide.c keeps, and the step of BlockStore it is.  The counting of users,  *)
(* pins and buffers, and the theorems, are in BufferCacheProofs.           *)
(***************************************************************************)
EXTENDS BufferCache, TLAPS

Holding == {"held", "iderw", "iosleep", "iotest"}

Types ==
  /\ lru \in [Bufs -> Bufs] /\ \A b \in Bufs : \E k \in Bufs : lru[k] = b
  /\ blockno \in [Bufs -> Blocks \cup {NoBlock}]
  /\ refcnt \in [Bufs -> Nat]
  /\ data \in [Bufs -> Val \cup {Junk}] /\ \A b \in dirty : data[b] \in Val
  /\ dirty \subseteq valid /\ valid \subseteq Bufs
  /\ slock \in [Bufs -> Uses \cup {None}]
  /\ idequeue \in Seq(Bufs)
  /\ disk \in [Blocks -> Val]
  /\ pc \in [Uses -> {"out", "nobufs", "lock", "asleep", "brelse"} \cup Holding]
  /\ my \in [Uses -> Bufs \cup {None}]
  /\ want \in [Uses -> Blocks \cup {NoBlock}]

(* b->lock is held between acquiresleep and releasesleep, and nobody sleeps *)
(* for it when it is free.                                                  *)
Owner ==
  /\ \A u \in Uses : my[u] = None <=> pc[u] \in {"out", "nobufs"}
  /\ \A u \in Uses : pc[u] \in Holding => slock[my[u]] = u
  /\ \A b \in Bufs : slock[b] # None => my[slock[b]] = b /\ pc[slock[b]] \in Holding
  /\ \A u \in Uses : pc[u] = "asleep" => slock[my[u]] # None

(* A block is in one buffer, and stays in it while somebody uses it. *)
Placed ==
  /\ \A u \in Uses : my[u] # None => blockno[my[u]] = want[u] /\ want[u] # NoBlock
  /\ \A b, c \in Bufs : blockno[b] = blockno[c] /\ blockno[b] # NoBlock => b = c
  /\ \A b \in valid : blockno[b] # NoBlock

Users(b) == {u \in Uses : my[u] = b}
Counted == \A b \in Bufs : refcnt[b] = Cardinality(Users(b))

(* The buffers that are B_DIRTY and not on their way to the disk. *)
Busy == {b \in Bufs : \E u \in Uses : my[u] = b /\ pc[u] \in {"iderw", "iosleep", "iotest"}}
Pins == Cardinality(dirty \ Busy) <= MAXPIN

(* The queue holds the buffers that processes wait for, each once. *)
Queued ==
  /\ \A u \in Uses : pc[u] = "held" => my[u] \in valid
  /\ \A u \in Uses : pc[u] \in {"iderw", "iosleep"} => ~Done(my[u])
  /\ \A u \in Uses : pc[u] = "iotest" => Done(my[u])
  /\ \A u \in Uses : pc[u] = "iosleep" => \E k \in 1..Len(idequeue) : idequeue[k] = my[u]
  /\ \A k \in 1..Len(idequeue) : \E u \in Uses : pc[u] = "iosleep" /\ my[u] = idequeue[k]
  /\ \A j, k \in 1..Len(idequeue) : idequeue[j] = idequeue[k] => j = k

Core == Types /\ Owner /\ Placed /\ Queued /\ DiskBusy
IInv == Core /\ Counted /\ Pins

(* A buffer that need not be written is what the disk has. *)
Clean ==
  /\ \A b \in valid : data[b] \in Val
  /\ \A b \in valid \ dirty : data[b] = disk[blockno[b]]

(* A step that leaves the users of the buffers and their counts alone, and *)
(* pins none.                                                              *)
Calm == UNCHANGED <<my, refcnt>> /\ dirty' \ Busy' \subseteq dirty \ Busy

(* bget takes a buffer for u: the one of the block, or one nobody uses. *)
Took(u, bn, b) ==
  /\ pc[u] = "out" /\ pc' = [pc EXCEPT ![u] = "lock"]
  /\ my' = [my EXCEPT ![u] = b]
  /\ want' = [want EXCEPT ![u] = bn]
  /\ UNCHANGED <<lru, data, slock, idequeue, ctl, disk>>
Hit(bn, b) ==
  /\ blockno[b] = bn
  /\ refcnt' = [refcnt EXCEPT ![b] = @ + 1]
  /\ UNCHANGED <<blockno, valid, dirty>>
Recycled(bn, b) ==
  /\ \A c \in Bufs : blockno[c] # bn
  /\ refcnt[b] = 0 /\ b \notin dirty
  /\ blockno' = [blockno EXCEPT ![b] = bn]
  /\ valid' = valid \ {b} /\ dirty' = dirty
  /\ refcnt' = [refcnt EXCEPT ![b] = 1]

-----------------------------------------------------------------------------
USE SMTT(60), ZenonT(60) DEF vars, bufs, flags, ide, local, Goto

(* The constants are as the code has them. *)
LEMMA Consts ==
  /\ NBUF \in Nat /\ MAXPIN \in Nat /\ CALLS \in Nat
  /\ Bufs \subseteq Nat /\ None \notin Uses /\ None \notin Bufs
  /\ NoBlock \notin Blocks /\ Junk \notin Val
BY BufferAssumption DEF Bufs

(* Between bget and brelse there is a buffer, and its lock for the holder. *)
LEMMA InHand ==
  ASSUME Types, Owner, NEW u \in Uses, pc[u] \in {"lock", "asleep", "brelse"} \cup Holding
  PROVE  my[u] \in Bufs /\ (pc[u] \in Holding => slock[my[u]] = u)
<1>1. pc[u] \notin {"out", "nobufs"}
  BY DEF Holding
<1>2. my[u] # None
  BY <1>1 DEF Owner
<1>3. my[u] \in Bufs \cup {None}
  BY ZenonT(60) DEF Types
<1> QED
  BY <1>2, <1>3 DEF Owner

(* What concerns neither the users nor the contents of a buffer. *)
LEMMA SamePlaced ==
  ASSUME Placed, UNCHANGED <<blockno, my, want>>, valid' \subseteq valid
  PROVE  Placed'
BY DEF Placed

(* The queue and the disk's request do not depend on the buffers outside. *)
LEMMA SameRequest ==
  ASSUME Types, DiskBusy, UNCHANGED <<idequeue, ctl>>,
         \A k \in 1..Len(idequeue) : UNCHANGED idestart(idequeue[k])
  PROVE  DiskBusy'
<1>1. CASE idequeue = <<>>
  BY <1>1 DEF DiskBusy
<1>2. CASE idequeue # <<>>
  <2>1. Len(idequeue) > 0 /\ Head(idequeue) = idequeue[1] /\ Len(idequeue) \in Nat
    BY <1>2 DEF Types
  <2>2. 1 \in 1..Len(idequeue)
    BY <2>1
  <2> QED
    BY <1>2, <2>1, <2>2 DEF DiskBusy
<1> QED
  BY <1>1, <1>2

(* bget finds no buffer for u, and panics. *)
LEMMA NoBuffersStep ==
  ASSUME Core, NEW u \in Uses, NEW bn \in Blocks,
         pc[u] = "out", pc' = [pc EXCEPT ![u] = "nobufs"],
         want' = [want EXCEPT ![u] = bn],
         UNCHANGED <<lru, blockno, refcnt, data, valid, dirty, slock, idequeue, ctl, disk, my>>
  PROVE  Core' /\ Calm
<1>0. Types /\ Owner /\ Placed /\ Queued /\ DiskBusy
  BY DEF Core
<1>1. my[u] = None
  BY <1>0 DEF Owner
<1>2. /\ pc'[u] = "nobufs"
      /\ \A q \in Uses \ {u} : pc'[q] = pc[q] /\ want'[q] = want[q]
  BY <1>0 DEF Types
<1>3. Types'
  BY <1>0 DEF Types
<1>4. Owner'
  BY <1>0, <1>1, <1>2 DEF Types, Owner, Holding
<1>5. Placed'
  BY <1>0, <1>1, <1>2 DEF Placed
<1>6. Queued'
  BY <1>0, <1>1, <1>2 DEF Types, Queued, Done
<1>7. DiskBusy'
  BY <1>0 DEF DiskBusy, idestart
<1>8. Busy' = Busy
  BY <1>2 DEF Busy
<1> QED
  BY <1>3, <1>4, <1>5, <1>6, <1>7, <1>8 DEF Core, Calm

(* bget makes u a user of the block's buffer. *)
LEMMA BgetStep ==
  ASSUME Core, NEW u \in Uses, NEW bn \in Blocks, NEW b \in Bufs,
         Took(u, bn, b), Hit(bn, b) \/ Recycled(bn, b),
         Recycled(bn, b) => \A q \in Uses : my[q] # b
  PROVE  Core' /\ dirty' \ Busy' \subseteq dirty \ Busy
<1>0. Types /\ Owner /\ Placed /\ Queued /\ DiskBusy
  BY DEF Core
<1>1. Took(u, bn, b) /\ (Hit(bn, b) \/ Recycled(bn, b))
  OBVIOUS
<1>2. my[u] = None
  BY <1>0, <1>1 DEF Owner, Took
<1>3. Recycled(bn, b) => \A q \in Uses : my[q] # b
  OBVIOUS
<1>4. Types'
  <2>1. /\ pc' \in [Uses -> {"out", "nobufs", "lock", "asleep", "brelse"} \cup Holding]
        /\ my' \in [Uses -> Bufs \cup {None}] /\ want' \in [Uses -> Blocks \cup {NoBlock}]
    BY <1>0, <1>1 DEF Types, Took
  <2>2. /\ refcnt' \in [Bufs -> Nat] /\ blockno' \in [Bufs -> Blocks \cup {NoBlock}]
        /\ dirty' \subseteq valid' /\ valid' \subseteq Bufs
    <3>1. CASE Hit(bn, b)
      BY <1>0, <3>1 DEF Types, Hit
    <3>2. CASE Recycled(bn, b)
      BY <1>0, <3>2 DEF Types, Recycled
    <3> QED
      BY <1>1, <3>1, <3>2
  <2>3. data' = data /\ dirty' = dirty
    BY <1>1 DEF Took, Hit, Recycled
  <2> QED
    BY <1>0, <1>1, <2>1, <2>2, <2>3, ZenonT(60) DEF Types, Took
<1>5. Owner'
  <2>1. \A q \in Uses : (my[q] = None <=> pc[q] \in {"out", "nobufs"})'
    BY <1>0, <1>1, Consts DEF Types, Owner, Took
  <2>2. \A q \in Uses : pc'[q] \in Holding \cup {"asleep"} =>
          q # u /\ pc'[q] = pc[q] /\ my'[q] = my[q]
    BY <1>0, <1>1 DEF Types, Took, Holding
  <2>3. \A c \in Bufs : slock[c] # None => slock[c] \in Uses /\ slock[c] # u
    <3>1. pc[u] \notin Holding
      BY <1>1 DEF Took, Holding
    <3> QED
      BY <1>0, <3>1 DEF Types, Owner
  <2>4. \A c \in Bufs : slock[c] # None => my'[slock[c]] = c /\ pc'[slock[c]] \in Holding
    BY <1>0, <1>1, <2>3 DEF Types, Owner, Took
  <2> QED
    BY <1>0, <1>1, <2>1, <2>2, <2>4 DEF Owner, Took
<1>6. Placed'
  <2>1. CASE Hit(bn, b)
    <3>1. UNCHANGED <<blockno, valid>> /\ blockno[b] = bn /\ bn # NoBlock
      BY <2>1, Consts DEF Hit
    <3>2. \A q \in Uses : IF q = u THEN my'[q] = b /\ want'[q] = bn
                                    ELSE my'[q] = my[q] /\ want'[q] = want[q]
      BY <1>0, <1>1 DEF Types, Took
    <3> QED
      BY <1>0, <3>1, <3>2 DEF Placed
  <2>2. CASE Recycled(bn, b)
    <3>1. ASSUME NEW q \in Uses, my'[q] # None PROVE blockno'[my'[q]] = want'[q] /\ want'[q] # NoBlock
      <4>1. CASE q = u
        BY <1>0, <1>1, <2>2, <4>1, Consts DEF Types, Took, Recycled
      <4>2. CASE q # u
        BY <1>0, <1>1, <1>3, <2>2, <3>1, <4>2 DEF Types, Took, Recycled, Placed
      <4> QED
        BY <4>1, <4>2
    <3>2. \A c, d \in Bufs : blockno'[c] = blockno'[d] /\ blockno'[c] # NoBlock => c = d
      BY <1>0, <2>2, ZenonT(60) DEF Types, Placed, Recycled
    <3>3. \A c \in valid' : blockno'[c] # NoBlock
      BY <1>0, <2>2 DEF Types, Placed, Recycled
    <3> QED
      BY <3>1, <3>2, <3>3 DEF Placed
  <2> QED
    BY <1>1, <2>1, <2>2
<1>8. dirty' \ Busy' \subseteq dirty \ Busy
  <2>1. Busy' = Busy
    BY <1>0, <1>1, <1>2, Consts, ZenonT(60) DEF Types, Took, Busy
  <2>2. dirty' = dirty
    BY <1>1 DEF Hit, Recycled
  <2> QED
    BY <2>1, <2>2
<1>9. Queued'
  <2>1. \A q \in Uses : pc'[q] \in Holding => q # u /\ pc'[q] = pc[q] /\ my'[q] = my[q]
    BY <1>0, <1>1 DEF Types, Took, Holding
  <2>2. \A c \in Bufs : (\E q \in Uses : my[q] = c)
          => (c \in valid' <=> c \in valid) /\ (c \in dirty' <=> c \in dirty)
    BY <1>0, <1>1, <1>3, ZenonT(60) DEF Types, Hit, Recycled
  <2>3. \A q \in Uses : pc[q] \in Holding =>
          q # u /\ pc'[q] = pc[q] /\ my'[q] = my[q] /\ my[q] \in Bufs
    BY <1>0, <1>1 DEF Types, Took, Holding, Owner
  <2>4. idequeue' = idequeue
    BY <1>1 DEF Took
  <2> QED
    BY <1>0, <2>1, <2>2, <2>3, <2>4 DEF Queued, Holding, Done
<1>10. DiskBusy'
  <2>1. ASSUME NEW k \in 1..Len(idequeue) PROVE UNCHANGED idestart(idequeue[k])
    <3>1. PICK q \in Uses : my[q] = idequeue[k] /\ idequeue[k] \in Bufs
      BY <1>0 DEF Types, Queued
    <3>2. UNCHANGED <<idequeue, data, dirty>> /\ blockno'[idequeue[k]] = blockno[idequeue[k]]
      BY <1>0, <1>1, <1>3, <3>1, ZenonT(60) DEF Types, Took, Hit, Recycled
    <3> QED
      BY <3>2 DEF idestart
  <2> QED
    BY <1>0, <1>1, <2>1, SameRequest DEF Took
<1> QED
  BY <1>4, <1>5, <1>6, <1>8, <1>9, <1>10 DEF Core

(* acquiresleep takes the lock, or leaves u asleep while somebody has it. *)
LEMMA AcquiresleepStep ==
  ASSUME Core, NEW u \in Uses, acquiresleep(u)
  PROVE  Core' /\ Calm
<1>0. Types /\ Owner /\ Placed /\ Queued /\ DiskBusy
  BY DEF Core
<1>1. pc[u] = "lock" /\ UNCHANGED <<lru, blockno, refcnt, data, valid, dirty, idequeue, ctl, disk, my, want>>
  BY DEF acquiresleep
<1>2. my[u] \in Bufs
  BY <1>0, <1>1, InHand
<1>3. Placed'
  BY <1>0, <1>1, SamePlaced
<1>4. DiskBusy'
  BY <1>0, <1>1 DEF DiskBusy, idestart
<1>5. CASE slock[my[u]] # None
  <2>1. slock' = slock /\ pc' = [pc EXCEPT ![u] = "asleep"]
    BY <1>5 DEF acquiresleep
  <2>2. Types'
    BY <1>0, <1>1, <2>1 DEF Types
  <2>3. Owner'
    BY <1>0, <1>1, <1>5, <2>1 DEF Types, Owner, Holding
  <2>4. Busy' = Busy
    BY <1>0, <1>1, <2>1 DEF Types, Busy
  <2>5. Calm
    BY <1>1, <2>4 DEF Calm
  <2>6. Queued'
    BY <1>0, <1>1, <2>1, ZenonT(60) DEF Types, Queued, Done
  <2> QED
    BY <1>3, <1>4, <2>2, <2>3, <2>5, <2>6 DEF Core
<1>6. CASE slock[my[u]] = None
  <2> DEFINE l == bread(my[u])
  <2>1. slock' = [slock EXCEPT ![my[u]] = u] /\ pc' = [pc EXCEPT ![u] = l]
    BY <1>6 DEF acquiresleep
  <2>2. /\ l \in {"held", "iderw"}
        /\ l = "held" => my[u] \in valid
        /\ l = "iderw" => my[u] \notin valid
    BY DEF bread
  <2> HIDE DEF l
  <2>3. Types'
    BY <1>0, <1>1, <2>1, <2>2, ZenonT(60) DEF Types, Holding
  <2>4. Owner'
    <3>1. \A q \in Uses : (my[q] = None <=> pc[q] \in {"out", "nobufs"})'
      BY <1>0, <1>1, <2>1, <2>2 DEF Types, Owner
    <3>2. \A q \in Uses : pc'[q] \in Holding => slock'[my'[q]] = q
      BY <1>0, <1>1, <1>2, <1>6, <2>1, Consts DEF Types, Owner
    <3>3. \A b \in Bufs : slock'[b] # None => my'[slock'[b]] = b /\ pc'[slock'[b]] \in Holding
      BY <1>0, <1>1, <1>2, <2>1, <2>2 DEF Types, Owner, Holding
    <3>4. \A q \in Uses : pc'[q] = "asleep" => slock'[my'[q]] # None
      BY <1>0, <1>1, <1>2, <2>1, <2>2, Consts DEF Types, Owner
    <3> QED
      BY <3>1, <3>2, <3>3, <3>4 DEF Owner
  <2>5. Busy \subseteq Busy'
    BY <1>0, <1>1, <2>1 DEF Types, Busy
  <2>6. Calm
    BY <1>1, <2>5 DEF Calm
  <2>7. Queued'
    <3>1. \A q \in Uses : IF q = u THEN pc'[q] = l ELSE pc'[q] = pc[q]
      BY <1>0, <2>1 DEF Types
    <3>2. \A q \in Uses : pc'[q] = "iosleep" <=> pc[q] = "iosleep"
      BY <1>1, <2>2, <3>1
    <3>3. /\ \A q \in Uses : pc'[q] = "held" => my[q] \in valid
          /\ \A q \in Uses : pc'[q] \in {"iderw", "iosleep"} => ~Done(my[q])
          /\ \A q \in Uses : pc'[q] = "iotest" => Done(my[q])
      BY <1>0, <2>2, <3>1 DEF Queued, Done
    <3> QED
      BY <1>0, <1>1, <3>2, <3>3 DEF Queued, Done
  <2> QED
    BY <1>3, <1>4, <2>3, <2>4, <2>6, <2>7 DEF Core
<1> QED
  BY <1>5, <1>6

(* Two processes do not hold the same buffer. *)
LEMMA HeldOnce ==
  ASSUME Types, Owner, NEW u \in Uses, NEW q \in Uses,
         pc[u] \in Holding, pc[q] \in Holding, my[u] = my[q]
  PROVE  u = q
BY DEF Owner

(* Only the holder of a buffer changes it, when the disk does not have it. *)
LEMMA HeldIsIdle ==
  ASSUME Types, Owner, Queued, NEW u \in Uses, pc[u] \in Holding \ {"iosleep"}
  PROVE  \A k \in 1..Len(idequeue) : idequeue[k] # my[u]
BY HeldOnce DEF Queued, Holding

(* The caller changes the contents of the buffer it holds; with bwrite it *)
(* goes on to the disk.                                                   *)
LEMMA ChangeStep ==
  ASSUME Core, NEW u \in Uses, NEW v \in Val, bwrite(u, v) \/ log_write(u, v)
  PROVE  Core' /\ UNCHANGED <<my, refcnt>> /\ (bwrite(u, v) => Calm)
<1>0. Types /\ Owner /\ Placed /\ Queued /\ DiskBusy
  BY DEF Core
<1>1. /\ pc[u] = "held" /\ data' = [data EXCEPT ![my[u]] = v] /\ dirty' = dirty \cup {my[u]}
      /\ UNCHANGED <<lru, blockno, refcnt, valid, slock, idequeue, ctl, disk, my, want>>
  BY DEF bwrite, log_write
<1>2. \/ pc' = [pc EXCEPT ![u] = "iderw"]
      \/ pc' = pc /\ Cardinality(dirty \cup {my[u]}) <= MAXPIN
  BY DEF bwrite, log_write
<1>3. my[u] \in Bufs /\ my[u] \in valid
  BY <1>0, <1>1 DEF Types, Owner, Queued
<1>4. Types'
  <2>1. pc' \in [Uses -> {"out", "nobufs", "lock", "asleep", "brelse"} \cup Holding]
    BY <1>0, <1>2, ZenonT(60) DEF Types, Holding
  <2>2. data' \in [Bufs -> Val \cup {Junk}] /\ \A b \in dirty' : data'[b] \in Val
    BY <1>0, <1>1, <1>3 DEF Types
  <2> QED
    BY <1>0, <1>1, <1>3, <2>1, <2>2 DEF Types
<1>5. Owner'
  <2>1. \A q \in Uses : \/ pc'[q] = pc[q]
                        \/ pc[q] = "held" /\ pc'[q] = "iderw"
    BY <1>0, <1>1, <1>2 DEF Types
  <2>2. \A q \in Uses : /\ pc'[q] \in Holding <=> pc[q] \in Holding
                        /\ pc'[q] \in {"out", "nobufs"} <=> pc[q] \in {"out", "nobufs"}
                        /\ pc'[q] = "asleep" <=> pc[q] = "asleep"
    BY <2>1 DEF Holding
  <2> QED
    BY <1>0, <1>1, <2>2 DEF Types, Owner
<1>6. Placed'
  BY <1>0, <1>1, SamePlaced
<1>7. ASSUME bwrite(u, v) PROVE Calm
  <2>1. pc' = [pc EXCEPT ![u] = "iderw"]
    BY <1>7 DEF bwrite
  <2>2. Busy \cup {my[u]} \subseteq Busy'
    BY <1>0, <1>1, <1>3, <2>1 DEF Types, Busy
  <2> QED
    BY <1>1, <2>2 DEF Calm
<1>8. Queued'
  <2>1. \A q \in Uses : q # u /\ pc[q] \in Holding => my[q] # my[u]
    BY <1>0, <1>1, HeldOnce DEF Holding
  <2>2. \A q \in Uses : q # u => pc'[q] = pc[q]
    BY <1>0, <1>2 DEF Types
  <2>3. pc'[u] \in {"held", "iderw"}
    BY <1>0, <1>1, <1>2 DEF Types
  <2>4. /\ \A q \in Uses : pc'[q] = "held" => my[q] \in valid
        /\ \A q \in Uses : pc'[q] \in {"iderw", "iosleep"} => ~Done(my[q])'
        /\ \A q \in Uses : pc'[q] = "iotest" => Done(my[q])'
    BY <1>0, <1>1, <1>3, <2>1, <2>2, <2>3 DEF Queued, Done, Holding
  <2>5. \A q \in Uses : pc'[q] = "iosleep" <=> pc[q] = "iosleep"
    BY <1>1, <2>2, <2>3
  <2> QED
    BY <1>0, <1>1, <2>4, <2>5 DEF Queued
<1>9. DiskBusy'
  <2>1. ASSUME NEW k \in 1..Len(idequeue) PROVE UNCHANGED idestart(idequeue[k])
    <3>1. pc[u] \in Holding \ {"iosleep"} /\ idequeue[k] \in Bufs
      BY <1>0, <1>1 DEF Types, Holding
    <3>2. idequeue[k] # my[u]
      BY <1>0, <3>1, HeldIsIdle
    <3>3. data'[idequeue[k]] = data[idequeue[k]] /\ (idequeue[k] \in dirty' <=> idequeue[k] \in dirty)
      BY <1>0, <1>1, <3>1, <3>2 DEF Types
    <3> QED
      BY <1>1, <3>3 DEF idestart
  <2> QED
    BY <1>0, <1>1, <2>1, SameRequest
<1> QED
  BY <1>1, <1>4, <1>5, <1>6, <1>7, <1>8, <1>9 DEF Core

(* releasesleep frees the lock and wakes who sleeps for it. *)
LEMMA ReleasesleepStep ==
  ASSUME Core, NEW u \in Uses, releasesleep(u)
  PROVE  Core' /\ Calm
<1>0. Types /\ Owner /\ Placed /\ Queued /\ DiskBusy
  BY DEF Core
<1>1. /\ pc[u] = "held" /\ slock' = [slock EXCEPT ![my[u]] = None]
      /\ UNCHANGED <<lru, blockno, refcnt, data, valid, dirty, idequeue, ctl, disk, my, want>>
  BY DEF releasesleep
<1>2. \A q \in Uses : pc'[q] = IF q = u THEN "brelse"
                               ELSE IF pc[q] = "asleep" /\ my[q] = my[u] THEN "lock" ELSE pc[q]
  BY <1>0 DEF Types, releasesleep, WakeLock, Wake
<1>3. pc' \in [Uses -> {"out", "nobufs", "lock", "asleep", "brelse"} \cup Holding]
  <2>1. \A q \in Uses : pc'[q] \in {"out", "nobufs", "lock", "asleep", "brelse"} \cup Holding
    BY <1>0, <1>2 DEF Types
  <2> QED
    BY <2>1 DEF releasesleep, WakeLock, Wake
<1>4. \A q \in Uses : /\ pc'[q] \in Holding <=> pc[q] \in Holding /\ q # u
                      /\ pc'[q] \in Holding => pc'[q] = pc[q]
                      /\ pc'[q] \in {"out", "nobufs"} <=> pc[q] \in {"out", "nobufs"}
                      /\ pc'[q] = "asleep" => pc[q] = "asleep" /\ my[q] # my[u]
  BY <1>1, <1>2 DEF Holding
<1>5. my[u] \in Bufs /\ slock[my[u]] = u
  BY <1>0, <1>1, InHand DEF Holding
<1>6. Types'
  BY <1>0, <1>1, <1>3, <1>5, ZenonT(60) DEF Types
<1>7. Owner'
  <2>1. \A q \in Uses : pc'[q] \in Holding => my[q] # my[u] /\ slock'[my[q]] = q
    BY <1>0, <1>1, <1>4, <1>5 DEF Types, Owner
  <2>2. \A b \in Bufs : slock'[b] # None => slock'[b] = slock[b] /\ b # my[u]
    BY <1>0, <1>1, <1>5 DEF Types
  <2>3. \A b \in Bufs : slock'[b] # None => my[slock'[b]] = b /\ pc'[slock'[b]] \in Holding
    BY <1>0, <1>1, <1>4, <2>2 DEF Types, Owner
  <2>4. \A q \in Uses : pc'[q] = "asleep" => slock'[my[q]] # None
    BY <1>0, <1>1, <1>4, <1>5 DEF Types, Owner
  <2> QED
    BY <1>0, <1>1, <1>4, <2>1, <2>3, <2>4 DEF Owner
<1>8. Placed'
  BY <1>0, <1>1, SamePlaced
<1>9. Calm
  <2>1. Busy' = Busy
    BY <1>1, <1>2 DEF Busy
  <2> QED
    BY <1>1, <2>1 DEF Calm
<1>10. Queued'
  <2>1. \A q \in Uses : pc'[q] \in Holding => pc'[q] = pc[q]
    BY <1>4
  <2>2. \A q \in Uses : pc[q] = "iosleep" => pc'[q] = "iosleep"
    BY <1>1, <1>2
  <2> QED
    BY <1>0, <1>1, <2>1, <2>2 DEF Queued, Done, Holding
<1>11. DiskBusy'
  BY <1>0, <1>1 DEF DiskBusy, idestart
<1> QED
  BY <1>6, <1>7, <1>8, <1>9, <1>10, <1>11 DEF Core

(* The list still holds every buffer when one of them is put in front. *)
LEMMA FrontKeeps ==
  ASSUME Types, NEW b \in Bufs
  PROVE  /\ Front(b) \in [Bufs -> Bufs]
         /\ \A c \in Bufs : \E k \in Bufs : Front(b)[k] = c
<1> DEFINE i == CHOOSE k \in Bufs : lru[k] = b
<1>1. i \in Bufs /\ lru[i] = b
  BY DEF Types
<1>2. Front(b) = [k \in Bufs |-> IF k = 1 THEN b ELSE IF k <= i THEN lru[k - 1] ELSE lru[k]]
  BY DEF Front
<1> HIDE DEF i
<1>3. 1 \in Bufs /\ \A k \in Bufs : k # 1 => k - 1 \in Bufs
  BY Consts DEF Bufs
<1>4. Front(b) \in [Bufs -> Bufs]
  <2>1. \A k \in Bufs : (IF k = 1 THEN b ELSE IF k <= i THEN lru[k - 1] ELSE lru[k]) \in Bufs
    BY <1>3, ZenonT(60) DEF Types
  <2> QED
    BY <1>2, <2>1
<1>5. ASSUME NEW c \in Bufs PROVE \E k \in Bufs : Front(b)[k] = c
  <2>1. PICK k \in Bufs : lru[k] = c
    BY DEF Types
  <2>2. CASE k = i
    BY <1>1, <1>2, <1>3, <2>1, <2>2
  <2>3. CASE k < i
    <3>1. k + 1 \in Bufs /\ k + 1 # 1 /\ k + 1 <= i /\ (k + 1) - 1 = k
      BY <1>1, <2>3, Consts DEF Bufs
    <3> QED
      BY <1>2, <2>1, <3>1
  <2>4. CASE k > i
    <3>1. k # 1 /\ ~(k <= i)
      BY <1>1, <2>4, Consts DEF Bufs
    <3> QED
      BY <1>2, <2>1, <3>1
  <2> QED
    BY <1>1, <2>2, <2>3, <2>4, Consts DEF Bufs
<1> QED
  BY <1>4, <1>5

(* brelse makes u no user of the buffer. *)
LEMMA BrelseStep ==
  ASSUME Core, NEW u \in Uses, brelse(u), refcnt[my[u]] # 0
  PROVE  Core' /\ dirty' \ Busy' \subseteq dirty \ Busy
<1>0. Types /\ Owner /\ Placed /\ Queued /\ DiskBusy
  BY DEF Core
<1>1. /\ pc[u] = "brelse" /\ pc' = [pc EXCEPT ![u] = "out"]
      /\ my' = [my EXCEPT ![u] = None] /\ want' = [want EXCEPT ![u] = NoBlock]
      /\ refcnt' = [refcnt EXCEPT ![my[u]] = @ - 1]
      /\ UNCHANGED <<blockno, data, valid, dirty, slock, idequeue, ctl, disk>>
  BY DEF brelse
<1>2. my[u] \in Bufs
  BY <1>0, <1>1, InHand
<1>4. \A q \in Uses : q # u => pc'[q] = pc[q] /\ my'[q] = my[q] /\ want'[q] = want[q]
  BY <1>0, <1>1 DEF Types
<1>5. pc'[u] = "out" /\ my'[u] = None
  BY <1>0, <1>1 DEF Types
<1>6. Types'
  <2>1. lru' \in [Bufs -> Bufs] /\ \A b \in Bufs : \E k \in Bufs : lru'[k] = b
    <3>1. CASE lru' = lru
      BY <1>0, <3>1 DEF Types
    <3>2. CASE lru' = Front(my[u])
      BY <1>0, <1>2, <3>2, FrontKeeps, ZenonT(60)
    <3> QED
      BY <3>1, <3>2 DEF brelse
  <2>2. refcnt' \in [Bufs -> Nat]
    BY <1>0, <1>1, <1>2 DEF Types
  <2> QED
    BY <1>0, <1>1, <2>1, <2>2, ZenonT(60) DEF Types
<1>7. Owner'
  <2>1. \A b \in Bufs : slock[b] # None => slock[b] \in Uses /\ slock[b] # u
    <3>1. pc[u] \notin Holding
      BY <1>1 DEF Holding
    <3> QED
      BY <1>0, <3>1 DEF Types, Owner
  <2>2. \A q \in Uses : pc'[q] \in Holding \cup {"asleep"} => q # u
    BY <1>5 DEF Holding
  <2>3. \A b \in Bufs : slock'[b] # None => my'[slock'[b]] = b /\ pc'[slock'[b]] \in Holding
    BY <1>0, <1>1, <1>4, <2>1 DEF Owner
  <2>4. \A q \in Uses : (my[q] = None <=> pc[q] \in {"out", "nobufs"})'
    BY <1>0, <1>4, <1>5 DEF Owner
  <2> QED
    BY <1>0, <1>1, <1>4, <2>2, <2>3, <2>4 DEF Owner
<1>8. Placed'
  BY <1>0, <1>1, <1>4, <1>5 DEF Placed
<1>10. dirty' \ Busy' \subseteq dirty \ Busy
  <2>1. Busy' = Busy
    BY <1>0, <1>1, <1>4, <1>5, Consts DEF Busy
  <2> QED
    BY <1>1, <2>1
<1>11. Queued'
  <2>1. \A q \in Uses : pc'[q] \in Holding <=> pc[q] \in Holding /\ q # u
    BY <1>1, <1>4, <1>5 DEF Holding
  <2>2. \A q \in Uses : pc[q] \in Holding => q # u
    BY <1>1 DEF Holding
  <2> QED
    BY <1>0, <1>1, <1>4, <2>1, <2>2 DEF Queued, Done, Holding
<1>12. DiskBusy'
  BY <1>0, <1>1 DEF DiskBusy, idestart
<1> QED
  BY <1>6, <1>7, <1>8, <1>10, <1>11, <1>12 DEF Core

(* iderw finds the buffer locked and with something to do, and queues it. *)
LEMMA IderwStep ==
  ASSUME Core, NEW u \in Uses, iderw(u)
  PROVE  Core' /\ Calm
<1>0. Types /\ Owner /\ Placed /\ Queued /\ DiskBusy
  BY DEF Core
<1>1. /\ pc[u] = "iderw"
      /\ UNCHANGED <<lru, blockno, refcnt, data, valid, dirty, slock, disk, my, want>>
  BY DEF iderw
<1>2. my[u] \in Bufs /\ holdingsleep(u, my[u]) /\ ~Done(my[u])
  BY <1>0, <1>1, InHand DEF Queued, Holding, holdingsleep
<1>3. /\ idequeue' = Append(idequeue, my[u]) /\ pc' = [pc EXCEPT ![u] = "iosleep"]
      /\ ctl' = IF idequeue = <<>> THEN idestart(my[u]) ELSE ctl
  BY <1>2 DEF iderw
<1> DEFINE n == Len(idequeue)
<1>4. /\ n \in Nat /\ Len(idequeue') = n + 1 /\ idequeue'[n + 1] = my[u]
      /\ \A k \in 1..n : idequeue'[k] = idequeue[k]
  <2>1. idequeue \in Seq(Bufs)
    BY <1>0 DEF Types
  <2> QED
    BY <1>2, <1>3, <2>1
<1>5. \A k \in 1..n : idequeue[k] # my[u]
  <2>1. pc[u] \in Holding \ {"iosleep"}
    BY <1>1 DEF Holding
  <2> QED
    BY <1>0, <2>1, HeldIsIdle
<1>6. Types'
  BY <1>0, <1>1, <1>2, <1>3 DEF Types, Holding
<1>7. Owner'
  <2>1. \A q \in Uses : \/ pc'[q] = pc[q]
                        \/ pc[q] = "iderw" /\ pc'[q] = "iosleep"
    BY <1>0, <1>1, <1>3 DEF Types
  <2>2. \A q \in Uses : /\ pc'[q] \in Holding <=> pc[q] \in Holding
                        /\ pc'[q] \in {"out", "nobufs"} <=> pc[q] \in {"out", "nobufs"}
                        /\ pc'[q] = "asleep" <=> pc[q] = "asleep"
    BY <2>1 DEF Holding
  <2> QED
    BY <1>0, <1>1, <2>2 DEF Types, Owner
<1>8. Placed'
  BY <1>0, <1>1, SamePlaced
<1>9. Calm
  <2>1. Busy' = Busy
    BY <1>0, <1>1, <1>3 DEF Types, Busy
  <2> QED
    BY <1>1, <2>1 DEF Calm
<1>10. Queued'
  <2>1. \A q \in Uses : IF q = u THEN pc'[q] = "iosleep" ELSE pc'[q] = pc[q]
    BY <1>0, <1>3 DEF Types
  <2>2. /\ \A q \in Uses : pc'[q] = "held" => my[q] \in valid
        /\ \A q \in Uses : pc'[q] \in {"iderw", "iosleep"} => ~Done(my[q])
        /\ \A q \in Uses : pc'[q] = "iotest" => Done(my[q])
    BY <1>0, <1>2, <2>1 DEF Queued
  <2>3. \A k \in 1..Len(idequeue') : k = n + 1 \/ k \in 1..n
    BY <1>4
  <2>4. \A q \in Uses : pc'[q] = "iosleep" => \E k \in 1..Len(idequeue') : idequeue'[k] = my[q]
    <3> TAKE q \in Uses
    <3> HAVE pc'[q] = "iosleep"
    <3>1. CASE q = u
      BY <1>4, <3>1
    <3>2. CASE q # u
      <4>1. PICK k \in 1..n : idequeue[k] = my[q]
        BY <1>0, <2>1, <3>2 DEF Queued
      <4>2. k \in 1..Len(idequeue') /\ idequeue'[k] = my[q]
        BY <1>4, <4>1
      <4> QED
        BY <4>2
    <3> QED
      BY <3>1, <3>2
  <2>5. \A k \in 1..Len(idequeue') : \E q \in Uses : pc'[q] = "iosleep" /\ my[q] = idequeue'[k]
    BY <1>0, <1>1, <1>4, <2>1, <2>3 DEF Queued
  <2>6. \A j, k \in 1..Len(idequeue') : idequeue'[j] = idequeue'[k] => j = k
    BY <1>0, <1>4, <1>5, <2>3 DEF Queued
  <2> QED
    BY <1>1, <2>2, <2>4, <2>5, <2>6 DEF Queued, Done
<1>11. DiskBusy'
  <2>1. CASE idequeue = <<>>
    <3>1. idequeue' # <<>> /\ Head(idequeue') = my[u]
      BY <1>0, <1>3, <2>1 DEF Types
    <3> QED
      BY <1>1, <1>3, <2>1, <3>1 DEF DiskBusy, idestart
  <2>2. CASE idequeue # <<>>
    <3>1. idequeue \in Seq(Bufs) /\ idequeue' \in Seq(Bufs) /\ n > 0
      BY <1>0, <1>6, <2>2 DEF Types
    <3>2. idequeue' # <<>> /\ Head(idequeue') = idequeue'[1] /\ Head(idequeue) = idequeue[1]
      BY <1>4, <2>2, <3>1
    <3>3. Head(idequeue') = Head(idequeue)
      BY <1>4, <3>1, <3>2
    <3> QED
      BY <1>0, <1>1, <1>3, <2>2, <3>2, <3>3 DEF DiskBusy, idestart
  <2> QED
    BY <2>1, <2>2
<1> QED
  BY <1>6, <1>7, <1>8, <1>9, <1>10, <1>11 DEF Core

(* Who is woken in iderw finds the request done. *)
LEMMA IoTestStep ==
  ASSUME Core, NEW u \in Uses, IoTest(u)
  PROVE  Core' /\ Calm
<1>0. Types /\ Owner /\ Placed /\ Queued /\ DiskBusy
  BY DEF Core
<1>1. /\ pc[u] = "iotest"
      /\ UNCHANGED <<lru, blockno, refcnt, data, valid, dirty, slock, idequeue, ctl, disk, my, want>>
  BY DEF IoTest
<1>2. Done(my[u]) /\ my[u] \in Bufs
  BY <1>0, <1>1, InHand DEF Queued, Holding
<1>3. pc' = [pc EXCEPT ![u] = "held"]
  BY <1>2 DEF IoTest
<1>4. \A q \in Uses : IF q = u THEN pc'[q] = "held" ELSE pc'[q] = pc[q]
  BY <1>0, <1>3 DEF Types
<1>5. Types'
  BY <1>0, <1>1, <1>3 DEF Types, Holding
<1>6. Owner'
  <2>1. \A q \in Uses : /\ pc'[q] \in Holding <=> pc[q] \in Holding
                        /\ pc'[q] \in {"out", "nobufs"} <=> pc[q] \in {"out", "nobufs"}
                        /\ pc'[q] = "asleep" <=> pc[q] = "asleep"
    BY <1>1, <1>4, ZenonT(60) DEF Holding
  <2> QED
    BY <1>0, <1>1, <2>1 DEF Types, Owner
<1>7. Placed'
  BY <1>0, <1>1, SamePlaced
<1>8. Calm
  <2>1. \A b \in Busy : b \in Busy' \/ b = my[u]
    BY <1>1, <1>4 DEF Busy
  <2>2. my[u] \notin dirty
    BY <1>2 DEF Done
  <2> QED
    BY <1>1, <2>1, <2>2 DEF Calm
<1>9. Queued'
  <2>1. \A q \in Uses : pc'[q] = "iosleep" <=> pc[q] = "iosleep"
    BY <1>1, <1>4
  <2>2. /\ \A q \in Uses : pc'[q] = "held" => my[q] \in valid
        /\ \A q \in Uses : pc'[q] \in {"iderw", "iosleep"} => ~Done(my[q])
        /\ \A q \in Uses : pc'[q] = "iotest" => Done(my[q])
    BY <1>0, <1>2, <1>4 DEF Queued, Done
  <2>3. /\ \A q \in Uses : pc'[q] = "iosleep" => \E k \in 1..Len(idequeue) : idequeue[k] = my[q]
        /\ \A k \in 1..Len(idequeue) : \E q \in Uses : pc'[q] = "iosleep" /\ my[q] = idequeue[k]
        /\ \A j, k \in 1..Len(idequeue) : idequeue[j] = idequeue[k] => j = k
    BY <1>0, <2>1 DEF Queued
  <2> QED
    BY <1>1, <2>2, <2>3 DEF Queued, Done
<1>10. DiskBusy'
  BY <1>0, <1>1 DEF DiskBusy, idestart
<1> QED
  BY <1>5, <1>6, <1>7, <1>8, <1>9, <1>10 DEF Core

(* Nothing happens. *)
LEMMA IdleStep ==
  ASSUME Core, UNCHANGED vars
  PROVE  Core' /\ Calm
<1>1. Types' /\ Owner'
  BY DEF Core, Types, Owner
<1>2. Placed' /\ Calm
  BY DEF Core, Placed, Calm, Busy
<1>3. Queued'
  BY ZenonT(60) DEF Core, Queued, Done
<1>4. DiskBusy'
  BY DEF Core, DiskBusy, idestart
<1> QED
  BY <1>1, <1>2, <1>3, <1>4 DEF Core

(* The buffer the disk works on, and who sleeps for it. *)
LEMMA AtDisk ==
  ASSUME Core, ideintr
  PROVE  /\ idequeue # <<>> /\ Head(idequeue) = idequeue[1] /\ Head(idequeue) \in Bufs
         /\ ctl = idestart(Head(idequeue)) /\ Len(idequeue) \in Nat \ {0}
         /\ Len(Tail(idequeue)) = Len(idequeue) - 1
         /\ \A k \in 1..Len(Tail(idequeue)) : Tail(idequeue)[k] = idequeue[k + 1]
         /\ Tail(idequeue) \in Seq(Bufs)
         /\ \E u \in Uses : pc[u] = "iosleep" /\ my[u] = Head(idequeue) /\ slock[my[u]] = u
<1>1. Types /\ Owner /\ Queued /\ DiskBusy /\ ctl # Idle
  BY DEF Core, ideintr
<1>2. idequeue # <<>> /\ ctl = idestart(Head(idequeue))
  BY <1>1 DEF DiskBusy
<1>3. /\ Head(idequeue) = idequeue[1] /\ Len(idequeue) \in Nat \ {0} /\ Head(idequeue) \in Bufs
      /\ Len(Tail(idequeue)) = Len(idequeue) - 1
      /\ \A k \in 1..Len(Tail(idequeue)) : Tail(idequeue)[k] = idequeue[k + 1]
      /\ Tail(idequeue) \in Seq(Bufs)
  BY <1>1, <1>2 DEF Types
<1>4. 1 \in 1..Len(idequeue)
  BY <1>3
<1>5. \E u \in Uses : pc[u] = "iosleep" /\ my[u] = idequeue[1]
  BY <1>1, <1>4 DEF Queued
<1> QED
  BY <1>1, <1>2, <1>3, <1>5 DEF Owner, Holding

(* The disk's request ends: who waits for it is woken, the next one starts. *)
LEMMA IdeintrStep ==
  ASSUME Core, ideintr
  PROVE  Core' /\ Calm
<1>0. Types /\ Owner /\ Placed /\ Queued /\ DiskBusy
  BY DEF Core
<1> DEFINE b == Head(idequeue)
           n == Len(idequeue)
<1>1. /\ b = idequeue[1] /\ b \in Bufs /\ ctl = idestart(b) /\ n \in Nat \ {0}
      /\ idequeue' = Tail(idequeue) /\ idequeue' \in Seq(Bufs) /\ Len(idequeue') = n - 1
      /\ \A k \in 1..Len(idequeue') : idequeue'[k] = idequeue[k + 1]
  BY AtDisk DEF ideintr
<1>2. PICK u \in Uses : pc[u] = "iosleep" /\ my[u] = b /\ slock[my[u]] = u
  BY AtDisk
<1>3. /\ disk' = (IF ctl.write THEN [disk EXCEPT ![ctl.blk] = ctl.val] ELSE disk)
      /\ data' = (IF b \in dirty THEN data ELSE [data EXCEPT ![b] = ReadData(b)])
      /\ valid' = valid \cup {b} /\ dirty' = dirty \ {b}
      /\ ctl' = StartNext(idequeue')
      /\ pc' = Wake(pc, b, "iosleep", "iotest")
      /\ UNCHANGED <<lru, blockno, refcnt, slock, my, want>>
  BY DEF ideintr
<1> HIDE DEF b, n
<1>4. blockno[b] = want[u] /\ blockno[b] \in Blocks
  <2>0. b \in Bufs
    BY <1>1
  <2>1. my[u] # None /\ want[u] \in Blocks \cup {NoBlock}
    BY <1>0, <1>2, <2>0, Consts DEF Types
  <2> QED
    BY <1>0, <1>2, <2>1 DEF Placed
<1>5. /\ pc' \in [Uses -> {"out", "nobufs", "lock", "asleep", "brelse"} \cup Holding]
      /\ \A q \in Uses : IF q = u THEN pc'[q] = "iotest" ELSE pc'[q] = pc[q]
  <2>1. \A q \in Uses : pc[q] = "iosleep" /\ my[q] = b <=> q = u
    BY <1>0, <1>2, HeldOnce DEF Holding
  <2>2. \A q \in Uses : IF q = u THEN pc'[q] = "iotest" ELSE pc'[q] = pc[q]
    BY <1>3, <2>1 DEF Wake
  <2>3. \A q \in Uses : pc'[q] \in {"out", "nobufs", "lock", "asleep", "brelse"} \cup Holding
    BY <1>0, <2>2 DEF Types, Holding
  <2> QED
    BY <1>3, <2>2, <2>3 DEF Wake
<1>6. \A k \in 1..Len(idequeue') : k + 1 \in 1..n /\ idequeue'[k] = idequeue[k + 1] /\ idequeue'[k] # b
  <2>1. \A k \in 1..Len(idequeue') : k + 1 \in 1..n /\ k + 1 # 1 /\ 1 \in 1..n
    BY <1>1
  <2> QED
    BY <1>0, <1>1, <2>1 DEF Queued, n
<1>7. data' \in [Bufs -> Val \cup {Junk}] /\ \A c \in Bufs \ {b} : data'[c] = data[c]
  <2>1. ctl.blk \in Blocks
    BY <1>1, <1>4, ZenonT(60) DEF idestart
  <2>2. ReadData(b) \in Val \cup {Junk}
    BY <1>0, <1>1, <2>1 DEF Types, ReadData
  <2> QED
    BY <1>0, <1>3, <2>2, ZenonT(60) DEF Types
<1>8. disk' \in [Blocks -> Val]
  <2>1. CASE b \in dirty
    <3>1. ctl.blk \in Blocks /\ ctl.val \in Val
      BY <1>0, <1>1, <1>4, <2>1, ZenonT(60) DEF Types, idestart
    <3> QED
      BY <1>0, <1>3, <3>1 DEF Types
  <2>2. CASE b \notin dirty
    BY <1>0, <1>1, <1>3, <2>2, ZenonT(60) DEF Types, idestart
  <2> QED
    BY <2>1, <2>2
<1>9. Types'
  <2>1. \A c \in dirty' : data'[c] \in Val
    BY <1>0, <1>3, <1>7 DEF Types
  <2> QED
    BY <1>0, <1>1, <1>3, <1>5, <1>7, <1>8, <2>1, ZenonT(60) DEF Types
<1>10. Owner'
  <2>1. \A q \in Uses : /\ pc'[q] \in Holding <=> pc[q] \in Holding
                        /\ pc'[q] \in {"out", "nobufs"} <=> pc[q] \in {"out", "nobufs"}
                        /\ pc'[q] = "asleep" <=> pc[q] = "asleep"
    BY <1>2, <1>5 DEF Holding
  <2> QED
    BY <1>0, <1>3, <2>1 DEF Types, Owner
<1>11. Placed'
  BY <1>0, <1>3, <1>4, Consts, ZenonT(60) DEF Placed
<1>13. Calm
  <2>1. Busy' = Busy
    BY <1>2, <1>3, <1>5 DEF Busy
  <2> QED
    BY <1>3, <2>1 DEF Calm
<1>14. Queued'
  <2>1. \A q \in Uses : q # u /\ pc[q] \in Holding => my[q] # b
    BY <1>0, <1>2, HeldOnce DEF Holding
  <2>2. /\ \A q \in Uses : pc'[q] = "held" => my[q] \in valid'
        /\ \A q \in Uses : pc'[q] \in {"iderw", "iosleep"} => ~(my[q] \in valid' /\ my[q] \notin dirty')
        /\ \A q \in Uses : pc'[q] = "iotest" => my[q] \in valid' /\ my[q] \notin dirty'
    BY <1>0, <1>2, <1>3, <1>5, <2>1, ZenonT(60) DEF Queued, Holding, Done
  <2>3. \A q \in Uses : pc'[q] = "iosleep" => \E k \in 1..Len(idequeue') : idequeue'[k] = my[q]
    <3> SUFFICES ASSUME NEW q \in Uses, pc'[q] = "iosleep"
                 PROVE  \E k \in 1..Len(idequeue') : idequeue'[k] = my[q]
      OBVIOUS
    <3>1. q # u /\ pc[q] = "iosleep" /\ my[q] # b
      BY <1>5, <2>1 DEF Holding
    <3>2. PICK j \in 1..n : idequeue[j] = my[q]
      BY <1>0, <3>1 DEF Queued, n
    <3>3. j # 1
      BY <1>1, <3>1, <3>2
    <3>4. j - 1 \in 1..Len(idequeue') /\ (j - 1) + 1 = j
      BY <1>1, <3>3
    <3> QED
      BY <1>6, <3>2, <3>4, ZenonT(60)
  <2>4. \A k \in 1..Len(idequeue') : \E q \in Uses : pc'[q] = "iosleep" /\ my[q] = idequeue'[k]
    <3> TAKE k \in 1..Len(idequeue')
    <3>1. PICK q \in Uses : pc[q] = "iosleep" /\ my[q] = idequeue[k + 1]
      BY <1>0, <1>6 DEF Queued, n
    <3> QED
      BY <1>2, <1>5, <1>6, <3>1
  <2>5. \A j, k \in 1..Len(idequeue') : idequeue'[j] = idequeue'[k] => j = k
    <3> SUFFICES ASSUME NEW j \in 1..Len(idequeue'), NEW k \in 1..Len(idequeue'), idequeue'[j] = idequeue'[k]
                 PROVE  j = k
      OBVIOUS
    <3>1. j + 1 = k + 1
      BY <1>0, <1>6 DEF Queued, n
    <3> QED
      BY <1>1, <3>1
  <2> QED
    BY <1>3, <2>2, <2>3, <2>4, <2>5 DEF Queued, Done
<1>15. DiskBusy'
  <2>1. CASE idequeue' = <<>>
    BY <1>3, <2>1 DEF DiskBusy, StartNext
  <2>2. CASE idequeue' # <<>>
    <3>1. Len(idequeue') \in Nat \ {0} /\ Head(idequeue') = idequeue'[1] /\ Head(idequeue') \in Bufs
      BY <1>1, <2>2
    <3>2. 1 \in 1..Len(idequeue')
      BY <3>1
    <3>3. Head(idequeue') # b
      BY <1>6, <3>1, <3>2
    <3> DEFINE h == Head(idequeue')
    <3>4. data'[h] = data[h] /\ (h \in dirty') = (h \in dirty) /\ blockno'[h] = blockno[h]
      BY <1>3, <1>7, <3>1, <3>3
    <3>5. ctl' = idestart(h)
      BY <1>3, <2>2 DEF StartNext
    <3>6. ctl' = [blk |-> blockno'[h], write |-> h \in dirty', val |-> data'[h]]
      BY <3>4, <3>5 DEF idestart
    <3> QED
      BY <2>2, <3>6 DEF DiskBusy, idestart
  <2> QED
    BY <2>1, <2>2
<1> QED
  BY <1>9, <1>10, <1>11, <1>13, <1>14, <1>15 DEF Core

(* The refinement of BlockStore, for a disk that reports no read errors. *)

NoErrors == BadBlocks = {}

(* The contents of a block are those of its valid buffer, else the disk's. *)
StoreIs ==
  /\ Store = [bn \in Blocks |-> Store[bn]]
  /\ \A b \in valid : blockno[b] \in Blocks /\ Store[blockno[b]] = data[b]
  /\ \A bn \in Blocks : (\A b \in valid : blockno[b] # bn) => Store[bn] = disk[bn]

(* A process holds its block while it has the lock of a valid buffer; no two *)
(* processes hold the same one.                                              *)
HoldsIs ==
  /\ Holds = [u \in Uses |-> IF pc[u] \in Holding /\ my[u] \in valid THEN want[u] ELSE NoBlock]
  /\ \A u \in Uses : pc[u] \in Holding =>
       want[u] \in Blocks /\ my[u] \in Bufs /\ blockno[my[u]] = want[u]
  /\ \A u, q \in Uses : pc[u] \in Holding /\ pc[q] \in Holding /\ want[u] = want[q] => u = q

(* The store by its blocks. *)
LEMMA StoreOf == Types /\ Placed => StoreIs
<1> SUFFICES ASSUME Types, Placed PROVE StoreIs
  OBVIOUS
<1>1. Store = [bn \in Blocks |-> Store[bn]]
  BY DEF Store
<1>2. ASSUME NEW b \in valid PROVE blockno[b] \in Blocks /\ Store[blockno[b]] = data[b]
  <2>1. b \in Bufs /\ blockno[b] \in Blocks
    BY DEF Types, Placed
  <2>2. \A c \in valid : blockno[c] = blockno[b] => c = b
    BY <2>1, Consts DEF Types, Placed
  <2>3. (CHOOSE c \in valid : blockno[c] = blockno[b]) = b
    BY <2>2
  <2> QED
    BY <2>1, <2>3 DEF Store
<1>3. \A bn \in Blocks : (\A b \in valid : blockno[b] # bn) => Store[bn] = disk[bn]
  BY DEF Store
<1> QED
  BY <1>1, <1>2, <1>3 DEF StoreIs

(* The holders by their locks. *)
LEMMA HoldsOf == Types /\ Owner /\ Placed => HoldsIs
<1> SUFFICES ASSUME Types, Owner, Placed PROVE HoldsIs
  OBVIOUS
<1>1. ASSUME NEW u \in Uses, my[u] \in valid
      PROVE  my[u] # None /\ slock[my[u]] = u <=> pc[u] \in Holding
  <2>1. my[u] \in Bufs /\ my[u] # None /\ u # None
    BY <1>1, Consts, ZenonT(60) DEF Types
  <2>2. slock[my[u]] = u => pc[u] \in Holding
    BY <2>1 DEF Owner
  <2> QED
    BY <2>1, <2>2 DEF Owner
<1>2. Holds = [u \in Uses |-> IF pc[u] \in Holding /\ my[u] \in valid THEN want[u] ELSE NoBlock]
  BY <1>1 DEF Holds
<1>3. \A u \in Uses : pc[u] \in Holding => my[u] # None
  BY DEF Owner, Holding
<1>4. \A u \in Uses : pc[u] \in Holding => want[u] \in Blocks /\ my[u] \in Bufs /\ blockno[my[u]] = want[u]
  BY <1>3 DEF Types, Placed
<1>5. ASSUME NEW u \in Uses, NEW q \in Uses, pc[u] \in Holding, pc[q] \in Holding, want[u] = want[q]
      PROVE  u = q
  <2>1. /\ my[u] \in Bufs /\ my[q] \in Bufs /\ blockno[my[u]] = blockno[my[q]]
        /\ blockno[my[u]] # NoBlock
    BY <1>4, <1>5, Consts
  <2>2. my[u] = my[q]
    BY <2>1 DEF Placed
  <2> QED
    BY <1>5, <2>2, HeldOnce
<1> QED
  BY <1>2, <1>4, <1>5 DEF HoldsIs

(* Both in every state. *)
LEMMA Mapped == Core => StoreIs /\ HoldsIs
BY StoreOf, HoldsOf DEF Core

(* The abstract store does not change when its value for each block does not. *)
LEMMA SameStore ==
  ASSUME Store = [bn \in Blocks |-> Store[bn]], Store' = [bn \in Blocks |-> Store'[bn]],
         \A bn \in Blocks : Store'[bn] = Store[bn]
  PROVE  Store' = Store
OBVIOUS

(* bget changes neither: what it takes out of a recycled buffer, the disk has. *)
LEMMA BgetMaps ==
  ASSUME Core, Core', Clean, NEW u \in Uses, NEW bn \in Blocks, NEW b \in Bufs,
         Took(u, bn, b), Hit(bn, b) \/ Recycled(bn, b),
         Recycled(bn, b) => \A q \in Uses : my[q] # b
  PROVE  Clean' /\ UNCHANGED <<Store, Holds>>
<1>0. Types /\ Owner /\ Placed
  BY DEF Core
<1>1. Took(u, bn, b) /\ (Hit(bn, b) \/ Recycled(bn, b))
  OBVIOUS
<1>2. Recycled(bn, b) => \A q \in Uses : my[q] # b
  OBVIOUS
<1>3. StoreIs /\ StoreIs' /\ HoldsIs /\ HoldsIs'
  BY Mapped, PTL
<1>5. Clean'
  <2>1. CASE Hit(bn, b)
    BY <1>1, <2>1 DEF Clean, Took, Hit
  <2>2. CASE Recycled(bn, b)
    BY <1>0, <1>1, <2>2 DEF Types, Clean, Took, Recycled
  <2> QED
    BY <1>1, <2>1, <2>2
<1>6. Store' = Store
  <2>1. CASE Hit(bn, b)
    BY <1>1, <2>1 DEF Store, Took, Hit
  <2>2. CASE Recycled(bn, b)
    <3> SUFFICES ASSUME NEW k \in Blocks PROVE Store'[k] = Store[k]
      BY <1>3, SameStore DEF StoreIs
    <3>1. CASE \E c \in valid' : blockno'[c] = k
      <4>1. PICK c \in valid' : blockno'[c] = k
        BY <3>1
      <4>2. c \in valid /\ blockno[c] = k /\ data'[c] = data[c]
        BY <1>0, <1>1, <2>2, <4>1 DEF Types, Took, Recycled
      <4> QED
        BY <1>3, <4>1, <4>2 DEF StoreIs
    <3>2. CASE \A c \in valid' : blockno'[c] # k
      <4>1. Store'[k] = disk[k]
        BY <1>1, <1>3, <3>2 DEF Took, StoreIs
      <4>2. \A c \in valid : blockno[c] = k => c = b
        BY <1>0, <1>1, <2>2, <3>2 DEF Types, Took, Recycled
      <4>3. CASE b \in valid /\ blockno[b] = k
        BY <1>3, <2>2, <4>1, <4>3 DEF Clean, Recycled, StoreIs
      <4>4. CASE ~(b \in valid /\ blockno[b] = k)
        BY <1>3, <4>1, <4>2, <4>4 DEF StoreIs
      <4> QED
        BY <4>3, <4>4
    <3> QED
      BY <3>1, <3>2, ZenonT(60)
  <2> QED
    BY <1>1, <2>1, <2>2
<1>7. Holds' = Holds
  <2>1. /\ Holds = [q \in Uses |-> IF pc[q] \in Holding /\ my[q] \in valid THEN want[q] ELSE NoBlock]
        /\ Holds' = [q \in Uses |-> IF pc'[q] \in Holding /\ my'[q] \in valid' THEN want'[q] ELSE NoBlock]
    BY <1>3, ZenonT(60) DEF HoldsIs
  <2>2. pc[u] \notin Holding /\ pc'[u] \notin Holding
    BY <1>0, <1>1 DEF Types, Took, Holding
  <2>3. \A q \in Uses \ {u} : pc'[q] = pc[q] /\ my'[q] = my[q] /\ want'[q] = want[q]
    BY <1>0, <1>1 DEF Types, Took
  <2>4. \A q \in Uses : my[q] \in valid' <=> my[q] \in valid
    BY <1>1, <1>2 DEF Hit, Recycled
  <2> QED
    BY <2>1, <2>2, <2>3, <2>4
<1> QED
  BY <1>5, <1>6, <1>7

(* A step that leaves the buffers and the disk alone. *)
LEMMA QuietStore ==
  ASSUME Clean, UNCHANGED <<blockno, data, valid, dirty, disk>>
  PROVE  Clean' /\ Store' = Store
BY DEF Clean, Store

(* bget that panics changes nothing of the store. *)
LEMMA NoBuffersMaps ==
  ASSUME Core, Core', Clean, NEW u \in Uses, NEW bn \in Blocks,
         pc[u] = "out", pc' = [pc EXCEPT ![u] = "nobufs"],
         want' = [want EXCEPT ![u] = bn],
         UNCHANGED <<blockno, data, valid, dirty, disk, my>>
  PROVE  Clean' /\ UNCHANGED <<Store, Holds>>
<1>0. Types /\ HoldsIs /\ HoldsIs'
  BY Mapped, PTL DEF Core
<1>1. Clean' /\ Store' = Store
  BY QuietStore
<1>2. \A q \in Uses \ {u} : pc'[q] = pc[q] /\ want'[q] = want[q]
  BY <1>0 DEF Types
<1>3. pc'[u] = "nobufs"
  BY <1>0 DEF Types
<1>4. \A q \in Uses : /\ pc'[q] \in Holding <=> pc[q] \in Holding
                      /\ pc[q] \in Holding => my'[q] = my[q] /\ want'[q] = want[q]
  BY <1>2, <1>3, ZenonT(60) DEF Holding
<1>5. Holds' = Holds
  <2>1. valid' = valid
    OBVIOUS
  <2>2. \A q \in Uses :
          (IF pc'[q] \in Holding /\ my'[q] \in valid' THEN want'[q] ELSE NoBlock)
            = (IF pc[q] \in Holding /\ my[q] \in valid THEN want[q] ELSE NoBlock)
    BY <1>4, <2>1, ZenonT(60)
  <2> QED
    BY <1>0, <2>2 DEF HoldsIs
<1> QED
  BY <1>1, <1>5

(* Inside brelse, iderw and the wait for the lock no block changes hands. *)
LEMMA QuietMaps ==
  ASSUME Core, Core', Clean, NEW u \in Uses, brelse(u) \/ iderw(u) \/ IoTest(u)
  PROVE  Clean' /\ UNCHANGED <<Store, Holds>>
<1>0. Types /\ Owner /\ Queued /\ HoldsIs /\ HoldsIs'
  BY Mapped, PTL DEF Core
<1>1. UNCHANGED <<blockno, data, valid, dirty, disk>>
  BY DEF brelse, iderw, IoTest
<1>2. Clean' /\ Store' = Store
  BY <1>1, QuietStore
<1>3. /\ \A q \in Uses \ {u} : pc'[q] = pc[q] /\ my'[q] = my[q] /\ want'[q] = want[q]
      /\ \/ pc[u] = "brelse" /\ pc'[u] = "out"
         \/ pc[u] \in {"iderw", "iotest"} /\ pc'[u] \in {"panic", "iosleep", "held"} /\ my'[u] = my[u] /\ want'[u] = want[u]
  BY <1>0 DEF Types, brelse, iderw, IoTest
<1>4. Types'
  BY DEF Core
<1>5. pc'[u] # "panic"
  BY <1>4, ZenonT(60) DEF Types, Holding
<1>6. \A q \in Uses : /\ pc'[q] \in Holding <=> pc[q] \in Holding
                      /\ pc[q] \in Holding => my'[q] = my[q] /\ want'[q] = want[q]
  BY <1>3, <1>5, ZenonT(60) DEF Holding
<1>7. Holds' = Holds
  BY <1>0, <1>1, <1>6, ZenonT(60) DEF HoldsIs
<1> QED
  BY <1>2, <1>7

(* acquiresleep of a valid buffer gives u its block. *)
LEMMA AcquiresleepMaps ==
  ASSUME Core, Core', Clean, NEW u \in Uses, acquiresleep(u)
  PROVE  Clean' /\ [Abs!Next]_<<Store, Holds>>
<1>0. Types /\ HoldsIs /\ HoldsIs'
  BY Mapped, PTL DEF Core
<1>1. pc[u] = "lock" /\ UNCHANGED <<blockno, data, valid, dirty, disk, my, want>>
  BY DEF acquiresleep
<1>2. Clean' /\ Store' = Store
  BY <1>1, QuietStore
<1>3. \A q \in Uses \ {u} : pc'[q] = pc[q]
  BY <1>0 DEF Types, acquiresleep
<1>4. pc[u] \notin Holding
  BY <1>1 DEF Holding
<1>5. CASE pc'[u] \in Holding /\ my[u] \in valid
  <2>1. Holds' = [Holds EXCEPT ![u] = want[u]]
    BY <1>0, <1>1, <1>3, <1>5, ZenonT(60) DEF HoldsIs
  <2>2. Holds[u] = NoBlock
    BY <1>0, <1>4, ZenonT(60) DEF HoldsIs
  <2>3. want[u] \in Blocks
    <3>1. \A q \in Uses : pc'[q] \in Holding => want'[q] \in Blocks
      BY <1>0, ZenonT(60) DEF HoldsIs
    <3> QED
      BY <1>1, <1>5, <3>1
  <2>4. \A q \in Uses : Holds[q] # want[u]
    <3> SUFFICES ASSUME NEW q \in Uses, Holds[q] = want[u] PROVE FALSE
      OBVIOUS
    <3>1. q # u
      BY <2>2, <2>3, Consts
    <3>2. pc[q] \in Holding /\ want[q] = want[u]
      BY <1>0, <2>3, Consts DEF HoldsIs
    <3>3. pc'[q] \in Holding /\ want'[q] = want'[u]
      BY <1>1, <1>3, <3>1, <3>2
    <3> QED
      BY <1>0, <1>5, <3>1, <3>3, ZenonT(60) DEF HoldsIs
  <2>5. Abs!Take(u, want[u])
    BY <1>2, <2>1, <2>2, <2>4 DEF Abs!Take
  <2> QED
    BY <1>2, <2>3, <2>5 DEF Abs!Next
<1>6. CASE ~(pc'[u] \in Holding /\ my[u] \in valid)
  <2>1. Holds' = Holds
    BY <1>0, <1>1, <1>3, <1>4, <1>6, ZenonT(60) DEF HoldsIs
  <2> QED
    BY <1>2, <2>1
<1> QED
  BY <1>5, <1>6

(* bwrite and log_write change the block that the caller holds. *)
LEMMA ChangeMaps ==
  ASSUME Core, Core', Clean, NEW u \in Uses, NEW v \in Val, bwrite(u, v) \/ log_write(u, v)
  PROVE  Clean' /\ [Abs!Next]_<<Store, Holds>>
<1>0. Types /\ Placed /\ Queued /\ StoreIs /\ StoreIs' /\ HoldsIs /\ HoldsIs'
  BY Mapped, PTL DEF Core
<1>1. /\ pc[u] = "held" /\ data' = [data EXCEPT ![my[u]] = v] /\ dirty' = dirty \cup {my[u]}
      /\ UNCHANGED <<blockno, valid, disk, my, want>>
  BY DEF bwrite, log_write
<1>2. /\ \A q \in Uses \ {u} : pc'[q] = pc[q]
      /\ pc'[u] \in {"held", "iderw"}
  BY <1>0, <1>1 DEF Types, bwrite, log_write
<1>3. my[u] \in valid /\ my[u] \in Bufs /\ pc[u] \in Holding
  BY <1>0, <1>1 DEF Types, Queued, Holding
<1>4. \A q \in Uses : pc'[q] \in Holding <=> pc[q] \in Holding
  BY <1>2, <1>3 DEF Holding
<1>5. Holds' = Holds
  BY <1>0, <1>1, <1>4, ZenonT(60) DEF HoldsIs
<1>6. Holds[u] = want[u] /\ want[u] \in Blocks /\ blockno[my[u]] = want[u]
  BY <1>0, <1>3, ZenonT(60) DEF HoldsIs
<1>7. Store' = [Store EXCEPT ![want[u]] = v]
  <2>1. Store'[want[u]] = v
    BY <1>0, <1>1, <1>3, <1>6 DEF Types, StoreIs
  <2>2. ASSUME NEW k \in Blocks \ {want[u]} PROVE Store'[k] = Store[k]
    <3>1. CASE \E c \in valid : blockno[c] = k
      <4>1. PICK c \in valid : blockno[c] = k
        BY <3>1
      <4>2. data'[c] = data[c]
        BY <1>0, <1>1, <1>6, <4>1 DEF Types
      <4> QED
        BY <1>0, <1>1, <4>1, <4>2 DEF StoreIs
    <3>2. CASE \A c \in valid : blockno[c] # k
      BY <1>0, <1>1, <3>2 DEF StoreIs
    <3> QED
      BY <3>1, <3>2
  <2>3. Store = [k \in Blocks |-> Store[k]] /\ Store' = [k \in Blocks |-> Store'[k]]
    BY <1>0 DEF StoreIs
  <2> QED
    BY <1>6, <2>1, <2>2, <2>3
<1>8. Clean'
  BY <1>0, <1>1, <1>3 DEF Types, Clean
<1>9. Abs!Change(u, v)
  BY <1>5, <1>6, <1>7, Consts DEF Abs!Change
<1> QED
  BY <1>8, <1>9 DEF Abs!Next

(* releasesleep gives the block back. *)
LEMMA ReleasesleepMaps ==
  ASSUME Core, Core', Clean, NEW u \in Uses, releasesleep(u)
  PROVE  Clean' /\ [Abs!Next]_<<Store, Holds>>
<1>0. Types /\ Queued /\ HoldsIs /\ HoldsIs'
  BY Mapped, PTL DEF Core
<1>1. pc[u] = "held" /\ UNCHANGED <<blockno, data, valid, dirty, disk, my, want>>
  BY DEF releasesleep
<1>2. Clean' /\ Store' = Store
  BY <1>1, QuietStore
<1>3. \A q \in Uses : pc'[q] = IF q = u THEN "brelse"
                               ELSE IF pc[q] = "asleep" /\ my[q] = my[u] THEN "lock" ELSE pc[q]
  BY <1>0 DEF Types, releasesleep, WakeLock, Wake
<1>4. \A q \in Uses : pc'[q] \in Holding <=> pc[q] \in Holding /\ q # u
  BY <1>3 DEF Holding
<1>5. Holds' = [Holds EXCEPT ![u] = NoBlock]
  BY <1>0, <1>1, <1>4 DEF HoldsIs
<1>6. Holds[u] # NoBlock
  <2>1. pc[u] \in Holding /\ my[u] \in valid
    BY <1>0, <1>1 DEF Queued, Holding
  <2> QED
    BY <1>0, <2>1, Consts DEF HoldsIs
<1>7. Abs!Drop(u)
  BY <1>2, <1>5, <1>6 DEF Abs!Drop
<1> QED
  BY <1>2, <1>7 DEF Abs!Next

(* The end of a write leaves every block as it is; the end of a read gives *)
(* the block to the process that waits for it.                             *)
LEMMA IdeintrMaps ==
  ASSUME Core, Core', Clean, NoErrors, ideintr
  PROVE  Clean' /\ [Abs!Next]_<<Store, Holds>>
<1>0. Types /\ Owner /\ Placed /\ Queued /\ StoreIs /\ StoreIs' /\ HoldsIs /\ HoldsIs'
  BY Mapped, PTL DEF Core
<1> DEFINE b == Head(idequeue)
<1>1. b \in Bufs /\ ctl = idestart(b)
  BY AtDisk
<1>2. PICK u \in Uses : pc[u] = "iosleep" /\ my[u] = b
  BY AtDisk
<1>3. /\ disk' = (IF ctl.write THEN [disk EXCEPT ![ctl.blk] = ctl.val] ELSE disk)
      /\ data' = (IF b \in dirty THEN data ELSE [data EXCEPT ![b] = ReadData(b)])
      /\ valid' = valid \cup {b} /\ dirty' = dirty \ {b}
      /\ pc' = Wake(pc, b, "iosleep", "iotest")
      /\ UNCHANGED <<blockno, my, want>>
  BY DEF ideintr
<1> HIDE DEF b
<1>4. pc[u] \in Holding /\ blockno[b] = want[u] /\ want[u] \in Blocks /\ ~Done(b)
  BY <1>0, <1>2, ZenonT(60) DEF HoldsIs, Holding, Queued
<1>5. \A q \in Uses : pc'[q] \in Holding <=> pc[q] \in Holding
  BY <1>3, ZenonT(60) DEF Wake, Holding
<1>6. CASE b \in dirty
  <2>1. /\ b \in valid /\ valid' = valid /\ data' = data
        /\ disk' = [disk EXCEPT ![want[u]] = data[b]]
    BY <1>0, <1>1, <1>3, <1>4, <1>6, ZenonT(60) DEF Types, idestart
  <2>2. \A c \in valid : c # b => blockno[c] # want[u] /\ blockno[c] \in Blocks
    BY <1>0, <1>1, <1>4, Consts DEF Types, Placed
  <2>3. \A k \in Blocks : disk'[k] = IF k = want[u] THEN data[b] ELSE disk[k]
    BY <1>0, <2>1 DEF Types
  <2>4. Clean'
    BY <1>3, <1>4, <2>1, <2>2, <2>3, ZenonT(60) DEF Clean
  <2>5. ASSUME NEW k \in Blocks PROVE Store'[k] = Store[k]
    <3>1. CASE \E c \in valid : blockno[c] = k
      BY <1>0, <1>3, <2>1, <3>1 DEF StoreIs
    <3>2. CASE \A c \in valid : blockno[c] # k
      <4>1. k # want[u]
        BY <1>4, <2>1, <3>2
      <4> QED
        BY <1>0, <1>3, <2>1, <2>3, <3>2, <4>1 DEF StoreIs
    <3> QED
      BY <3>1, <3>2
  <2>6. Store' = Store
    BY <1>0, <2>5, SameStore DEF StoreIs
  <2>7. Holds' = Holds
    BY <1>0, <1>3, <1>5, <2>1, ZenonT(60) DEF HoldsIs
  <2> QED
    BY <2>4, <2>6, <2>7
<1>7. CASE b \notin dirty
  <2>1. b \notin valid
    BY <1>4, <1>7 DEF Done
  <2>2. ReadData(b) = disk[want[u]]
    BY <1>1, <1>4 DEF NoErrors, ReadData, idestart
  <2>3. disk' = disk /\ data' = [data EXCEPT ![b] = disk[want[u]]] /\ dirty' = dirty
    BY <1>1, <1>3, <1>7, <2>2, ZenonT(60) DEF idestart
  <2>4. \A c \in valid : c # b /\ c \in Bufs /\ data'[c] = data[c] /\ blockno[c] # want[u]
    <3>1. \A c \in valid : c # b /\ c \in Bufs
      BY <1>0, <2>1 DEF Types
    <3>2. \A c \in valid : data'[c] = data[c]
      BY <1>0, <2>3, <3>1 DEF Types
    <3>3. \A c \in valid : blockno[c] # want[u]
      <4>1. blockno[b] # NoBlock
        BY <1>4, Consts
      <4>2. \A c, d \in Bufs : blockno[c] = blockno[d] /\ blockno[c] # NoBlock => c = d
        BY <1>0 DEF Placed
      <4> QED
        BY <1>1, <1>4, <3>1, <4>1, <4>2
    <3> QED
      BY <3>1, <3>2, <3>3
  <2>5. data'[b] = disk[want[u]] /\ disk[want[u]] \in Val
    BY <1>0, <1>1, <1>4, <2>3 DEF Types
  <2>6. Clean'
    BY <1>3, <1>4, <2>3, <2>4, <2>5 DEF Clean
  <2>7. ASSUME NEW k \in Blocks PROVE Store'[k] = Store[k]
    <3>1. CASE k = want[u]
      <4>1. Store'[k] = data'[b]
        BY <1>0, <1>3, <1>4, <3>1 DEF StoreIs
      <4>2. Store[k] = disk[k]
        BY <1>0, <2>4, <3>1 DEF StoreIs
      <4> QED
        BY <2>5, <3>1, <4>1, <4>2
    <3>2. CASE k # want[u] /\ \E c \in valid : blockno[c] = k
      <4>1. PICK c \in valid : blockno[c] = k
        BY <3>2
      <4>2. Store'[k] = data'[c] /\ Store[k] = data[c]
        BY <1>0, <1>3, <4>1 DEF StoreIs
      <4> QED
        BY <2>4, <4>1, <4>2
    <3>3. CASE k # want[u] /\ \A c \in valid : blockno[c] # k
      <4>1. \A c \in valid' : blockno'[c] # k
        BY <1>3, <1>4, <3>3
      <4> QED
        BY <1>0, <2>3, <3>3, <4>1 DEF StoreIs
    <3> QED
      BY <3>1, <3>2, <3>3
  <2>8. Store' = Store
    BY <1>0, <2>7, SameStore DEF StoreIs
  <2>9. \A q \in Uses \ {u} : pc[q] \in Holding => my[q] # b
    BY <1>0, <1>2, <1>4, HeldOnce
  <2>10. Holds' = [Holds EXCEPT ![u] = want[u]]
    <3>1. \A q \in Uses : pc'[q] \in Holding /\ my[q] \in valid' <=>
                             q = u \/ (pc[q] \in Holding /\ my[q] \in valid)
      BY <1>2, <1>3, <1>4, <1>5, <2>9, ZenonT(60)
    <3>2. /\ Holds = [q \in Uses |-> IF pc[q] \in Holding /\ my[q] \in valid THEN want[q] ELSE NoBlock]
          /\ Holds' = [q \in Uses |-> IF pc'[q] \in Holding /\ my[q] \in valid' THEN want[q] ELSE NoBlock]
      BY <1>0, <1>3, ZenonT(60) DEF HoldsIs
    <3> QED
      BY <3>1, <3>2
  <2>11. Holds[u] = NoBlock
    BY <1>0, <1>2, <2>1 DEF HoldsIs
  <2>12. \A q \in Uses : Holds[q] # want[u]
    BY <1>0, <1>4, <2>11, Consts, ZenonT(60) DEF HoldsIs
  <2>13. Abs!Take(u, want[u])
    BY <2>8, <2>10, <2>11, <2>12 DEF Abs!Take
  <2> QED
    BY <1>4, <2>6, <2>13 DEF Abs!Next
<1> QED
  BY <1>6, <1>7

(* Before the first bread, the store is the disk and nobody holds a block. *)
LEMMA InitMaps == Init => Abs!Init
<1> SUFFICES ASSUME Init PROVE Abs!Init
  OBVIOUS
<1>1. Store = disk
  BY DEF Init, Store
<1>2. Holds = [u \in Uses |-> NoBlock]
  BY DEF Init, Holds
<1> QED
  BY <1>1, <1>2 DEF Abs!Init, Init
=============================================================================
