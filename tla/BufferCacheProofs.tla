------------------------- MODULE BufferCacheProofs -------------------------
(***************************************************************************)
(* Proofs about BufferCache, for every number of processes, blocks and     *)
(* buffers: the counting, and the theorems.                                *)
(***************************************************************************)
EXTENDS BufferCacheSteps, FiniteSetTheorems, WellFoundedInduction

(* bget finds no buffer, and panics. *)
Exhausted(u, bn) ==
  /\ pc[u] = "out" /\ pc' = [pc EXCEPT ![u] = "nobufs"]
  /\ want' = [want EXCEPT ![u] = bn]
  /\ UNCHANGED <<lru, blockno, refcnt, data, valid, dirty, slock, idequeue, ctl, disk, my>>

USE SMTT(60), ZenonT(60) DEF vars, bufs, flags, ide, local, Goto

(* There are finitely many processes with a buffer. *)
LEMMA UsesFinite == IsFiniteSet(Uses)
<1>1. IsFiniteSet({1, 2})
  <2>1. IsFiniteSet({1})
    BY FS_Singleton
  <2>2. {1, 2} = {1} \cup {2}
    OBVIOUS
  <2> QED
    BY <2>1, <2>2, FS_AddElement
<1> QED
  BY <1>1, BufferAssumption, FS_Product DEF Uses

(* A set of natural numbers has a least one. *)
LEMMA LeastNat ==
  ASSUME NEW N, N \subseteq Nat, N # {}
  PROVE  \E n \in N : \A k \in N : n <= k
<1>1. PICK n \in N : \A k \in N : <<k, n>> \notin OpToRel(<, Nat)
  BY WFMin, NatLessThanWellFounded
<1>2. \A k \in N : k < n => <<k, n>> \in OpToRel(<, Nat)
  BY DEF OpToRel
<1>3. \A k \in N : ~(k < n)
  BY <1>1, <1>2
<1> QED
  BY <1>3

(* A search of bcache's list from its head, or from its tail, finds a buffer *)
(* of the set it looks for if there is one.                                  *)
LEMMA Search ==
  ASSUME Types, NEW S \in SUBSET Bufs, S # {}
  PROVE  FirstIn(S) \in S /\ LastIn(S) \in S
<1> DEFINE K == {k \in Bufs : lru[k] \in S}
<1>1. K # {} /\ K \subseteq Nat
  <2>1. PICK b \in S : TRUE
    OBVIOUS
  <2>2. PICK k \in Bufs : lru[k] = b
    BY DEF Types
  <2> QED
    BY <2>2, Consts, ZenonT(60)
<1>2. \E k \in Bufs : lru[k] \in S /\ \A j \in 1..(k - 1) : lru[j] \notin S
  <2>1. PICK k \in K : \A j \in K : k <= j
    BY <1>1, LeastNat, ZenonT(60)
  <2>2. \A j \in 1..(k - 1) : j \in Bufs
    BY Consts DEF Bufs
  <2>3. \A j \in 1..(k - 1) : lru[j] \notin S
    BY <2>1, <2>2, Consts DEF Bufs
  <2> QED
    BY <2>3
<1>3. \E k \in Bufs : lru[k] \in S /\ \A j \in (k + 1)..NBUF : lru[j] \notin S
  <2> DEFINE M == {NBUF - k : k \in K}
  <2>1. M # {} /\ M \subseteq Nat
    BY <1>1, Consts DEF Bufs
  <2> HIDE DEF M
  <2>2. PICK m \in M : \A l \in M : m <= l
    BY <2>1, LeastNat, ZenonT(60)
  <2>3. PICK k \in K : m = NBUF - k
    BY DEF M
  <2>4. \A j \in K : NBUF - k <= NBUF - j
    BY <2>2, <2>3 DEF M
  <2>5. \A j \in (k + 1)..NBUF : j \in Bufs /\ j > k
    BY Consts DEF Bufs
  <2>6. \A j \in (k + 1)..NBUF : lru[j] \notin S
    <3> SUFFICES ASSUME NEW j \in (k + 1)..NBUF, lru[j] \in S PROVE FALSE
      OBVIOUS
    <3>1. NBUF - k <= NBUF - j
      BY <2>4, <2>5
    <3> QED
      BY <3>1, <2>5, Consts DEF Bufs
  <2> QED
    BY <2>6
<1>4. FirstIn(S) \in S
  BY <1>2 DEF FirstIn
<1>5. LastIn(S) \in S
  BY <1>3 DEF LastIn
<1> QED
  BY <1>4, <1>5

(* The users of a buffer are counted. *)
LEMMA UsersCount ==
  ASSUME NEW b \in Bufs
  PROVE  /\ IsFiniteSet(Users(b)) /\ Cardinality(Users(b)) \in Nat
         /\ Cardinality(Users(b)) = 0 <=> \A u \in Uses : my[u] # b
<1>1. IsFiniteSet(Users(b))
  BY UsesFinite, FS_Subset DEF Users
<1>2. Cardinality(Users(b)) = 0 <=> Users(b) = {}
  BY <1>1, FS_EmptySet
<1> QED
  BY <1>1, <1>2, FS_CardinalityType DEF Users

(* bget is left without a buffer only if all are in hand or pinned. *)
LEMMA BufferLeft ==
  ASSUME IInv, Recyclable = {}
  PROVE  NBUF <= Cardinality({u \in Uses : my[u] # None}) + MAXPIN
<1> DEFINE U == {u \in Uses : my[u] # None}
           T == {b \in Bufs : \E u \in Uses : my[u] = b}
           D == dirty \ Busy
<1>0. Types /\ Counted /\ Pins
  BY DEF IInv, Core
<1>1. Bufs \subseteq T \cup D
  <2> SUFFICES ASSUME NEW b \in Bufs, b \notin T PROVE b \in dirty /\ b \notin Busy
    OBVIOUS
  <2>1. \A u \in Uses : my[u] # b
    OBVIOUS
  <2>2. refcnt[b] = 0
    BY <1>0, <2>1, UsersCount DEF Counted
  <2> QED
    BY <2>1, <2>2 DEF Recyclable, Busy
<1>2. IsFiniteSet(Bufs) /\ Cardinality(Bufs) = NBUF
  BY Consts, FS_Interval DEF Bufs
<1>3. IsFiniteSet(U)
  BY UsesFinite, FS_Subset
<1>4. IsFiniteSet(T) /\ Cardinality(T) <= Cardinality(U)
  <2>1. [u \in U |-> my[u]] \in Surjection(U, T)
    BY <1>0, Consts, ZenonT(60) DEF Surjection, Types
  <2> QED
    BY <1>3, <2>1, FS_Surjection
<1>5. IsFiniteSet(D)
  BY <1>0, <1>2, FS_Subset DEF Types
<1>6. Cardinality(D) <= MAXPIN
  BY <1>0 DEF Pins
<1> HIDE DEF T, U, D
<1>7. /\ IsFiniteSet(T \cup D)
      /\ Cardinality(T \cup D) = Cardinality(T) + Cardinality(D) - Cardinality(T \cap D)
  BY <1>4, <1>5, FS_Union
<1>8. Cardinality(Bufs) <= Cardinality(T \cup D)
  BY <1>1, <1>7, FS_Subset
<1>9. /\ Cardinality(T) \in Nat /\ Cardinality(U) \in Nat
      /\ Cardinality(D) \in Nat /\ Cardinality(T \cap D) \in Nat
  BY <1>3, <1>4, <1>5, FS_CardinalityType, FS_Intersection, ZenonT(60)
<1>10. NBUF <= Cardinality(U) + MAXPIN
  BY <1>2, <1>4, <1>6, <1>7, <1>8, <1>9, Consts
<1> QED
  BY <1>10 DEF U

(* These are the three things bget does. *)
LEMMA BgetTakes ==
  ASSUME IInv, NEW u \in Uses, NEW bn \in Blocks, bget(u, bn)
  PROVE  \/ \E b \in Bufs : Took(u, bn, b) /\ (Hit(bn, b) \/ Recycled(bn, b))
         \/ Exhausted(u, bn)
<1>0. Types
  BY DEF IInv, Core
<1>3. CASE Cached(bn) # {}
  <2>1. FirstIn(Cached(bn)) \in Cached(bn)
    BY <1>0, <1>3, Search DEF Cached
  <2>2. FirstIn(Cached(bn)) \in Bufs /\ blockno[FirstIn(Cached(bn))] = bn
    BY <2>1 DEF Cached
  <2> QED
    BY <1>3, <2>2 DEF bget, Took, Hit
<1>4. CASE Cached(bn) = {} /\ Recyclable # {}
  <2> DEFINE b == LastIn(Recyclable)
  <2>1. b \in Recyclable
    BY <1>0, <1>4, Search DEF Recyclable
  <2>2. b \in Bufs /\ refcnt[b] = 0 /\ b \notin dirty
    BY <2>1 DEF Recyclable
  <2>3. \A c \in Bufs : blockno[c] # bn
    BY <1>4 DEF Cached
  <2>4. /\ blockno' = [blockno EXCEPT ![b] = bn]
        /\ valid' = valid \ {b} /\ dirty' = dirty \ {b}
        /\ refcnt' = [refcnt EXCEPT ![b] = 1]
        /\ my' = [my EXCEPT ![u] = b]
        /\ Goto(u, "lock")
    BY <1>4 DEF bget
  <2>5. Took(u, bn, b)
    BY <2>4 DEF bget, Took
  <2> HIDE DEF b
  <2>6. Recycled(bn, b)
    BY <2>2, <2>3, <2>4 DEF Recycled
  <2> QED
    BY <2>2, <2>5, <2>6
<1>5. CASE Cached(bn) = {} /\ Recyclable = {}
  BY <1>5 DEF bget, Exhausted
<1> QED
  BY <1>3, <1>4, <1>5

(* What leaves the pins as they are, or takes some away. *)
LEMMA FewerPins ==
  ASSUME Types, Pins, dirty' \ Busy' \subseteq dirty \ Busy
  PROVE  Pins'
<1>1. IsFiniteSet(dirty \ Busy)
  <2>1. IsFiniteSet(Bufs)
    BY Consts, FS_Interval DEF Bufs
  <2> QED
    BY <2>1, FS_Subset DEF Types
<1>2. /\ Cardinality(dirty' \ Busy') <= Cardinality(dirty \ Busy)
      /\ Cardinality(dirty' \ Busy') \in Nat /\ Cardinality(dirty \ Busy) \in Nat
  BY <1>1, FS_Subset, FS_CardinalityType
<1> QED
  BY <1>2, Consts DEF Pins

(* binit *)
LEMMA InitIInv == Init => IInv /\ Clean
<1> SUFFICES ASSUME Init PROVE IInv /\ Clean
  OBVIOUS
<1>1. Types
  <2>1. lru \in [Bufs -> Bufs]
    BY Consts DEF Init, Bufs
  <2>2. \A b \in Bufs : \E k \in Bufs : lru[k] = b
    <3> TAKE b \in Bufs
    <3>1. NBUF + 1 - b \in Bufs /\ NBUF + 1 - (NBUF + 1 - b) = b
      BY Consts DEF Bufs
    <3> QED
      BY <3>1 DEF Init
  <2> QED
    BY <2>1, <2>2 DEF Init, Types
<1>2. Owner
  BY DEF Init, Owner, Holding
<1>3. Placed
  BY DEF Init, Placed
<1>4. Counted
  <2>1. \A b \in Bufs : \A u \in Uses : my[u] # b
    BY Consts DEF Init
  <2> QED
    BY <2>1, UsersCount DEF Init, Counted
<1>5. Pins
  <2>1. dirty \ Busy = {}
    BY DEF Init
  <2> QED
    BY <2>1, FS_EmptySet, Consts DEF Pins
<1>6. Queued
  BY DEF Init, Queued
<1>7. DiskBusy
  BY DEF Init, DiskBusy
<1>8. Clean
  BY DEF Init, Clean
<1> QED
  BY <1>1, <1>2, <1>3, <1>4, <1>5, <1>6, <1>7, <1>8 DEF IInv, Core

(* A calm step keeps the counts and the pins. *)
LEMMA CalmStep ==
  ASSUME Types, Counted, Pins, Calm
  PROVE  Counted' /\ Pins'
BY FewerPins DEF Calm, Counted, Users

(* bget makes u a user of the block's buffer. *)
LEMMA BgetCounts ==
  ASSUME IInv, NEW u \in Uses, NEW bn \in Blocks, NEW b \in Bufs,
         Took(u, bn, b), Hit(bn, b) \/ Recycled(bn, b)
  PROVE  IInv'
<1>0. Core /\ Types /\ Owner /\ Counted /\ Pins
  BY DEF IInv, Core
<1>1. Took(u, bn, b) /\ (Hit(bn, b) \/ Recycled(bn, b))
  OBVIOUS
<1>2. my[u] = None
  BY <1>0, <1>1 DEF Owner, Took
<1>3. Recycled(bn, b) => \A q \in Uses : my[q] # b
  BY <1>0, UsersCount DEF Recycled, Counted
<1>4. Core' /\ dirty' \ Busy' \subseteq dirty \ Busy
  BY <1>0, <1>1, <1>3, BgetStep
<1>5. Pins'
  BY <1>0, <1>4, FewerPins
<1>6. Counted'
  <2>0. \A q \in Uses : my'[q] = IF q = u THEN b ELSE my[q]
    BY <1>0, <1>1 DEF Types, Took
  <2>1. {q \in Uses : my'[q] = b} = Users(b) \cup {u} /\ u \notin Users(b)
    BY <1>2, <2>0, Consts DEF Users
  <2>2. \A c \in Bufs \ {b} : {q \in Uses : my'[q] = c} = Users(c)
    BY <1>2, <2>0, Consts DEF Users
  <2>3. Cardinality(Users(b) \cup {u}) = Cardinality(Users(b)) + 1
    <3>1. IsFiniteSet(Users(b))
      BY UsersCount
    <3> QED
      BY <2>1, <3>1, FS_AddElement
  <2>r. /\ refcnt \in [Bufs -> Nat]
        /\ \/ refcnt' = [refcnt EXCEPT ![b] = @ + 1]
           \/ refcnt[b] = 0 /\ refcnt' = [refcnt EXCEPT ![b] = 1]
    BY <1>0, <1>1, ZenonT(60) DEF Types, Hit, Recycled
  <2>4. refcnt'[b] = refcnt[b] + 1
    BY <2>r
  <2>5. \A c \in Bufs \ {b} : refcnt'[c] = refcnt[c]
    BY <2>r
  <2>6. \A c \in Bufs : refcnt'[c] = Cardinality({q \in Uses : my'[q] = c})
    BY <1>0, <2>1, <2>2, <2>3, <2>4, <2>5 DEF Counted
  <2> QED
    BY <2>6 DEF Counted, Users
<1> QED
  BY <1>4, <1>5, <1>6 DEF IInv

(* bwrite pins nothing; log_write keeps to its bound. *)
LEMMA ChangeCounts ==
  ASSUME IInv, NEW u \in Uses, NEW v \in Val, bwrite(u, v) \/ log_write(u, v)
  PROVE  IInv'
<1>0. Core /\ Types /\ Counted /\ Pins
  BY DEF IInv, Core
<1>1. Core' /\ UNCHANGED <<my, refcnt>> /\ (bwrite(u, v) => Calm)
  BY <1>0, ChangeStep
<1>2. Counted'
  BY <1>0, <1>1 DEF Counted, Users
<1>3. CASE bwrite(u, v)
  BY <1>0, <1>1, <1>3, CalmStep DEF IInv
<1>4. CASE log_write(u, v)
  <2>1. Cardinality(dirty') <= MAXPIN
    BY <1>4 DEF log_write
  <2>2. IsFiniteSet(dirty')
    <3>1. IsFiniteSet(Bufs)
      BY Consts, FS_Interval DEF Bufs
    <3> QED
      BY <1>1, <3>1, FS_Subset DEF Core, Types
  <2>3. /\ Cardinality(dirty' \ Busy') <= Cardinality(dirty')
        /\ Cardinality(dirty' \ Busy') \in Nat /\ Cardinality(dirty') \in Nat
    BY <2>2, FS_Subset, FS_CardinalityType
  <2>4. Pins'
    BY <2>1, <2>3, Consts DEF Pins
  <2> QED
    BY <1>1, <1>2, <2>4 DEF IInv
<1> QED
  BY <1>3, <1>4

(* brelse makes u no user of the buffer. *)
LEMMA BrelseCounts ==
  ASSUME IInv, NEW u \in Uses, brelse(u)
  PROVE  IInv'
<1>0. Core /\ Types /\ Owner /\ Counted /\ Pins
  BY DEF IInv, Core
<1>1. /\ pc[u] = "brelse" /\ my' = [my EXCEPT ![u] = None]
      /\ refcnt' = [refcnt EXCEPT ![my[u]] = @ - 1]
  BY DEF brelse
<1>2. my[u] \in Bufs
  BY <1>0, <1>1, InHand
<1>3. /\ Cardinality(Users(my[u])) \in Nat \ {0} /\ refcnt[my[u]] = Cardinality(Users(my[u]))
      /\ Cardinality(Users(my[u]) \ {u}) = Cardinality(Users(my[u])) - 1
  <2>1. IsFiniteSet(Users(my[u])) /\ Cardinality(Users(my[u])) \in Nat /\ u \in Users(my[u])
    BY <1>2, UsersCount DEF Users
  <2>2. Cardinality(Users(my[u])) # 0
    BY <1>2, UsersCount
  <2>3. Cardinality(Users(my[u]) \ {u}) = Cardinality(Users(my[u])) - 1
    BY <2>1, FS_RemoveElement
  <2> QED
    BY <1>0, <1>2, <2>1, <2>2, <2>3 DEF Counted
<1>4. Core' /\ dirty' \ Busy' \subseteq dirty \ Busy
  BY <1>0, <1>3, BrelseStep
<1>5. Pins'
  BY <1>0, <1>4, FewerPins
<1>6. Counted'
  <2>1. \A b \in Bufs : {q \in Uses : my'[q] = b} = Users(b) \ {u}
    BY <1>0, <1>1, Consts DEF Types, Users
  <2>2. \A b \in Bufs : b # my[u] => Users(b) \ {u} = Users(b) /\ refcnt'[b] = refcnt[b]
    BY <1>0, <1>1 DEF Types, Users
  <2>3. refcnt'[my[u]] = refcnt[my[u]] - 1
    BY <1>0, <1>1, <1>2 DEF Types
  <2>4. \A b \in Bufs : refcnt'[b] = Cardinality(Users(b) \ {u})
    BY <1>0, <1>3, <2>2, <2>3, ZenonT(60) DEF Counted
  <2> QED
    BY <2>1, <2>4 DEF Counted, Users
<1> QED
  BY <1>4, <1>5, <1>6 DEF IInv

(* Every step keeps the invariant. *)
LEMMA NextIInv ==
  ASSUME IInv, [Next]_vars
  PROVE  IInv'
<1>0. Core /\ Types /\ Counted /\ Pins
  BY DEF IInv, Core
<1>1. ASSUME NEW u \in Uses, NEW bn \in Blocks, bget(u, bn) PROVE IInv'
  <2>1. CASE \E b \in Bufs : Took(u, bn, b) /\ (Hit(bn, b) \/ Recycled(bn, b))
    BY <2>1, BgetCounts
  <2>2. CASE Exhausted(u, bn)
    BY <1>0, <2>2, NoBuffersStep, CalmStep DEF Exhausted, IInv
  <2> QED
    BY <1>1, <2>1, <2>2, BgetTakes
<1>2. ASSUME NEW u \in Uses, brelse(u) PROVE IInv'
  BY <1>2, BrelseCounts
<1>3. ASSUME NEW u \in Uses, NEW v \in Val, bwrite(u, v) \/ log_write(u, v) PROVE IInv'
  BY <1>3, ChangeCounts
<1>4. ASSUME Core', Calm PROVE IInv'
  BY <1>0, <1>4, CalmStep DEF IInv
<1>5. ASSUME NEW u \in Uses, acquiresleep(u) \/ iderw(u) \/ IoTest(u) \/ releasesleep(u) PROVE IInv'
  BY <1>0, <1>4, <1>5, AcquiresleepStep, IderwStep, IoTestStep, ReleasesleepStep
<1>6. CASE ideintr
  BY <1>0, <1>4, <1>6, IdeintrStep
<1>7. CASE UNCHANGED vars
  BY <1>0, <1>4, <1>7, IdleStep
<1> QED
  BY <1>1, <1>2, <1>3, <1>5, <1>6, <1>7 DEF Next, Inside

(* The invariant of the cache, its locks and the disk queue. *)
LEMMA BufferInvariant == Spec => []IInv
<1>1. IInv /\ [Next]_vars => IInv'
  BY NextIInv
<1>2. Init => IInv
  BY InitIInv
<1> QED
  BY <1>1, <1>2, PTL DEF Spec

(* iderw does not panic, and bget only when the buffers in hand and those   *)
(* that log_write pins take up all NBUF.                                    *)
THEOREM BufferNoPanic == Spec => []NoPanic
<1>1. IInv => NoPanic
  <2>1. IInv => \A u \in Uses : pc[u] # "panic"
    BY ZenonT(60) DEF IInv, Core, Types, Holding
  <2> QED
    BY <2>1, BufferLeft DEF NoPanic
<1> QED
  BY <1>1, BufferInvariant, PTL

(* The disk always works on the first buffer of idequeue. *)
THEOREM BufferDiskBusy == Spec => []DiskBusy
<1>1. IInv => DiskBusy
  BY DEF IInv, Core
<1> QED
  BY <1>1, BufferInvariant, PTL

(* Nobody sleeps in acquiresleep for a free lock, or in iderw for a request *)
(* that is not in the queue.                                                *)
THEOREM BufferNoLostWakeup == Spec => []NoLostWakeup
<1>1. IInv => NoLostWakeup
  BY DEF IInv, Core, Owner, Queued, NoLostWakeup
<1> QED
  BY <1>1, BufferInvariant, PTL

-----------------------------------------------------------------------------
(* Every step of the cache is a step of the store, or changes nothing of it. *)
LEMMA NextMaps ==
  ASSUME IInv, IInv', Clean, NoErrors, [Next]_vars
  PROVE  Clean' /\ [Abs!Next]_<<Store, Holds>>
<1>0. Core /\ Core' /\ Counted
  BY DEF IInv
<1>1. ASSUME NEW u \in Uses, NEW bn \in Blocks, bget(u, bn)
      PROVE  Clean' /\ [Abs!Next]_<<Store, Holds>>
  <2>1. CASE \E b \in Bufs : Took(u, bn, b) /\ (Hit(bn, b) \/ Recycled(bn, b))
    <3>1. PICK b \in Bufs : Took(u, bn, b) /\ (Hit(bn, b) \/ Recycled(bn, b))
      BY <2>1
    <3>2. Recycled(bn, b) => \A q \in Uses : my[q] # b
      BY <1>0, UsersCount DEF Recycled, Counted
    <3> QED
      BY <1>0, <3>1, <3>2, BgetMaps
  <2>2. CASE Exhausted(u, bn)
    BY <1>0, <2>2, NoBuffersMaps DEF Exhausted
  <2> QED
    BY <1>1, <2>1, <2>2, BgetTakes
<1>2. ASSUME NEW u \in Uses, Inside(u)
      PROVE  Clean' /\ [Abs!Next]_<<Store, Holds>>
  BY <1>0, <1>2, AcquiresleepMaps, QuietMaps DEF Inside
<1>3. ASSUME NEW u \in Uses, NEW v \in Val, bwrite(u, v) \/ log_write(u, v)
      PROVE  Clean' /\ [Abs!Next]_<<Store, Holds>>
  BY <1>0, <1>3, ChangeMaps
<1>4. ASSUME NEW u \in Uses, releasesleep(u)
      PROVE  Clean' /\ [Abs!Next]_<<Store, Holds>>
  BY <1>0, <1>4, ReleasesleepMaps
<1>5. CASE ideintr
  BY <1>0, <1>5, IdeintrMaps
<1>6. CASE UNCHANGED vars
  BY <1>6 DEF Clean, Store, Holds
<1> QED
  BY <1>1, <1>2, <1>3, <1>4, <1>5, <1>6 DEF Next

(* On a disk without read errors the cache, its locks and the disk queue   *)
(* together are a store of blocks, each held by one process at a time, that *)
(* never go back to older contents.                                        *)
THEOREM BufferIsStore == NoErrors /\ Spec => RefinesBlockStore
<1> SUFFICES ASSUME NoErrors PROVE Spec => RefinesBlockStore
  OBVIOUS
<1>1. Init => Clean
  BY InitIInv
<1>2. IInv /\ IInv' /\ Clean /\ [Next]_vars => Clean' /\ [Abs!Next]_<<Store, Holds>>
  BY NextMaps
<1>3. Spec => []IInv
  BY BufferInvariant
<1> QED
  BY <1>1, <1>2, <1>3, InitMaps, PTL DEF Spec, RefinesBlockStore, Abs!Spec
=============================================================================
