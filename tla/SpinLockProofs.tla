--------------------------- MODULE SpinLockProofs ---------------------------
(***************************************************************************)
(* Proofs about SpinLock, for every number of CPUs, threads and locks.     *)
(***************************************************************************)
EXTENDS SpinLock, FiniteSetTheorems, SequenceTheorems, TLAPS

(* The frames of a thread: none before its first return to user space, then *)
(* the one of user space, and the one of a handler.  Handlers do not nest.  *)
Shapes == {<<>>, <<TRUE>>, <<FALSE>>, <<TRUE, FALSE>>}
Handling == {<<FALSE>>, <<TRUE, FALSE>>}

Types ==
  /\ locked \in [Locks -> BOOLEAN]
  /\ cpu \in [Locks -> CPUs \cup {None}]
  /\ ncli \in [CPUs -> Int]
  /\ intena \in [CPUs -> BOOLEAN]
  /\ fl \in [CPUs -> BOOLEAN]
  /\ cur \in [CPUs -> Contexts]
  /\ pc \in [CPUs -> {"run", "holding", "xchg", "owner", "unlock", "popcli"}]
  /\ lk \in [CPUs -> Locks]
  /\ held \in [CPUs -> SUBSET Locks]
  /\ under = [c \in CPUs |-> {}]
  /\ frames \in [Contexts -> Shapes]
  /\ saved \in [Threads -> BOOLEAN \cup {None}]

(* A lock that is taken has one taker, and lk->cpu names a CPU exactly from *)
(* the end of its acquire to the start of its release.                      *)
Owned ==
  /\ \A c \in CPUs : \A l \in held[c] : locked[l]
  /\ \A c, d \in CPUs : \A l \in held[c] : l \in held[d] => c = d
  /\ \A c \in CPUs : pc[c] = "owner" =>
       /\ locked[lk[c]]
       /\ \A d \in CPUs : lk[c] \notin held[d]
       /\ \A d \in CPUs : pc[d] = "owner" /\ lk[c] = lk[d] => c = d
  /\ \A c \in CPUs, l \in Locks :
       cpu[l] = c <=> l \in held[c] /\ ~(pc[c] = "unlock" /\ lk[c] = l)
  /\ \A c \in CPUs : pc[c] = "unlock" => lk[c] \in held[c]
  /\ \A c \in CPUs : pc[c] \in {"holding", "xchg", "owner"} => lk[c] \notin held[c]

(* ncli counts the locks of the CPU and an acquire or release in progress,  *)
(* and the interrupt flag is off when it is not 0.                          *)
Pushed(c) == IF pc[c] \in {"holding", "xchg", "owner", "popcli"} THEN 1 ELSE 0
Masked ==
  /\ \A c \in CPUs : ncli[c] = Cardinality(held[c]) + Pushed(c)
  /\ \A c \in CPUs : fl[c] => ncli[c] = 0

(* The flag that a context has to find again is in FL_IF, in intena while   *)
(* ncli is not 0, or in saved while the thread is switched out.             *)
Kept(t) == frames[t] \in Handling \/ (t \in Threads /\ frames[t] # <<>>)
Flags ==
  /\ \A c, d \in CPUs : cur[c] = cur[d] => c = d
  /\ \A c \in CPUs : /\ cur[c] \in CPUs => cur[c] = c
                     /\ frames[c] \in {<<TRUE>>, <<TRUE, FALSE>>}
                     /\ cur[c] # c => frames[c] = <<TRUE>>
  /\ \A c \in CPUs : Kept(cur[c]) =>
       /\ ncli[c] = 0 => (fl[c] <=> frames[cur[c]] \notin Handling)
       /\ ncli[c] # 0 => (intena[c] <=> frames[cur[c]] \notin Handling)
  /\ \A t \in Threads : (\A c \in CPUs : cur[c] # t) /\ frames[t] # <<>> =>
       saved[t] \in BOOLEAN /\ (saved[t] <=> frames[t] \notin Handling)

IInv == Types /\ Owned /\ Masked /\ Flags

-----------------------------------------------------------------------------
USE SMTT(60), ZenonT(60) DEF vars, lock, cli, thread

(* The constants are as the code has them. *)
LEMMA Consts ==
  /\ PT \in Locks /\ IsFiniteSet(Locks)
  /\ CPUs \cap Threads = {} /\ None \notin CPUs /\ None \notin BOOLEAN
BY SpinAssumption

(* Short sequences, element by element. *)
LEMMA ShortSeqs ==
  ASSUME NEW a, NEW b
  PROVE  /\ Append(<<>>, b) = <<b>> /\ Append(<<a>>, b) = <<a, b>>
         /\ SubSeq(<<b>>, 1, 0) = <<>> /\ SubSeq(<<a, b>>, 1, 1) = <<a>>
         /\ Len(<<b>>) = 1 /\ Len(<<a, b>>) = 2
         /\ <<b>>[1] = b /\ <<a, b>>[1] = a /\ <<a, b>>[2] = b
<1> DEFINE S == {a, b}
<1>1. /\ Len(<<b>>) = 1 /\ Len(<<a>>) = 1 /\ Len(<<a, b>>) = 2
      /\ <<a>>[1] = a /\ <<b>>[1] = b /\ <<a, b>>[1] = a /\ <<a, b>>[2] = b
  OBVIOUS
<1>2. <<>> \in Seq(S) /\ <<a>> \in Seq(S) /\ <<b>> \in Seq(S) /\ <<a, b>> \in Seq(S)
  OBVIOUS
<1>3. Append(<<>>, b) = <<b>>
  <2> DEFINE s == Append(<<>>, b)
  <2>1. s \in Seq(S) /\ Len(s) = 1 /\ s[1] = b
    BY <1>2, AppendProperties, EmptySeq
  <2> HIDE DEF s
  <2>2. \A i \in 1..Len(s) : s[i] = <<b>>[i]
    BY <1>1, <2>1
  <2> QED
    BY <1>1, <1>2, <2>1, <2>2, SeqEqual
<1>4. Append(<<a>>, b) = <<a, b>>
  <2> DEFINE s == Append(<<a>>, b)
  <2>1. s \in Seq(S) /\ Len(s) = 2 /\ s[1] = a /\ s[2] = b
    BY <1>1, <1>2, AppendProperties
  <2> HIDE DEF s
  <2>2. \A i \in 1..Len(s) : s[i] = <<a, b>>[i]
    BY <1>1, <2>1
  <2>3. s = <<a, b>>
    BY <1>1, <1>2, <2>1, <2>2, SeqEqual
  <2> QED
    BY <2>3 DEF s
<1>5. SubSeq(<<b>>, 1, 0) = <<>>
  BY SubSeqEmpty
<1>6. SubSeq(<<a, b>>, 1, 1) = <<a>>
  <2> DEFINE t == <<a, b>>
             s == SubSeq(t, 1, 1)
  <2>1. t[1] = a /\ a \in S
    BY <1>1
  <2> HIDE DEF t, S
  <2>2. \A i \in 1..1 : t[i] \in S
    BY <2>1
  <2>3. s \in Seq(S) /\ Len(s) = 1 /\ s[1] = t[1]
    BY <2>2, SubSeqProperties
  <2> HIDE DEF s
  <2>4. \A i \in 1..Len(s) : s[i] = <<a>>[i]
    BY <1>1, <2>1, <2>3
  <2>5. s = <<a>>
    BY <1>1, <1>2, <2>3, <2>4, SeqEqual
  <2> QED
    BY <2>5 DEF s, t
<1> QED
  BY <1>1, <1>3, <1>4, <1>5, <1>6

(* Entering a handler adds a frame, and leaving it gives the frames back. *)
LEMMA FrameShapes ==
  /\ Append(<<>>, FALSE) = <<FALSE>> /\ Append(<<TRUE>>, FALSE) = <<TRUE, FALSE>>
  /\ \A f \in Shapes : f # <<>> => (f[Len(f)] <=> f \notin Handling)
  /\ \A f \in Handling : SubSeq(f, 1, Len(f) - 1) \in {<<>>, <<TRUE>>}
  /\ SubSeq(<<TRUE, FALSE>>, 1, Len(<<TRUE, FALSE>>) - 1) = <<TRUE>>
  /\ \A f \in Shapes : Len(f) = 1 => f \in {<<TRUE>>, <<FALSE>>}
  /\ <<TRUE>> # <<>> /\ <<TRUE>> \notin Handling /\ <<>> \notin Handling
  /\ Handling \subseteq Shapes
<1>1. /\ Len(<<>>) = 0 /\ Len(<<TRUE>>) = 1 /\ Len(<<FALSE>>) = 1 /\ Len(<<TRUE, FALSE>>) = 2
      /\ <<TRUE>>[1] = TRUE /\ <<FALSE>>[1] = FALSE /\ <<TRUE, FALSE>>[2] = FALSE
      /\ <<TRUE, FALSE>>[1] = TRUE
  BY ShortSeqs
<1>2. /\ <<TRUE>> # <<FALSE>> /\ <<TRUE>> # <<>> /\ <<TRUE>> # <<TRUE, FALSE>>
      /\ <<>> # <<FALSE>> /\ <<>> # <<TRUE, FALSE>>
  BY <1>1
<1>3. SubSeq(<<FALSE>>, 1, 0) = <<>> /\ SubSeq(<<TRUE, FALSE>>, 1, 1) = <<TRUE>>
  BY ShortSeqs, ZenonT(60)
<1>4. Append(<<>>, FALSE) = <<FALSE>> /\ Append(<<TRUE>>, FALSE) = <<TRUE, FALSE>>
  BY ShortSeqs, ZenonT(60)
<1>5. \A f \in Shapes : f # <<>> => (f[Len(f)] <=> f \notin Handling)
  BY <1>1, <1>2, ZenonT(60) DEF Shapes, Handling
<1>7. SubSeq(<<TRUE, FALSE>>, 1, Len(<<TRUE, FALSE>>) - 1) = <<TRUE>>
  <2>1. Len(<<TRUE, FALSE>>) - 1 = 1
    BY <1>1
  <2> QED
    BY <1>3, <2>1, ZenonT(60)
<1>6. \A f \in Handling : SubSeq(f, 1, Len(f) - 1) \in {<<>>, <<TRUE>>}
  <2>1. Len(<<FALSE>>) - 1 = 0
    BY <1>1
  <2>2. SubSeq(<<FALSE>>, 1, Len(<<FALSE>>) - 1) = <<>>
    BY <1>3, <2>1, ZenonT(60)
  <2> QED
    BY <1>7, <2>2, ZenonT(60) DEF Handling
<1>8. \A f \in Shapes : Len(f) = 1 => f \in {<<TRUE>>, <<FALSE>>}
  BY <1>1, ZenonT(60) DEF Shapes
<1>9. <<TRUE>> \notin Handling /\ <<>> \notin Handling /\ Handling \subseteq Shapes
  BY <1>2 DEF Handling, Shapes
<1> QED
  BY <1>2, <1>4, <1>5, <1>6, <1>7, <1>8, <1>9, ZenonT(60)

(* A CPU holds finitely many locks. *)
LEMMA HeldFinite ==
  ASSUME Types, NEW c \in CPUs
  PROVE  /\ IsFiniteSet(held[c]) /\ Cardinality(held[c]) \in Nat
         /\ held[c] = {} <=> Cardinality(held[c]) = 0
<1>1. held[c] \in SUBSET Locks
  BY DEF Types
<1>2. IsFiniteSet(held[c])
  BY <1>1, Consts, FS_Subset
<1> QED
  BY <1>2, FS_CardinalityType, FS_EmptySet

(* Outside acquire and release, ncli is 0 exactly when no lock is held. *)
LEMMA NcliZero ==
  ASSUME Types, Masked, NEW c \in CPUs, pc[c] = "run"
  PROVE  ncli[c] = Cardinality(held[c]) /\ (ncli[c] = 0 <=> held[c] = {})
BY HeldFinite DEF Masked, Pushed

(* The boot state has it all. *)
LEMMA InitIInv == Init => IInv
<1> SUFFICES ASSUME Init PROVE IInv
  OBVIOUS
<1>1. Types
  <2>1. frames \in [Contexts -> Shapes]
    BY DEF Init, Shapes
  <2>2. saved \in [Threads -> BOOLEAN \cup {None}] /\ cur \in [CPUs -> Contexts]
    BY DEF Init, Contexts
  <2>3. /\ locked \in [Locks -> BOOLEAN] /\ intena \in [CPUs -> BOOLEAN]
        /\ fl \in [CPUs -> BOOLEAN]
    BY DEF Init
  <2> QED
    BY <2>1, <2>2, <2>3, Consts DEF Init, Types
<1>2. Owned
  BY Consts DEF Init, Owned
<1>3. Masked
  BY FS_EmptySet DEF Init, Masked, Pushed
<1>4. Flags
  BY Consts, FrameShapes DEF Init, Flags, Kept, Contexts
<1> QED
  BY <1>1, <1>2, <1>3, <1>4 DEF IInv

-----------------------------------------------------------------------------
(* The panics are out of reach. *)

(* holding answers FALSE to an acquire, and TRUE to a release. *)
LEMMA HoldingRight ==
  ASSUME Types, Owned, NEW c \in CPUs
  PROVE  /\ pc[c] = "holding" => ~holding(c, lk[c])
         /\ pc[c] = "run" => \A l \in held[c] : holding(c, l)
<1>1. ASSUME pc[c] = "holding" PROVE ~holding(c, lk[c])
  <2>1. lk[c] \in Locks /\ lk[c] \notin held[c]
    BY <1>1, ZenonT(60) DEF Types, Owned
  <2> QED
    BY <2>1 DEF Owned, holding
<1>2. ASSUME pc[c] = "run", NEW l \in held[c] PROVE holding(c, l)
  BY <1>2 DEF Types, Owned, holding
<1> QED
  BY <1>1, <1>2

(* popcli finds the flag off and something to pop. *)
LEMMA PopcliRight ==
  ASSUME Types, Masked, NEW c \in CPUs, pc[c] = "popcli"
  PROVE  ~fl[c] /\ ncli[c] >= 1
BY HeldFinite DEF Masked, Pushed

(* sched finds ptable.lock the only one, and the flag off. *)
LEMMA SchedRight ==
  ASSUME Types, Masked, NEW c \in CPUs, pc[c] = "run", held[c] = {PT}
  PROVE  ncli[c] = 1 /\ ~fl[c]
<1>1. ncli[c] = 1
  BY NcliZero, FS_Singleton, ZenonT(60)
<1> QED
  BY <1>1 DEF Masked

(* Every step keeps the types, in which no CPU is in panic. *)
LEMMA TypesStep == IInv /\ [Next]_vars => Types'
<1> SUFFICES ASSUME IInv, [Next]_vars PROVE Types'
  OBVIOUS
<1>0. Types /\ Owned /\ Masked /\ Flags
  BY DEF IInv
<1> USE DEF Goto
<1>1. ASSUME NEW c \in CPUs, NEW l \in Locks, acquire(c, l) PROVE Types'
  <2>1. intena' \in [CPUs -> BOOLEAN] /\ fl' \in [CPUs -> BOOLEAN]
    <3>1. fl[c] \in BOOLEAN
      BY <1>0 DEF Types
    <3>2. intena' = intena \/ intena' = [intena EXCEPT ![c] = fl[c]]
      BY <1>1 DEF acquire, pushcli, SaveFlag
    <3>3. fl' = [fl EXCEPT ![c] = FALSE]
      BY <1>1 DEF acquire, pushcli, CliOff
    <3>4. intena' \in [CPUs -> BOOLEAN]
      BY <1>0, <3>1, <3>2 DEF Types
    <3>5. fl' \in [CPUs -> BOOLEAN]
      BY <1>0, <3>3 DEF Types
    <3> QED
      BY <3>4, <3>5
  <2>2. /\ ncli' = [ncli EXCEPT ![c] = @ + 1] /\ lk' = [lk EXCEPT ![c] = l]
        /\ pc' = [pc EXCEPT ![c] = "holding"]
        /\ UNCHANGED <<locked, cpu, cur, frames, saved, under, held>>
    BY <1>1 DEF acquire, pushcli
  <2> QED
    BY <1>0, <2>1, <2>2 DEF Types
<1>2. ASSUME NEW c \in CPUs, NEW l \in Locks, release(c, l) PROVE Types'
  <2>1. holding(c, l)
    BY <1>0, <1>2, HoldingRight DEF release
  <2> QED
    BY <1>0, <1>2, <2>1 DEF release, ClearOwner, Types
<1>3. ASSUME NEW c \in CPUs, CheckHolding(c) PROVE Types'
  <2>1. pc' = [pc EXCEPT ![c] = "xchg"]
    BY <1>0, <1>3, HoldingRight, ZenonT(60) DEF CheckHolding
  <2> QED
    BY <1>0, <1>3, <2>1 DEF CheckHolding, Types
<1>4. ASSUME NEW c \in CPUs, xchg(c) PROVE Types'
  BY <1>0, <1>4 DEF xchg, Types
<1>5. ASSUME NEW c \in CPUs, Owner(c) PROVE Types'
  BY <1>0, <1>5 DEF Owner, Types
<1>6. ASSUME NEW c \in CPUs, Unlock(c) PROVE Types'
  BY <1>0, <1>6 DEF Unlock, Types
<1>7. ASSUME NEW c \in CPUs, popcli(c) PROVE Types'
  <2>1. pc' = [pc EXCEPT ![c] = "run"]
    <3>1. ~(fl[c] \/ ncli[c] < 1)
      BY <1>0, <1>7, PopcliRight DEF popcli, Types
    <3> QED
      BY <1>7, <3>1 DEF popcli
  <2>2. fl' \in [CPUs -> BOOLEAN]
    BY <1>0, <1>7 DEF popcli, Types
  <2> QED
    BY <1>0, <1>7, <2>1, <2>2 DEF popcli, Types
<1>8. ASSUME NEW c \in CPUs, interrupt(c) PROVE Types'
  <2>1. cur[c] \in Contexts /\ fl[c] /\ ncli[c] = 0
    BY <1>0, <1>8 DEF interrupt, Types, Masked
  <2>2. frames[cur[c]] \in {<<>>, <<TRUE>>}
    <3>1. Kept(cur[c]) => frames[cur[c]] \notin Handling
      BY <1>0, <2>1 DEF Flags
    <3> QED
      BY <1>0, <2>1, <3>1, ZenonT(60) DEF Kept, Types, Shapes, Handling
  <2>3. Append(frames[cur[c]], FALSE) \in Shapes
    BY <2>2, FrameShapes, ZenonT(60) DEF Shapes
  <2>4. frames' \in [Contexts -> Shapes]
    BY <1>0, <1>8, <2>3, ZenonT(60) DEF interrupt, Types
  <2>5. fl' \in [CPUs -> BOOLEAN]
    BY <1>0, <1>8 DEF interrupt, Types
  <2>6. held[c] = {}
    BY <1>0, <1>8, <2>1, NcliZero DEF interrupt
  <2>7. under' = [d \in CPUs |-> {}]
    BY <1>0, <1>8, <2>6 DEF interrupt, Types
  <2> QED
    BY <1>0, <1>8, <2>4, <2>5, <2>7, ZenonT(60) DEF interrupt, Types
<1>9. ASSUME NEW c \in CPUs, iret(c) PROVE Types'
  <2>1. cur[c] \in Contexts /\ frames[cur[c]] \in Handling
    <3>1. cur[c] \in Contexts /\ frames[cur[c]] \in Shapes
      BY <1>0 DEF Types
    <3>2. frames[cur[c]] # <<>> /\ ~frames[cur[c]][Len(frames[cur[c]])]
      BY <1>9 DEF iret, InHandler
    <3> QED
      BY <3>1, <3>2, FrameShapes
  <2>2. SubSeq(frames[cur[c]], 1, Len(frames[cur[c]]) - 1) \in Shapes
    BY <2>1, FrameShapes, ZenonT(60) DEF Shapes
  <2>3. frames' \in [Contexts -> Shapes]
    BY <1>0, <1>9, <2>1, <2>2 DEF iret, Types
  <2>4. fl' \in [CPUs -> BOOLEAN]
    BY <1>0, <1>9 DEF iret, Types
  <2>5. under' = [d \in CPUs |-> {}]
    BY <1>0, <1>9 DEF iret, Types
  <2> QED
    BY <1>0, <1>9, <2>3, <2>4, <2>5 DEF iret, Types
<1>10. ASSUME NEW c \in CPUs, sti(c) PROVE Types'
  <2>1. fl' \in [CPUs -> BOOLEAN]
    BY <1>0, <1>10 DEF sti, Types
  <2> QED
    BY <1>0, <1>10, <2>1 DEF sti, Types
<1>11. ASSUME NEW c \in CPUs, sched(c) PROVE Types'
  <2>1. ncli[c] = 1 /\ ~fl[c]
    BY <1>0, <1>11, SchedRight DEF sched
  <2>2. /\ saved' = [saved EXCEPT ![cur[c]] = intena[c]]
        /\ cur' = [cur EXCEPT ![c] = c]
        /\ UNCHANGED <<locked, cpu, ncli, intena, fl, pc, lk, held, under, frames>>
    BY <1>11, <2>1 DEF sched
  <2>3. saved' \in [Threads -> BOOLEAN \cup {None}]
    BY <1>0, <2>2, ZenonT(60) DEF Types
  <2>4. cur' \in [CPUs -> Contexts]
    BY <1>0, <2>2 DEF Types, Contexts
  <2> QED
    BY <1>0, <2>2, <2>3, <2>4 DEF Types
<1>12. ASSUME NEW c \in CPUs, NEW t \in Threads, swtch(c, t) PROVE Types'
  <2>1. intena' \in [CPUs -> BOOLEAN]
    <3>1. CASE saved[t] = None
      BY <1>0, <1>12, <3>1 DEF swtch, Types
    <3>2. CASE saved[t] # None
      <4>1. saved[t] \in BOOLEAN
        BY <1>0, <3>2 DEF Types
      <4>2. intena' = [intena EXCEPT ![c] = saved[t]]
        BY <1>12, <3>2 DEF swtch, RestoreIntena
      <4> QED
        BY <1>0, <4>1, <4>2 DEF Types
    <3> QED
      BY <3>1, <3>2
  <2>2. cur' \in [CPUs -> Contexts]
    BY <1>0, <1>12 DEF swtch, Types, Contexts
  <2> QED
    BY <1>0, <1>12, <2>1, <2>2 DEF swtch, Types
<1>13. ASSUME NEW c \in CPUs, trapret(c) PROVE Types'
  <2>1. frames' \in [Contexts -> Shapes]
    <3>1. <<TRUE>> \in Shapes
      BY DEF Shapes
    <3> QED
      BY <1>0, <1>13, <3>1 DEF trapret, Types
  <2>2. fl' \in [CPUs -> BOOLEAN]
    BY <1>0, <1>13 DEF trapret, Types
  <2> QED
    BY <1>0, <1>13, <2>1, <2>2 DEF trapret, Types
<1>14. ASSUME UNCHANGED vars PROVE Types'
  BY <1>0, <1>14 DEF Types
<1> QED
  BY <1>1, <1>2, <1>3, <1>4, <1>5, <1>6, <1>7, <1>8, <1>9, <1>10, <1>11, <1>12, <1>13, <1>14
     DEF Next, Inside

-----------------------------------------------------------------------------
(* Every step keeps the record of who holds what. *)
LEMMA OwnedStep == IInv /\ Types' /\ [Next]_vars => Owned'
<1> SUFFICES ASSUME IInv, Types', [Next]_vars PROVE Owned'
  OBVIOUS
<1>0. Types /\ Owned /\ Masked
  BY DEF IInv
<1> USE DEF Goto
<1>1. ASSUME NEW c \in CPUs, NEW l \in Locks, acquire(c, l) PROVE Owned'
  BY <1>0, <1>1 DEF acquire, Types, Owned
<1>2. ASSUME NEW c \in CPUs, NEW l \in Locks, release(c, l) PROVE Owned'
  <2>1. holding(c, l)
    BY <1>0, <1>2, HoldingRight DEF release
  <2>2. /\ pc[c] = "run" /\ l \in held[c]
        /\ lk' = [lk EXCEPT ![c] = l] /\ pc' = [pc EXCEPT ![c] = "unlock"]
        /\ cpu' = [cpu EXCEPT ![l] = None]
        /\ locked' = locked /\ held' = held
    BY <1>2, <2>1 DEF release, ClearOwner
  <2>3. \A d \in CPUs, m \in Locks :
          (cpu[m] = d <=> m \in held[d] /\ ~(pc[d] = "unlock" /\ lk[d] = m))'
    BY <1>0, <2>2, Consts DEF Types, Owned
  <2> QED
    BY <1>0, <2>2, <2>3 DEF Types, Owned
<1>3. ASSUME NEW c \in CPUs, CheckHolding(c) PROVE Owned'
  <2>1. pc' = [pc EXCEPT ![c] = "xchg"]
    BY <1>0, <1>3, HoldingRight, ZenonT(60) DEF CheckHolding
  <2> QED
    BY <1>0, <1>3, <2>1 DEF CheckHolding, Types, Owned
<1>4. ASSUME NEW c \in CPUs, xchg(c) PROVE Owned'
  <2>1. /\ pc[c] = "xchg" /\ ~locked[lk[c]]
        /\ locked' = [locked EXCEPT ![lk[c]] = TRUE] /\ pc' = [pc EXCEPT ![c] = "owner"]
        /\ UNCHANGED <<cpu, lk, held>>
    BY <1>4 DEF xchg, Free
  <2>2. \A d \in CPUs : lk[c] \notin held[d] /\ ~(pc[d] = "owner" /\ lk[d] = lk[c])
    BY <1>0, <2>1 DEF Types, Owned
  <2>3. \A d \in CPUs : \A m \in held'[d] : locked'[m]
    BY <1>0, <2>1 DEF Types, Owned
  <2>4. \A d \in CPUs : pc'[d] = "owner" => 
          /\ locked'[lk'[d]]
          /\ \A e \in CPUs : lk'[d] \notin held'[e]
          /\ \A e \in CPUs : pc'[e] = "owner" /\ lk'[d] = lk'[e] => d = e
    BY <1>0, <2>1, <2>2 DEF Types, Owned
  <2> QED
    BY <1>0, <2>1, <2>3, <2>4 DEF Types, Owned
<1>5. ASSUME NEW c \in CPUs, Owner(c) PROVE Owned'
  <2>1. /\ pc[c] = "owner" /\ cpu' = [cpu EXCEPT ![lk[c]] = c]
        /\ held' = [held EXCEPT ![c] = @ \cup {lk[c]}] /\ pc' = [pc EXCEPT ![c] = "run"]
        /\ UNCHANGED <<locked, lk>>
    BY <1>5 DEF Owner
  <2>2. /\ locked[lk[c]] /\ \A d \in CPUs : lk[c] \notin held[d]
        /\ \A d \in CPUs : pc[d] = "owner" /\ lk[d] = lk[c] => c = d
    BY <1>0, <2>1 DEF Types, Owned
  <2>3. /\ \A d \in CPUs : \A m \in held'[d] : locked'[m]
        /\ \A d, e \in CPUs : \A m \in held'[d] : m \in held'[e] => d = e
    BY <1>0, <2>1, <2>2 DEF Types, Owned
  <2>4. \A d \in CPUs : pc'[d] = "owner" => 
          /\ locked'[lk'[d]]
          /\ \A e \in CPUs : lk'[d] \notin held'[e]
          /\ \A e \in CPUs : pc'[e] = "owner" /\ lk'[d] = lk'[e] => d = e
    BY <1>0, <2>1, <2>2 DEF Types, Owned
  <2>5. \A d \in CPUs, m \in Locks :
          (cpu[m] = d <=> m \in held[d] /\ ~(pc[d] = "unlock" /\ lk[d] = m))'
    BY <1>0, <2>1, <2>2 DEF Types, Owned
  <2>6. /\ \A d \in CPUs : pc'[d] = "unlock" => lk'[d] \in held'[d]
        /\ \A d \in CPUs : pc'[d] \in {"holding", "xchg", "owner"} => lk'[d] \notin held'[d]
    BY <1>0, <2>1 DEF Types, Owned
  <2> QED
    BY <2>3, <2>4, <2>5, <2>6, ZenonT(60) DEF Owned
<1>6. ASSUME NEW c \in CPUs, Unlock(c) PROVE Owned'
  <2>1. /\ pc[c] = "unlock" /\ locked' = [locked EXCEPT ![lk[c]] = FALSE]
        /\ held' = [held EXCEPT ![c] = @ \ {lk[c]}] /\ pc' = [pc EXCEPT ![c] = "popcli"]
        /\ UNCHANGED <<cpu, lk>>
    BY <1>6 DEF Unlock
  <2>2. /\ lk[c] \in held[c] /\ cpu[lk[c]] # c
        /\ \A d \in CPUs : lk[c] \in held[d] => c = d
        /\ \A d \in CPUs : pc[d] = "owner" => lk[d] # lk[c]
    BY <1>0, <2>1 DEF Types, Owned
  <2>3. /\ \A d \in CPUs : \A m \in held'[d] : locked'[m]
        /\ \A d, e \in CPUs : \A m \in held'[d] : m \in held'[e] => d = e
    BY <1>0, <2>1, <2>2 DEF Types, Owned
  <2>4. \A d \in CPUs : pc'[d] = "owner" => 
          /\ locked'[lk'[d]]
          /\ \A e \in CPUs : lk'[d] \notin held'[e]
          /\ \A e \in CPUs : pc'[e] = "owner" /\ lk'[d] = lk'[e] => d = e
    BY <1>0, <2>1, <2>2 DEF Types, Owned
  <2>5. \A d \in CPUs, m \in Locks :
          (cpu[m] = d <=> m \in held[d] /\ ~(pc[d] = "unlock" /\ lk[d] = m))'
    BY <1>0, <2>1, <2>2 DEF Types, Owned
  <2>6. /\ \A d \in CPUs : pc'[d] = "unlock" => lk'[d] \in held'[d]
        /\ \A d \in CPUs : pc'[d] \in {"holding", "xchg", "owner"} => lk'[d] \notin held'[d]
    BY <1>0, <2>1 DEF Types, Owned
  <2> QED
    BY <2>3, <2>4, <2>5, <2>6, ZenonT(60) DEF Owned
<1>7. ASSUME NEW c \in CPUs, popcli(c) PROVE Owned'
  <2>1. /\ pc[c] = "popcli" /\ pc' = [pc EXCEPT ![c] = "run"]
        /\ UNCHANGED <<locked, cpu, lk, held>>
    BY <1>0, <1>7, PopcliRight, ZenonT(60) DEF popcli, Types
  <2> QED
    BY <1>0, <2>1 DEF Types, Owned
<1>8. ASSUME UNCHANGED <<locked, cpu, pc, lk, held>> PROVE Owned'
  BY <1>0, <1>8 DEF Owned
<1>9. ASSUME NEW c \in CPUs, sched(c) PROVE Owned'
  BY <1>0, <1>8, <1>9, SchedRight DEF sched
<1>10. ASSUME NEW c \in CPUs,
              interrupt(c) \/ iret(c) \/ sti(c) \/ trapret(c) \/ \E t \in Threads : swtch(c, t)
       PROVE  Owned'
  BY <1>8, <1>10, ZenonT(60) DEF interrupt, iret, sti, trapret, swtch
<1> QED
  BY <1>1, <1>2, <1>3, <1>4, <1>5, <1>6, <1>7, <1>8, <1>9, <1>10 DEF Next, Inside

-----------------------------------------------------------------------------
(* Every step keeps the count of pushcli, with the flag off above 0. *)
LEMMA MaskedStep == IInv /\ Types' /\ [Next]_vars => Masked'
<1> SUFFICES ASSUME IInv, Types', [Next]_vars PROVE Masked'
  OBVIOUS
<1>0. Types /\ Owned /\ Masked
  BY DEF IInv
<1> USE DEF Goto
<1>1. ASSUME NEW c \in CPUs, NEW l \in Locks, acquire(c, l) PROVE Masked'
  <2>1. /\ pc[c] = "run" /\ pc' = [pc EXCEPT ![c] = "holding"]
        /\ fl' = [fl EXCEPT ![c] = FALSE] /\ ncli' = [ncli EXCEPT ![c] = @ + 1] /\ held' = held
    BY <1>1 DEF acquire, pushcli, CliOff
  <2> QED
    BY <1>0, <2>1, HeldFinite DEF Types, Masked, Pushed
<1>2. ASSUME NEW c \in CPUs, NEW l \in Locks, release(c, l) PROVE Masked'
  <2>1. /\ pc[c] = "run" /\ pc' = [pc EXCEPT ![c] = "unlock"]
        /\ UNCHANGED <<fl, ncli, held>>
    BY <1>0, <1>2, HoldingRight DEF release
  <2> QED
    BY <1>0, <2>1 DEF Types, Masked, Pushed
<1>3. ASSUME NEW c \in CPUs, CheckHolding(c) PROVE Masked'
  <2>1. /\ pc[c] = "holding" /\ pc' = [pc EXCEPT ![c] = "xchg"]
        /\ UNCHANGED <<fl, ncli, held>>
    BY <1>0, <1>3, HoldingRight, ZenonT(60) DEF CheckHolding
  <2> QED
    BY <1>0, <2>1 DEF Types, Masked, Pushed
<1>4. ASSUME NEW c \in CPUs, xchg(c) PROVE Masked'
  BY <1>0, <1>4 DEF xchg, Types, Masked, Pushed
<1>5. ASSUME NEW c \in CPUs, Owner(c) PROVE Masked'
  <2>1. /\ pc[c] = "owner" /\ pc' = [pc EXCEPT ![c] = "run"]
        /\ held' = [held EXCEPT ![c] = @ \cup {lk[c]}] /\ UNCHANGED <<fl, ncli>>
    BY <1>5 DEF Owner
  <2>2. Cardinality(held[c] \cup {lk[c]}) = Cardinality(held[c]) + 1
    BY <1>0, <2>1, HeldFinite, FS_AddElement, ZenonT(60) DEF Owned
  <2> QED
    BY <1>0, <2>1, <2>2, HeldFinite DEF Types, Masked, Pushed
<1>6. ASSUME NEW c \in CPUs, Unlock(c) PROVE Masked'
  <2>1. /\ pc[c] = "unlock" /\ pc' = [pc EXCEPT ![c] = "popcli"]
        /\ held' = [held EXCEPT ![c] = @ \ {lk[c]}] /\ UNCHANGED <<fl, ncli>>
    BY <1>6 DEF Unlock
  <2>2. Cardinality(held[c] \ {lk[c]}) = Cardinality(held[c]) - 1
    BY <1>0, <2>1, HeldFinite, FS_RemoveElement, ZenonT(60) DEF Owned
  <2> QED
    BY <1>0, <2>1, <2>2, HeldFinite DEF Types, Masked, Pushed
<1>7. ASSUME NEW c \in CPUs, popcli(c) PROVE Masked'
  <2>1. /\ pc[c] = "popcli" /\ pc' = [pc EXCEPT ![c] = "run"]
        /\ ncli' = [ncli EXCEPT ![c] = @ - 1] /\ held' = held
        /\ fl' = [fl EXCEPT ![c] = @ \/ (ncli[c] = 1 /\ intena[c])]
    BY <1>0, <1>7, PopcliRight, ZenonT(60) DEF popcli, Types
  <2>2. \A d \in CPUs : ncli'[d] = Cardinality(held'[d]) + Pushed(d)'
    BY <1>0, <2>1, HeldFinite DEF Types, Masked, Pushed
  <2>3. \A d \in CPUs : d # c => fl'[d] = fl[d] /\ ncli'[d] = ncli[d]
    BY <1>0, <2>1 DEF Types
  <2>4. fl'[c] => ncli'[c] = 0
    <3>1. ~fl[c]
      BY <1>0, <2>1, PopcliRight
    <3>2. fl'[c] => ncli[c] = 1
      BY <1>0, <2>1, <3>1 DEF Types
    <3> QED
      BY <1>0, <2>1, <3>2 DEF Types
  <2> QED
    BY <1>0, <2>2, <2>3, <2>4 DEF Masked
<1>8. ASSUME UNCHANGED <<ncli, held, pc>>,
             \A d \in CPUs : fl'[d] => fl[d] \/ (held[d] = {} /\ pc[d] = "run")
      PROVE  Masked'
  <2>1. \A d \in CPUs : Pushed(d)' = Pushed(d)
    BY <1>8 DEF Pushed
  <2> QED
    BY <1>0, <1>8, <2>1, NcliZero DEF Masked
<1>9. ASSUME NEW c \in CPUs, interrupt(c) PROVE Masked'
  BY <1>0, <1>8, <1>9 DEF interrupt, Types
<1>10. ASSUME NEW c \in CPUs, iret(c) PROVE Masked'
  BY <1>0, <1>8, <1>10 DEF iret, Types
<1>11. ASSUME NEW c \in CPUs, sti(c) PROVE Masked'
  BY <1>0, <1>8, <1>11 DEF sti, Types
<1>12. ASSUME NEW c \in CPUs, sched(c) PROVE Masked'
  BY <1>0, <1>8, <1>12, SchedRight DEF sched
<1>13. ASSUME NEW c \in CPUs, NEW t \in Threads, swtch(c, t) PROVE Masked'
  BY <1>8, <1>13 DEF swtch
<1>14. ASSUME NEW c \in CPUs, trapret(c) PROVE Masked'
  BY <1>0, <1>8, <1>14 DEF trapret, Types
<1>15. ASSUME UNCHANGED vars PROVE Masked'
  BY <1>8, <1>15
<1> QED
  BY <1>1, <1>2, <1>3, <1>4, <1>5, <1>6, <1>7, <1>9, <1>10, <1>11, <1>12, <1>13, <1>14, <1>15
     DEF Next, Inside

-----------------------------------------------------------------------------
(* The conjuncts of Flags, of one CPU and of one thread. *)
Placed(c) ==
  /\ \A d \in CPUs : cur[c] = cur[d] => c = d
  /\ cur[c] \in CPUs => cur[c] = c
  /\ frames[c] \in {<<TRUE>>, <<TRUE, FALSE>>}
  /\ cur[c] # c => frames[c] = <<TRUE>>
Flagged(c) == Kept(cur[c]) =>
  /\ ncli[c] = 0 => (fl[c] <=> frames[cur[c]] \notin Handling)
  /\ ncli[c] # 0 => (intena[c] <=> frames[cur[c]] \notin Handling)
Out(t) == (\A c \in CPUs : cur[c] # t) /\ frames[t] # <<>> =>
  saved[t] \in BOOLEAN /\ (saved[t] <=> frames[t] \notin Handling)

(* Flags is the three of them. *)
LEMMA FlagsParts ==
  Flags <=> /\ \A c \in CPUs : Placed(c)
            /\ \A c \in CPUs : Flagged(c)
            /\ \A t \in Threads : Out(t)
BY ZenonT(60) DEF Flags, Placed, Flagged, Out

(* A scheduler outside a handler has no flag to keep. *)
LEMMA SchedulerFree ==
  ASSUME Types, Flags, NEW c \in CPUs
  PROVE  /\ Len(frames[c]) = 1 => frames[c] = <<TRUE>>
         /\ frames[c] = <<TRUE>> => ~Kept(c)
<1>1. frames[c] \in {<<TRUE>>, <<TRUE, FALSE>>} /\ c \notin Threads
  BY Consts, ZenonT(60) DEF Flags
<1>2. Len(<<TRUE, FALSE>>) # 1
  BY ShortSeqs
<1>3. Len(frames[c]) = 1 => frames[c] = <<TRUE>>
  BY <1>1, <1>2, ZenonT(60)
<1>4. frames[c] = <<TRUE>> => ~Kept(c)
  BY <1>1, FrameShapes DEF Kept
<1> QED
  BY <1>3, <1>4, ZenonT(60)

(* Inside acquire and release, the flag moves between FL_IF and intena. *)
LEMMA FlagsCli ==
  ASSUME IInv, Types', UNCHANGED thread, NEW c \in CPUs,
         \A d \in CPUs \ {c} : ncli'[d] = ncli[d] /\ fl'[d] = fl[d] /\ intena'[d] = intena[d],
         Flagged(c)'
  PROVE  Flags'
<1>1. (\A d \in CPUs : Placed(d)) /\ (\A d \in CPUs : Flagged(d)) /\ \A t \in Threads : Out(t)
  BY FlagsParts DEF IInv
<1>2. (\A d \in CPUs : Placed(d)') /\ \A t \in Threads : Out(t)'
  BY <1>1, ZenonT(60) DEF Placed, Out
<1>3. ASSUME NEW d \in CPUs PROVE Flagged(d)'
  <2>1. CASE d = c
    BY <2>1
  <2>2. CASE d # c
    BY <1>1, <2>2 DEF Flagged, Kept
  <2> QED
    BY <2>1, <2>2
<1>4. /\ \A d \in CPUs : Placed(d)'
      /\ \A d \in CPUs : Flagged(d)'
      /\ \A t \in Threads : Out(t)'
  BY <1>2, <1>3
<1> QED
  BY <1>4, ZenonT(60) DEF Flags, Placed, Flagged, Out

(* Every step keeps the flag of every context where it can be found again. *)
LEMMA FlagsStep == IInv /\ Types' /\ Masked' /\ [Next]_vars => Flags'
<1> SUFFICES ASSUME IInv, Types', Masked', [Next]_vars PROVE Flags'
  OBVIOUS
<1>0. Types /\ Owned /\ Masked /\ Flags
  BY DEF IInv
<1>p. (\A d \in CPUs : Placed(d)) /\ (\A d \in CPUs : Flagged(d)) /\ \A t \in Threads : Out(t)
  BY <1>0, FlagsParts
<1>q. ASSUME \A d \in CPUs : Placed(d)', \A d \in CPUs : Flagged(d)', \A t \in Threads : Out(t)'
      PROVE  Flags'
  BY <1>q, ZenonT(60) DEF Flags, Placed, Flagged, Out
<1>n. \A d \in CPUs : cur[d] \in Contexts /\ ncli[d] \in Nat /\ d \notin Threads
  <2> SUFFICES ASSUME NEW d \in CPUs
               PROVE  cur[d] \in Contexts /\ ncli[d] \in Nat /\ d \notin Threads
    OBVIOUS
  <2>1. Cardinality(held[d]) \in Nat
    BY <1>0, HeldFinite
  <2>2. ncli[d] \in Nat
    BY <1>0, <2>1 DEF Masked, Pushed
  <2>3. cur[d] \in Contexts /\ d \notin Threads
    BY <1>0, Consts DEF Types
  <2> QED
    BY <2>2, <2>3
<1>i. \A a, b \in CPUs : (cur[a] = cur[b] => a = b) /\ (cur[a] = b => a = b)
  BY <1>p, ZenonT(60) DEF Placed
<1> USE DEF Goto
<1>1. ASSUME NEW c \in CPUs, NEW l \in Locks, acquire(c, l) PROVE Flags'
  <2>1. /\ fl' = [fl EXCEPT ![c] = FALSE] /\ ncli' = [ncli EXCEPT ![c] = @ + 1]
        /\ intena' = IF ncli[c] = 0 THEN [intena EXCEPT ![c] = fl[c]] ELSE intena
        /\ UNCHANGED thread
    BY <1>1 DEF acquire, pushcli, CliOff, SaveFlag
  <2>2. \A d \in CPUs \ {c} : ncli'[d] = ncli[d] /\ fl'[d] = fl[d] /\ intena'[d] = intena[d]
    BY <1>0, <2>1 DEF Types
  <2>3. ncli'[c] # 0 /\ intena'[c] = IF ncli[c] = 0 THEN fl[c] ELSE intena[c]
    BY <1>0, <1>n, <2>1 DEF Types
  <2>4. Flagged(c)'
    BY <1>p, <2>1, <2>3 DEF Flagged, Kept
  <2> QED
    BY <2>1, <2>2, <2>4, FlagsCli, ZenonT(60)
<1>2. ASSUME UNCHANGED <<cli, thread>> PROVE Flags'
  BY <1>0, <1>2, ZenonT(60) DEF Flags, Kept
<1>3. ASSUME NEW c \in CPUs,
             (\E l \in Locks : release(c, l)) \/ CheckHolding(c) \/ xchg(c) \/ Owner(c) \/ Unlock(c)
      PROVE  Flags'
  BY <1>2, <1>3 DEF release, CheckHolding, xchg, Owner, Unlock
<1>4. ASSUME NEW c \in CPUs, popcli(c) PROVE Flags'
  <2>1. /\ ncli' = [ncli EXCEPT ![c] = @ - 1]
        /\ fl' = [fl EXCEPT ![c] = @ \/ (ncli[c] = 1 /\ intena[c])]
        /\ intena' = intena /\ UNCHANGED thread
    BY <1>4 DEF popcli
  <2>2. \A d \in CPUs \ {c} : ncli'[d] = ncli[d] /\ fl'[d] = fl[d] /\ intena'[d] = intena[d]
    BY <1>0, <2>1 DEF Types
  <2>3. ~fl[c] /\ ncli[c] >= 1
    BY <1>0, <1>4, PopcliRight DEF popcli
  <2>4. ncli[c] # 0 /\ (ncli'[c] = 0 <=> ncli[c] = 1)
    BY <1>0, <1>n, <2>1, <2>3 DEF Types
  <2>5. fl'[c] <=> ncli[c] = 1 /\ intena[c]
    BY <1>0, <2>1, <2>3 DEF Types
  <2>6. Flagged(c)'
    BY <1>p, <2>1, <2>4, <2>5 DEF Flagged, Kept
  <2> QED
    BY <2>1, <2>2, <2>6, FlagsCli
<1>5. ASSUME NEW c \in CPUs, sti(c) PROVE Flags'
  <2>1. /\ cur[c] = c /\ Len(frames[c]) = 1 /\ fl' = [fl EXCEPT ![c] = TRUE]
        /\ UNCHANGED <<ncli, intena, cur, frames, saved, under>>
    BY <1>5 DEF sti
  <2>2. \A d \in CPUs \ {c} : ncli'[d] = ncli[d] /\ fl'[d] = fl[d] /\ intena'[d] = intena[d]
    BY <1>0, <2>1 DEF Types
  <2>3. ~Kept(cur[c])
    BY <1>0, <2>1, SchedulerFree, ZenonT(60)
  <2>4. Flagged(c)'
    BY <2>1, <2>3 DEF Flagged, Kept
  <2> QED
    BY <2>1, <2>2, <2>4, FlagsCli, ZenonT(60)
(* A handler entered or left, or the first return to user space. *)
<1>6. ASSUME NEW c \in CPUs, NEW f \in Shapes, NEW b \in BOOLEAN,
             frames' = [frames EXCEPT ![cur[c]] = f], fl' = [fl EXCEPT ![c] = b],
             UNCHANGED <<ncli, intena, cur, saved>>, ncli[c] = 0,
             f # <<>> => (b <=> f \notin Handling),
             cur[c] = c => f \in {<<TRUE>>, <<TRUE, FALSE>>}
      PROVE  Flags'
  <2>1. \A d \in Contexts : d # cur[c] => frames'[d] = frames[d]
    BY <1>0, <1>6, <1>n DEF Types
  <2>2. frames'[cur[c]] = f /\ fl'[c] = b
    BY <1>0, <1>6, <1>n DEF Types
  <2>3. \A d \in CPUs : d # c => cur[d] # cur[c] /\ cur[c] # d /\ fl'[d] = fl[d]
    BY <1>0, <1>6, <1>p, ZenonT(60) DEF Types, Placed
  <2>4. ASSUME NEW d \in CPUs PROVE Placed(d)'
    <3>1. CASE d = c
      <4>1. CASE cur[c] = c
        BY <1>6, <1>p, <2>2, <3>1, <4>1, ZenonT(60) DEF Placed
      <4>2. CASE cur[c] # c
        BY <1>6, <1>p, <2>1, <3>1, <4>2, ZenonT(60) DEF Placed, Contexts
      <4> QED
        BY <4>1, <4>2
    <3>2. CASE d # c
      BY <1>6, <1>p, <2>1, <2>3, <3>2, ZenonT(60) DEF Placed, Contexts
    <3> QED
      BY <3>1, <3>2
  <2>5. ASSUME NEW d \in CPUs PROVE Flagged(d)'
    <3>1. CASE d = c
      BY <1>6, <2>2, <3>1, FrameShapes DEF Flagged, Kept
    <3>2. CASE d # c
      BY <1>6, <1>p, <1>n, <2>1, <2>3, <3>2 DEF Flagged, Kept
    <3> QED
      BY <3>1, <3>2
  <2>6. ASSUME NEW t \in Threads PROVE Out(t)'
    <3>1. CASE t = cur[c]
      BY <1>6, <3>1 DEF Out
    <3>2. CASE t # cur[c]
      BY <1>6, <1>p, <2>1, <3>2 DEF Out, Contexts
    <3> QED
      BY <3>1, <3>2
  <2> QED
    BY <1>q, <2>4, <2>5, <2>6
<1>7. ASSUME NEW c \in CPUs, interrupt(c) PROVE Flags'
  <2>1. fl[c] /\ ncli[c] = 0
    BY <1>0, <1>7 DEF interrupt, Masked
  <2>2. frames[cur[c]] \in {<<>>, <<TRUE>>}
    <3>1. Kept(cur[c]) => frames[cur[c]] \notin Handling
      BY <1>p, <2>1 DEF Flagged
    <3> QED
      BY <1>0, <1>n, <3>1, ZenonT(60) DEF Kept, Types, Shapes, Handling
  <2>3. PICK f : f = Append(frames[cur[c]], FALSE)
    BY ZenonT(60)
  <2>4. f \in Handling /\ (frames[cur[c]] = <<TRUE>> => f = <<TRUE, FALSE>>)
    BY <2>2, <2>3, FrameShapes, ZenonT(60) DEF Handling
  <2>5. cur[c] = c => frames[cur[c]] = <<TRUE>>
    <3>1. frames[cur[c]] \notin Handling /\ <<TRUE, FALSE>> \in Handling
      BY <2>2, FrameShapes, ZenonT(60) DEF Handling
    <3>2. cur[c] = c => frames[cur[c]] \in {<<TRUE>>, <<TRUE, FALSE>>}
      BY <1>p, ZenonT(60) DEF Placed
    <3> QED
      BY <3>1, <3>2, ZenonT(60)
  <2>6. /\ frames' = [frames EXCEPT ![cur[c]] = f] /\ fl' = [fl EXCEPT ![c] = FALSE]
        /\ UNCHANGED <<ncli, intena, cur, saved>>
    BY <1>7, <2>3 DEF interrupt
  <2> QED
    BY <1>6, <2>1, <2>4, <2>5, <2>6, FrameShapes, ZenonT(60)
<1>8. ASSUME NEW c \in CPUs, iret(c) PROVE Flags'
  <2>0. held[c] = {}
    BY <1>0, <1>8 DEF iret, Types
  <2>1. ncli[c] = 0
    BY <1>0, <1>8, <2>0, NcliZero DEF iret
  <2>2. frames[cur[c]] \in Handling
    <3>1. frames[cur[c]] \in Shapes
      BY <1>0, <1>n DEF Types
    <3>2. frames[cur[c]] # <<>> /\ ~frames[cur[c]][Len(frames[cur[c]])]
      BY <1>8 DEF iret, InHandler
    <3> QED
      BY <3>1, <3>2, FrameShapes
  <2>3. PICK f : f = SubSeq(frames[cur[c]], 1, Len(frames[cur[c]]) - 1)
    BY ZenonT(60)
  <2>4. f \in {<<>>, <<TRUE>>} /\ (frames[cur[c]] = <<TRUE, FALSE>> => f = <<TRUE>>)
    BY <2>2, <2>3, FrameShapes, ZenonT(60)
  <2>5. cur[c] = c => frames[cur[c]] = <<TRUE, FALSE>>
    BY <1>p, <2>2, FrameShapes, ZenonT(60) DEF Placed
  <2>6. /\ frames' = [frames EXCEPT ![cur[c]] = f] /\ fl' = [fl EXCEPT ![c] = TRUE]
        /\ UNCHANGED <<ncli, intena, cur, saved>>
    BY <1>8, <2>3 DEF iret
  <2>7. f \in Shapes /\ f \notin Handling
    BY <2>4, FrameShapes, ZenonT(60) DEF Shapes
  <2> QED
    BY <1>6, <2>1, <2>4, <2>5, <2>6, <2>7, ZenonT(60)
<1>9. ASSUME NEW c \in CPUs, trapret(c) PROVE Flags'
  <2>1. ncli[c] = 0
    BY <1>0, <1>9, NcliZero DEF trapret
  <2>2. /\ frames' = [frames EXCEPT ![cur[c]] = <<TRUE>>] /\ fl' = [fl EXCEPT ![c] = TRUE]
        /\ UNCHANGED <<ncli, intena, cur, saved>>
    BY <1>9 DEF trapret
  <2>3. <<TRUE>> \in Shapes /\ <<TRUE>> \notin Handling
    BY FrameShapes DEF Shapes
  <2> QED
    BY <1>6, <2>1, <2>2, <2>3, ZenonT(60)
<1>10. ASSUME NEW c \in CPUs, sched(c) PROVE Flags'
  <2>1. ncli[c] = 1 /\ ~fl[c] /\ cur[c] \in Threads
    BY <1>0, <1>10, SchedRight DEF sched
  <2>2. /\ saved' = [saved EXCEPT ![cur[c]] = intena[c]]
        /\ cur' = [cur EXCEPT ![c] = c]
        /\ UNCHANGED <<ncli, intena, fl, frames>>
    BY <1>10, <2>1 DEF sched
  <2>3. cur'[c] = c /\ \A d \in CPUs : d # c => cur'[d] = cur[d]
    BY <1>0, <2>2 DEF Types
  <2>4. frames[c] = <<TRUE>> /\ ~Kept(c)
    BY <1>0, <1>p, <1>n, <2>1, SchedulerFree, ZenonT(60) DEF Placed
  <2>5. ASSUME NEW d \in CPUs PROVE Placed(d)'
    <3>1. \A e \in CPUs : cur'[d] = cur'[e] => d = e
      BY <1>i, <2>3, ZenonT(60)
    <3>2. /\ cur'[d] \in CPUs => cur'[d] = d
          /\ cur'[d] # d => frames[d] = <<TRUE>>
      BY <1>p, <2>3, <2>4, ZenonT(60) DEF Placed
    <3>3. frames'[d] \in {<<TRUE>>, <<TRUE, FALSE>>}
      BY <1>p, <2>2, ZenonT(60) DEF Placed
    <3> QED
      BY <2>2, <3>1, <3>2, <3>3, ZenonT(60) DEF Placed
  <2>6. ASSUME NEW d \in CPUs PROVE Flagged(d)'
    BY <1>p, <2>2, <2>3, <2>4, ZenonT(60) DEF Flagged, Kept
  <2>7. ASSUME NEW t \in Threads PROVE Out(t)'
    <3>1. CASE t = cur[c]
      <4>1. saved'[t] = intena[c] /\ intena[c] \in BOOLEAN
        BY <1>0, <2>2, <3>1 DEF Types
      <4>2. frames[t] # <<>> => (intena[c] <=> frames[t] \notin Handling)
        BY <1>p, <2>1, <3>1 DEF Flagged, Kept
      <4> QED
        BY <2>2, <4>1, <4>2 DEF Out
    <3>2. CASE t # cur[c]
      <4>1. saved'[t] = saved[t]
        BY <1>0, <2>2, <3>2 DEF Types
      <4>2. (\A d \in CPUs : cur'[d] # t) => \A d \in CPUs : cur[d] # t
        BY <2>3, <3>2
      <4> QED
        BY <1>p, <2>2, <4>1, <4>2 DEF Out
    <3> QED
      BY <3>1, <3>2
  <2> QED
    BY <1>q, <2>5, <2>6, <2>7
<1>11. ASSUME NEW c \in CPUs, NEW t \in Threads, swtch(c, t) PROVE Flags'
  <2>1. /\ cur[c] = c /\ pc[c] = "run" /\ held[c] = {PT} /\ Len(frames[c]) = 1
        /\ \A d \in CPUs : cur[d] # t
        /\ cur' = [cur EXCEPT ![c] = t]
        /\ intena' = IF saved[t] = None THEN intena ELSE [intena EXCEPT ![c] = saved[t]]
        /\ UNCHANGED <<ncli, fl, frames, saved>>
    BY <1>11 DEF swtch, RestoreIntena
  <2>2. ncli[c] = 1 /\ frames[c] = <<TRUE>>
    BY <1>0, <2>1, SchedRight, SchedulerFree, ZenonT(60)
  <2>3. cur'[c] = t /\ \A d \in CPUs : d # c => cur'[d] = cur[d] /\ intena'[d] = intena[d]
    BY <1>0, <2>1, ZenonT(60) DEF Types
  <2>4. ASSUME NEW d \in CPUs PROVE Placed(d)'
    <3>1. \A e \in CPUs : cur'[d] = cur'[e] => d = e
      <4>1. \A e \in CPUs : cur[e] # t
        BY <2>1
      <4> QED
        BY <1>i, <2>3, <4>1
    <3>2. /\ cur'[d] \in CPUs => cur'[d] = d
          /\ cur'[d] # d => frames[d] = <<TRUE>>
      BY <1>p, <1>n, <2>2, <2>3, ZenonT(60) DEF Placed
    <3>3. frames'[d] \in {<<TRUE>>, <<TRUE, FALSE>>}
      BY <1>p, <2>1, ZenonT(60) DEF Placed
    <3> QED
      BY <2>1, <3>1, <3>2, <3>3, ZenonT(60) DEF Placed
  <2>5. ASSUME NEW d \in CPUs PROVE Flagged(d)'
    <3>1. CASE d = c
      <4>1. frames[t] # <<>> => saved[t] \in BOOLEAN /\ (saved[t] <=> frames[t] \notin Handling)
        BY <1>p, <2>1 DEF Out
      <4>2. saved[t] \in BOOLEAN => intena'[c] = saved[t]
        BY <1>0, <2>1, Consts DEF Types
      <4>3. Kept(t)' => frames[t] # <<>>
        BY <2>1, FrameShapes, ZenonT(60) DEF Kept
      <4> QED
        BY <2>1, <2>2, <2>3, <3>1, <4>1, <4>2, <4>3 DEF Flagged, Kept
    <3>2. CASE d # c
      <4>1. /\ ncli'[d] = ncli[d] /\ fl'[d] = fl[d] /\ frames' = frames
            /\ cur'[d] = cur[d] /\ intena'[d] = intena[d]
        BY <2>1, <2>3, <3>2
      <4>2. Kept(cur[d])' <=> Kept(cur[d])
        BY <4>1 DEF Kept
      <4>3. Flagged(d)
        BY <1>p
      <4> QED
        BY <4>1, <4>2, <4>3 DEF Flagged
    <3> QED
      BY <3>1, <3>2
  <2>6. ASSUME NEW u \in Threads PROVE Out(u)'
    <3>1. (\A d \in CPUs : cur'[d] # u) => \A d \in CPUs : cur[d] # u
      BY <1>n, <2>1, <2>3
    <3> QED
      BY <1>p, <2>1, <3>1 DEF Out
  <2> QED
    BY <1>q, <2>4, <2>5, <2>6
<1> QED
  BY <1>1, <1>2, <1>3, <1>4, <1>5, <1>7, <1>8, <1>9, <1>10, <1>11 DEF Next, Inside

-----------------------------------------------------------------------------
(* IInv is inductive. *)
LEMMA IInvStep == IInv /\ [Next]_vars => IInv'
<1> SUFFICES ASSUME IInv, [Next]_vars PROVE IInv'
  OBVIOUS
<1>1. Types'
  BY TypesStep
<1>2. Owned' /\ Masked'
  BY <1>1, OwnedStep, MaskedStep
<1>3. Flags'
  BY <1>1, <1>2, FlagsStep
<1> QED
  BY <1>1, <1>2, <1>3 DEF IInv

(* A lock has one holder. *)
LEMMA ImpliesMutualExclusion == IInv => MutualExclusion
BY DEF IInv, Owned, Types, MutualExclusion

(* No CPU is in panic. *)
LEMMA ImpliesNoPanic == IInv => NoPanic
<1> SUFFICES ASSUME IInv, NEW c \in CPUs PROVE pc[c] # "panic"
  BY DEF NoPanic
<1>1. pc[c] \in {"run", "holding", "xchg", "owner", "unlock", "popcli"}
  BY DEF IInv, Types
<1> QED
  BY <1>1

(* A thread that holds no lock has its own flag back. *)
LEMMA ImpliesFlagRestored == IInv => FlagRestored
<1> SUFFICES ASSUME IInv, NEW c \in CPUs, pc[c] = "run"
             PROVE  /\ held[c] # {} => ~fl[c]
                    /\ (held[c] = {} /\ cur[c] \in Threads /\ frames[cur[c]] # <<>>)
                         => fl[c] = frames[cur[c]][Len(frames[cur[c]])]
  BY DEF FlagRestored
<1>1. ncli[c] = 0 <=> held[c] = {}
  BY NcliZero DEF IInv
<1>2. held[c] # {} => ~fl[c]
  BY <1>1 DEF IInv, Masked
<1>3. ASSUME held[c] = {}, cur[c] \in Threads, frames[cur[c]] # <<>>
      PROVE  fl[c] = frames[cur[c]][Len(frames[cur[c]])]
  <2>1. fl[c] <=> frames[cur[c]] \notin Handling
    BY <1>1, <1>3 DEF IInv, Flags, Kept
  <2>2. frames[cur[c]] \in Shapes /\ fl[c] \in BOOLEAN
    BY DEF IInv, Types
  <2>3. frames[cur[c]][Len(frames[cur[c]])] <=> frames[cur[c]] \notin Handling
    BY <1>3, <2>2, FrameShapes
  <2>4. frames[cur[c]][Len(frames[cur[c]])] \in BOOLEAN
    <3>1. <<TRUE>>[Len(<<TRUE>>)] = TRUE /\ <<FALSE>>[Len(<<FALSE>>)] = FALSE
      BY ShortSeqs, ZenonT(60)
    <3>2. <<TRUE, FALSE>>[Len(<<TRUE, FALSE>>)] = FALSE
      BY ShortSeqs, ZenonT(60)
    <3> QED
      BY <1>3, <2>2, <3>1, <3>2, ZenonT(60) DEF Shapes
  <2> QED
    BY <2>1, <2>2, <2>3, <2>4
<1> QED
  BY <1>2, <1>3

-----------------------------------------------------------------------------
(* acquire and release of spinlock.c, with interrupts and sched between     *)
(* them, give a lock to one CPU at a time.                                  *)
THEOREM SpinMutualExclusion == Spec => []MutualExclusion
BY InitIInv, IInvStep, ImpliesMutualExclusion, PTL DEF Spec

(* The panics of acquire, release, popcli and sched are unreachable. *)
THEOREM SpinNoPanic == Spec => []NoPanic
BY InitIInv, IInvStep, ImpliesNoPanic, PTL DEF Spec

(* With its last release a thread gets back the interrupt flag it had, also *)
(* when sched has moved it to another CPU.                                  *)
THEOREM SpinFlagRestored == Spec => []FlagRestored
BY InitIInv, IInvStep, ImpliesFlagRestored, PTL DEF Spec
=============================================================================
