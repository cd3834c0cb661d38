----------------------------- MODULE PipeProofs -----------------------------
(***************************************************************************)
(* Proofs about Pipe, for every number of readers and writers and every    *)
(* size of the ring.                                                       *)
(***************************************************************************)
EXTENDS Pipe, TLAPS

(* pipealloc makes a descriptor for each side. *)
BothSides == Readers # {} /\ Writers # {}

Gone == {"closed", "kfree"}

Types ==
  /\ readopen \in BOOLEAN /\ writeopen \in BOOLEAN /\ freed \in BOOLEAN
  /\ lock \in Procs \cup {None}
  /\ open \subseteq Procs
  /\ i \in [Procs -> Nat]
  /\ pc \in [Procs -> {"out", "acquire", "loop", "sleep", "asleep", "pipeclose", "kfree", "closed"}]

(* p->lock is held in the loops and on the way to sleep. *)
Holder == \A p \in Procs : lock = p <=> pc[p] \in {"loop", "sleep"}

(* The last close of a side comes after all the others of the side, and the *)
(* flags of the pipe say which sides have closed.                           *)
Closing ==
  /\ \A p \in Procs : p \in open <=> pc[p] \notin Gone \cup {"pipeclose"}
  /\ \A p \in Procs : pc[p] \in {"pipeclose", "kfree"} =>
       \A q \in Side(p) \ {p} : pc[q] = "closed"
  /\ readopen <=> \E p \in Readers : pc[p] \notin Gone
  /\ writeopen <=> \E p \in Writers : pc[p] \notin Gone

(* The page goes with the second pipeclose. *)
Freeing ==
  /\ \A p, q \in Procs : pc[p] = "kfree" /\ pc[q] = "kfree" => p = q
  /\ freed => \A p \in Procs : pc[p] = "closed"
  /\ ~readopen /\ ~writeopen => freed \/ \E p \in Procs : pc[p] = "kfree"
  /\ \A p \in Procs : pc[p] = "kfree" => ~readopen /\ ~writeopen

KInv == Types /\ Holder /\ Closing /\ Freeing

(* Who sleeps has a reason to, or somebody who will wake it holds the lock: *)
(* a writer in its loop, or a reader in its loop that has read something.   *)
Waiting ==
  /\ \A p \in Procs : pc[p] = "sleep" =>
       \/ p \in Readers /\ Empty /\ writeopen
       \/ p \in Writers /\ Full /\ readopen
  /\ \A p \in Procs : pc[p] = "asleep" =>
       \/ p \in Readers /\ Writers \cap killed # {}
       \/ p \in Readers /\ Empty /\ writeopen
       \/ p \in Writers /\ Full /\ readopen
       \/ p \in Readers /\ \E q \in Writers : lock = q /\ pc[q] = "loop"
       \/ p \in Writers /\ \E q \in Readers : lock = q /\ pc[q] = "loop" /\ i[q] # 0

-----------------------------------------------------------------------------
USE SMTT(60), ZenonT(60) DEF vars, ring, ends, Procs, Goto

(* The constants are as the code has them. *)
LEMMA Consts ==
  /\ Readers \cap Writers = {} /\ None \notin Procs
  /\ Lens \subseteq Nat
BY PipeAssumption

(* pipealloc establishes it all. *)
LEMMA InitKInv == Init /\ BothSides => KInv /\ Waiting
<1> SUFFICES ASSUME Init, BothSides PROVE KInv /\ Waiting
  OBVIOUS
<1>1. Types
  BY ZenonT(60) DEF Init, Types
<1>2. Holder
  BY Consts DEF Init, Holder
<1>3. Closing
  BY DEF Init, Closing, Gone, BothSides
<1>4. Freeing
  BY DEF Init, Freeing
<1>5. Waiting
  BY DEF Init, Waiting
<1> QED
  BY <1>1, <1>2, <1>3, <1>4, <1>5 DEF KInv

(* Every step keeps the types. *)
LEMMA TypesStep == KInv /\ [Next]_vars => Types'
<1> SUFFICES ASSUME KInv, [Next]_vars PROVE Types'
  OBVIOUS
<1>0. Types
  BY DEF KInv
<1>1. ASSUME NEW p \in Procs, NEW k \in Lens, Call(p, k) PROVE Types'
  BY <1>0, <1>1 DEF Call, Types
<1>2. ASSUME NEW p \in Procs, acquire(p) PROVE Types'
  BY <1>0, <1>2 DEF acquire, Types
<1>3. ASSUME NEW p \in Procs, NEW v \in Byte, WriteByte(p, v) PROVE Types'
  BY <1>0, <1>3 DEF WriteByte, Types
<1>4. ASSUME NEW p \in Procs, WriteFull(p) PROVE Types'
  BY <1>0, <1>4 DEF WriteFull, Return, Wake, Types
<1>5. ASSUME NEW p \in Procs, WriteDone(p) PROVE Types'
  BY <1>0, <1>5 DEF WriteDone, Return, Wake, Types
<1>6. ASSUME NEW p \in Procs, ReadWait(p) PROVE Types'
  BY <1>0, <1>6 DEF ReadWait, Return, Types
<1>7. ASSUME NEW p \in Procs, ReadByte(p) PROVE Types'
  BY <1>0, <1>7 DEF ReadByte, Types
<1>8. ASSUME NEW p \in Procs, ReadDone(p) PROVE Types'
  BY <1>0, <1>8 DEF ReadDone, Return, Wake, Types
<1>9. ASSUME NEW p \in Procs, sleep(p) PROVE Types'
  BY <1>0, <1>9 DEF sleep, Types
<1>10. ASSUME NEW p \in Procs, kfree(p) PROVE Types'
  BY <1>0, <1>10 DEF kfree, Types
<1>11. ASSUME NEW p \in Procs, fileclose(p) PROVE Types'
  BY <1>0, <1>11 DEF fileclose, Types
<1>12. ASSUME NEW p \in Procs, pipeclose(p) PROVE Types'
  <2>1. readopen' \in BOOLEAN /\ writeopen' \in BOOLEAN
    BY <1>12 DEF pipeclose
  <2> QED
    BY <1>0, <1>12, <2>1 DEF pipeclose, CloseWake, Wake, Types
<1>13. ASSUME NEW p \in Procs, kill(p) PROVE Types'
  BY <1>0, <1>13 DEF kill, Wake, Types
<1>14. CASE UNCHANGED vars
  BY <1>0, <1>14 DEF Types
<1> QED
  BY <1>1, <1>2, <1>3, <1>4, <1>5, <1>6, <1>7, <1>8, <1>9, <1>10, <1>11, <1>12, <1>13, <1>14
     DEF Next, Inside

(* p->lock has one holder, the process between acquire and release or sleep. *)
LEMMA HolderStep == KInv /\ [Next]_vars => Holder'
<1> SUFFICES ASSUME KInv, [Next]_vars PROVE Holder'
  OBVIOUS
<1>0. Types /\ Holder
  BY DEF KInv
<1>1. ASSUME NEW p \in Procs, NEW k \in Lens, Call(p, k) PROVE Holder'
  BY <1>0, <1>1, Consts DEF Call, Types, Holder
<1>2. ASSUME NEW p \in Procs, acquire(p) PROVE Holder'
  BY <1>0, <1>2, Consts DEF acquire, Types, Holder
<1>3. ASSUME NEW p \in Procs, NEW v \in Byte, WriteByte(p, v) PROVE Holder'
  BY <1>0, <1>3, Consts DEF WriteByte, Types, Holder
<1>4. ASSUME NEW p \in Procs, WriteFull(p) PROVE Holder'
  BY <1>0, <1>4, Consts DEF WriteFull, Return, Wake, Types, Holder
<1>5. ASSUME NEW p \in Procs, WriteDone(p) PROVE Holder'
  BY <1>0, <1>5, Consts DEF WriteDone, Return, Wake, Types, Holder
<1>6. ASSUME NEW p \in Procs, ReadWait(p) PROVE Holder'
  BY <1>0, <1>6, Consts DEF ReadWait, Return, Types, Holder
<1>7. ASSUME NEW p \in Procs, ReadByte(p) PROVE Holder'
  BY <1>0, <1>7, Consts DEF ReadByte, Types, Holder
<1>8. ASSUME NEW p \in Procs, ReadDone(p) PROVE Holder'
  BY <1>0, <1>8, Consts DEF ReadDone, Return, Wake, Types, Holder
<1>9. ASSUME NEW p \in Procs, sleep(p) PROVE Holder'
  BY <1>0, <1>9, Consts DEF sleep, Types, Holder
<1>10. ASSUME NEW p \in Procs, kfree(p) PROVE Holder'
  BY <1>0, <1>10, Consts DEF kfree, Types, Holder
<1>11. ASSUME NEW p \in Procs, fileclose(p) PROVE Holder'
  BY <1>0, <1>11, Consts DEF fileclose, Types, Holder
<1>12. ASSUME NEW p \in Procs, pipeclose(p) PROVE Holder'
  BY <1>0, <1>12, Consts DEF pipeclose, CloseWake, Wake, Types, Holder
<1>13. ASSUME NEW p \in Procs, kill(p) PROVE Holder'
  BY <1>0, <1>13, Consts DEF kill, Wake, Types, Holder
<1>14. CASE UNCHANGED vars
  BY <1>0, <1>14 DEF Types, Holder
<1> QED
  BY <1>1, <1>2, <1>3, <1>4, <1>5, <1>6, <1>7, <1>8, <1>9, <1>10, <1>11, <1>12, <1>13, <1>14
     DEF Next, Inside

(* A step that closes nothing leaves the rest of KInv alone. *)
LEMMA Frame ==
  ASSUME Closing, Freeing, UNCHANGED <<ends, freed, open>>,
         \A q \in Procs : \A s \in {"pipeclose", "kfree", "closed"} : pc'[q] = s <=> pc[q] = s
  PROVE  Closing' /\ Freeing'
<1>1. Closing'
  BY DEF Closing, Gone, Side
<1>2. Freeing'
  BY DEF Freeing
<1> QED
  BY <1>1, <1>2

(* The order of the closes, and the page with the last of them. *)
LEMMA ClosingStep == KInv /\ [Next]_vars => Closing' /\ Freeing'
<1> SUFFICES ASSUME KInv, [Next]_vars PROVE Closing' /\ Freeing'
  OBVIOUS
<1>0. Types /\ Closing /\ Freeing
  BY DEF KInv
<1>1. ASSUME NEW p \in Procs, NEW k \in Lens, Call(p, k) PROVE Closing' /\ Freeing'
  <2>1. \A q \in Procs : \A s \in {"pipeclose", "kfree", "closed"} : pc'[q] = s <=> pc[q] = s
    BY <1>0, <1>1 DEF Call, Types
  <2>2. UNCHANGED <<ends, freed, open>>
    BY <1>1 DEF Call
  <2> QED
    BY <1>0, <2>1, <2>2, Frame
<1>2. ASSUME NEW p \in Procs, acquire(p) PROVE Closing' /\ Freeing'
  <2>1. \A q \in Procs : \A s \in {"pipeclose", "kfree", "closed"} : pc'[q] = s <=> pc[q] = s
    BY <1>0, <1>2 DEF acquire, Types
  <2>2. UNCHANGED <<ends, freed, open>>
    BY <1>2 DEF acquire
  <2> QED
    BY <1>0, <2>1, <2>2, Frame
<1>3. ASSUME NEW p \in Procs, NEW v \in Byte, WriteByte(p, v) PROVE Closing' /\ Freeing'
  <2>1. \A q \in Procs : \A s \in {"pipeclose", "kfree", "closed"} : pc'[q] = s <=> pc[q] = s
    BY <1>0, <1>3 DEF WriteByte, Types
  <2>2. UNCHANGED <<ends, freed, open>>
    BY <1>3 DEF WriteByte
  <2> QED
    BY <1>0, <2>1, <2>2, Frame
<1>4. ASSUME NEW p \in Procs, WriteFull(p) PROVE Closing' /\ Freeing'
  <2>1. \A q \in Procs : \A s \in {"pipeclose", "kfree", "closed"} : pc'[q] = s <=> pc[q] = s
    BY <1>0, <1>4 DEF WriteFull, Return, Wake, Types
  <2>2. UNCHANGED <<ends, freed, open>>
    BY <1>4 DEF WriteFull, Return
  <2> QED
    BY <1>0, <2>1, <2>2, Frame
<1>5. ASSUME NEW p \in Procs, WriteDone(p) PROVE Closing' /\ Freeing'
  <2>1. \A q \in Procs : \A s \in {"pipeclose", "kfree", "closed"} : pc'[q] = s <=> pc[q] = s
    BY <1>0, <1>5 DEF WriteDone, Return, Wake, Types
  <2>2. UNCHANGED <<ends, freed, open>>
    BY <1>5 DEF WriteDone, Return
  <2> QED
    BY <1>0, <2>1, <2>2, Frame
<1>6. ASSUME NEW p \in Procs, ReadWait(p) PROVE Closing' /\ Freeing'
  <2>1. \A q \in Procs : \A s \in {"pipeclose", "kfree", "closed"} : pc'[q] = s <=> pc[q] = s
    BY <1>0, <1>6 DEF ReadWait, Return, Types
  <2>2. UNCHANGED <<ends, freed, open>>
    BY <1>6 DEF ReadWait, Return
  <2> QED
    BY <1>0, <2>1, <2>2, Frame
<1>7. ASSUME NEW p \in Procs, ReadByte(p) PROVE Closing' /\ Freeing'
  <2>1. \A q \in Procs : \A s \in {"pipeclose", "kfree", "closed"} : pc'[q] = s <=> pc[q] = s
    BY <1>0, <1>7 DEF ReadByte, Types
  <2>2. UNCHANGED <<ends, freed, open>>
    BY <1>7 DEF ReadByte
  <2> QED
    BY <1>0, <2>1, <2>2, Frame
<1>8. ASSUME NEW p \in Procs, ReadDone(p) PROVE Closing' /\ Freeing'
  <2>1. \A q \in Procs : \A s \in {"pipeclose", "kfree", "closed"} : pc'[q] = s <=> pc[q] = s
    BY <1>0, <1>8 DEF ReadDone, Return, Wake, Types
  <2>2. UNCHANGED <<ends, freed, open>>
    BY <1>8 DEF ReadDone, Return
  <2> QED
    BY <1>0, <2>1, <2>2, Frame
<1>9. ASSUME NEW p \in Procs, sleep(p) PROVE Closing' /\ Freeing'
  <2>1. \A q \in Procs : \A s \in {"pipeclose", "kfree", "closed"} : pc'[q] = s <=> pc[q] = s
    BY <1>0, <1>9 DEF sleep, Types
  <2>2. UNCHANGED <<ends, freed, open>>
    BY <1>9 DEF sleep
  <2> QED
    BY <1>0, <2>1, <2>2, Frame
<1>10. ASSUME NEW p \in Procs, kfree(p) PROVE Closing' /\ Freeing'
  <2>1. /\ pc[p] = "kfree" /\ freed' = TRUE /\ UNCHANGED <<ends, open>>
        /\ pc' = [pc EXCEPT ![p] = "closed"]
    BY <1>10 DEF kfree
  <2>2. \A q \in Procs \ {p} : pc[q] = "closed"
    BY <1>0, <2>1 DEF Closing, Freeing, Gone
  <2>3. \A q \in Procs : pc'[q] = "closed"
    BY <1>0, <2>1, <2>2 DEF Types
  <2>4. Closing'
    BY <1>0, <2>1, <2>3 DEF Closing, Freeing, Gone, Types
  <2>5. Freeing'
    BY <2>1, <2>3 DEF Freeing
  <2> QED
    BY <2>4, <2>5
<1>11. ASSUME NEW p \in Procs, fileclose(p) PROVE Closing' /\ Freeing'
  <2> DEFINE l == IF open \cap Side(p) = {p} THEN "pipeclose" ELSE "closed"
  <2>1. /\ pc[p] = "out" /\ open' = open \ {p} /\ UNCHANGED <<ends, freed>>
        /\ pc' = [pc EXCEPT ![p] = l]
    BY <1>11 DEF fileclose
  <2>2. p \in open /\ p \in Side(p) /\ Side(p) \subseteq Procs
    BY <1>0, <2>1 DEF Closing, Gone, Side
  <2>3. l = "pipeclose" => \A q \in Side(p) \ {p} : pc[q] \in Gone \cup {"pipeclose"}
    BY <1>0, <2>2 DEF Closing
  <2>4. \A q \in Side(p) : pc[q] \notin {"pipeclose", "kfree"}
    BY <1>0, <2>1, <2>2, Consts DEF Closing, Side
  <2>5. l = "pipeclose" => \A q \in Side(p) \ {p} : pc[q] = "closed"
    BY <2>3, <2>4 DEF Gone
  <2>6. l = "closed" => \E q \in Side(p) \ {p} : pc[q] \notin Gone
    BY <1>0, <2>2 DEF Closing
  <2> HIDE DEF l
  <2>7. l \in {"pipeclose", "closed"}
    BY DEF l
  <2>8. Closing'
    <3>1. (\A q \in Procs : q \in open <=> pc[q] \notin Gone \cup {"pipeclose"})'
      BY <1>0, <2>1, <2>7 DEF Closing, Gone, Types
    <3>2. (\A q \in Procs : pc[q] \in {"pipeclose", "kfree"} =>
             \A r \in Side(q) \ {q} : pc[r] = "closed")'
      BY <1>0, <2>1, <2>2, <2>4, <2>5, <2>7, Consts DEF Closing, Types, Side
    <3>3. (readopen <=> \E q \in Readers : pc[q] \notin Gone)'
      BY <1>0, <2>1, <2>2, <2>6, <2>7, Consts DEF Closing, Types, Side, Gone
    <3>4. (writeopen <=> \E q \in Writers : pc[q] \notin Gone)'
      BY <1>0, <2>1, <2>2, <2>6, <2>7, Consts DEF Closing, Types, Side, Gone
    <3> QED
      BY <3>1, <3>2, <3>3, <3>4 DEF Closing
  <2>9. Freeing'
    BY <1>0, <2>1, <2>7 DEF Freeing, Types
  <2> QED
    BY <2>8, <2>9
<1>12. ASSUME NEW p \in Procs, pipeclose(p) PROVE Closing' /\ Freeing'
  <2> DEFINE l == IF BothClosed THEN "kfree" ELSE "closed"
  <2>1. /\ pc[p] = "pipeclose" /\ UNCHANGED <<freed, open>>
        /\ readopen' = (readopen /\ p \notin Readers)
        /\ writeopen' = (writeopen /\ p \notin Writers)
    BY <1>12 DEF pipeclose
  <2>2. /\ pc'[p] = l
        /\ \A q \in Procs \ {p} : \A s \in {"pipeclose", "kfree", "closed"} : pc'[q] = s <=> pc[q] = s
    BY <1>0, <1>12 DEF pipeclose, CloseWake, Wake, Types
  <2>3. \A q \in Side(p) \ {p} : pc[q] = "closed"
    BY <1>0, <2>1 DEF Closing
  <2>4. l \in Gone /\ (l = "kfree" <=> ~readopen' /\ ~writeopen')
    BY DEF Gone, BothClosed
  <2>5. ~freed /\ \A q \in Procs : pc[q] # "kfree"
    BY <1>0, <2>1, Consts DEF Closing, Freeing, Gone
  <2> HIDE DEF l
  <2>6. Closing'
    <3>1. (\A q \in Procs : q \in open <=> pc[q] \notin Gone \cup {"pipeclose"})'
      BY <1>0, <2>1, <2>2, <2>4 DEF Closing, Gone
    <3>2. (\A q \in Procs : pc[q] \in {"pipeclose", "kfree"} =>
             \A r \in Side(q) \ {q} : pc[r] = "closed")'
      BY <1>0, <2>1, <2>2, <2>3, <2>4, <2>5, Consts DEF Closing, Side, Gone
    <3>3. (readopen <=> \E q \in Readers : pc[q] \notin Gone)'
      BY <1>0, <2>1, <2>2, <2>3, <2>4, Consts, ZenonT(60) DEF Closing, Side, Gone
    <3>4. (writeopen <=> \E q \in Writers : pc[q] \notin Gone)'
      BY <1>0, <2>1, <2>2, <2>3, <2>4, Consts, ZenonT(60) DEF Closing, Side, Gone
    <3> QED
      BY <3>1, <3>2, <3>3, <3>4 DEF Closing
  <2>7. Freeing'
    BY <2>1, <2>2, <2>4, <2>5 DEF Freeing
  <2> QED
    BY <2>6, <2>7
<1>13. ASSUME NEW p \in Procs, kill(p) PROVE Closing' /\ Freeing'
  <2>1. \A q \in Procs : \A s \in {"pipeclose", "kfree", "closed"} : pc'[q] = s <=> pc[q] = s
    BY <1>0, <1>13 DEF kill, Wake, Types
  <2>2. UNCHANGED <<ends, freed, open>>
    BY <1>13 DEF kill
  <2> QED
    BY <1>0, <2>1, <2>2, Frame
<1>14. CASE UNCHANGED vars
  BY <1>0, <1>14, Frame DEF Closing, Freeing
<1> QED
  BY <1>1, <1>2, <1>3, <1>4, <1>5, <1>6, <1>7, <1>8, <1>9, <1>10, <1>11, <1>12, <1>13, <1>14
     DEF Next, Inside

(* Nobody sleeps past the change it waits for. *)
LEMMA WaitingStep == KInv /\ Waiting /\ [Next]_vars => Waiting'
<1> SUFFICES ASSUME KInv, Waiting, [Next]_vars PROVE Waiting'
  OBVIOUS
<1>0. Types /\ Holder /\ Waiting
  BY DEF KInv
<1>1. ASSUME NEW p \in Procs, NEW k \in Lens, Call(p, k) PROVE Waiting'
  BY <1>0, <1>1, Consts DEF Call, Types, Holder, Waiting, Empty, Full
<1>2. ASSUME NEW p \in Procs, acquire(p) PROVE Waiting'
  BY <1>0, <1>2, Consts DEF acquire, Types, Holder, Waiting, Empty, Full
<1>3. ASSUME NEW p \in Procs, NEW v \in Byte, WriteByte(p, v) PROVE Waiting'
  BY <1>0, <1>3, Consts DEF WriteByte, Types, Holder, Waiting, Empty, Full
<1>4. ASSUME NEW p \in Procs, WriteFull(p) PROVE Waiting'
  <2>1. CASE ~readopen \/ p \in killed
    <3>1. \A q \in Readers : ~readopen => pc[q] # "asleep"
      BY DEF KInv, Closing, Gone
    <3> QED
      BY <1>0, <1>4, <2>1, <3>1, Consts DEF WriteFull, Return, Types, Holder, Waiting, Empty, Full
  <2>2. CASE ~(~readopen \/ p \in killed)
    BY <1>0, <1>4, <2>2, Consts DEF WriteFull, Wake, Types, Holder, Waiting, Empty, Full
  <2> QED
    BY <2>1, <2>2
<1>5. ASSUME NEW p \in Procs, WriteDone(p) PROVE Waiting'
  BY <1>0, <1>5, Consts DEF WriteDone, Return, Wake, Types, Holder, Waiting, Empty, Full
<1>6. ASSUME NEW p \in Procs, ReadWait(p) PROVE Waiting'
  BY <1>0, <1>6, Consts DEF ReadWait, MustWait, Return, Types, Holder, Waiting, Empty, Full
<1>7. ASSUME NEW p \in Procs, ReadByte(p) PROVE Waiting'
  BY <1>0, <1>7, Consts DEF ReadByte, Types, Holder, Waiting, Empty, Full
<1>8. ASSUME NEW p \in Procs, ReadDone(p) PROVE Waiting'
  BY <1>0, <1>8, Consts DEF ReadDone, Return, Wake, Types, Holder, Waiting, Empty, Full
<1>9. ASSUME NEW p \in Procs, sleep(p) PROVE Waiting'
  BY <1>0, <1>9, Consts DEF sleep, Types, Holder, Waiting, Empty, Full
<1>10. ASSUME NEW p \in Procs, kfree(p) PROVE Waiting'
  BY <1>0, <1>10, Consts DEF kfree, Types, Holder, Waiting, Empty, Full
<1>11. ASSUME NEW p \in Procs, fileclose(p) PROVE Waiting'
  BY <1>0, <1>11, Consts DEF fileclose, Types, Holder, Waiting, Empty, Full
<1>12. ASSUME NEW p \in Procs, pipeclose(p) PROVE Waiting'
  <2>1. /\ lock = None /\ pc[p] = "pipeclose" /\ UNCHANGED <<ring, lock, killed, i>>
        /\ readopen' = (readopen /\ p \notin Readers)
        /\ writeopen' = (writeopen /\ p \notin Writers)
    BY <1>12 DEF pipeclose
  <2>2. \A q \in Procs : /\ pc'[q] # "sleep"
                         /\ pc'[q] = "asleep" => q \in Side(p) /\ pc[q] = "asleep"
    BY <1>0, <1>12, <2>1, Consts DEF pipeclose, CloseWake, Wake, Types, Holder
  <2> QED
    BY <1>0, <2>1, <2>2, Consts, ZenonT(60) DEF Waiting, Side, Empty, Full
<1>13. ASSUME NEW p \in Procs, kill(p) PROVE Waiting'
  BY <1>0, <1>13, Consts DEF kill, Wake, Types, Holder, Waiting, Empty, Full
<1>14. CASE UNCHANGED vars
  BY <1>0, <1>14 DEF Types, Holder, Waiting, Empty, Full
<1> QED
  BY <1>1, <1>2, <1>3, <1>4, <1>5, <1>6, <1>7, <1>8, <1>9, <1>10, <1>11, <1>12, <1>13, <1>14
     DEF Next, Inside

-----------------------------------------------------------------------------
(* KInv and Waiting hold for ever. *)
LEMMA Invariance == BothSides /\ Spec => [](KInv /\ Waiting)
<1>1. KInv /\ Waiting /\ [Next]_vars => (KInv /\ Waiting)'
  BY TypesStep, HolderStep, ClosingStep, WaitingStep DEF KInv
<1> QED
  BY InitKInv, <1>1, PTL DEF Spec

(* However many processes share the two ends, and in whatever order they    *)
(* exit, pipeclose frees the pipe's page once, when every one has closed.   *)
THEOREM PipeFreedLast == BothSides /\ Spec => []FreedLast
<1>1. KInv => FreedLast
  <2> SUFFICES ASSUME KInv PROVE FreedLast
    OBVIOUS
  <2>0. Types /\ Closing /\ Freeing
    BY DEF KInv
  <2>1. ASSUME NEW p \in Procs, pc[p] = "kfree", NEW q \in Procs \ {p} PROVE pc[q] = "closed"
    BY <2>0, <2>1 DEF Closing, Freeing, Gone
  <2>2. (\A p \in Procs : pc[p] = "closed") => freed
    BY <2>0 DEF Closing, Freeing, Gone
  <2> QED
    BY <2>0, <2>1, <2>2 DEF Freeing, FreedLast
<1> QED
  BY Invariance, <1>1, PTL

(* However the readers and writers interleave with each other and with kill, *)
(* a wakeup of piperead, pipewrite or pipeclose is never lost.               *)
THEOREM PipeNoLostWakeup == BothSides /\ Spec => []NoLostWakeup
<1>1. Waiting => NoLostWakeup
  BY Consts DEF Waiting, NoLostWakeup, Side
<1> QED
  BY Invariance, <1>1, PTL

-----------------------------------------------------------------------------
(* What a byte of the ring holds: junk of the page, or a byte written. *)
Cell == Byte \cup {CHOOSE v \in Byte : TRUE}

(* The counters are uints, and no more than the ring's size apart. *)
Counters ==
  /\ data \in [0..(PIPESIZE - 1) -> Cell]
  /\ nread \in 0..(UINT - 1) /\ nwrite \in 0..(UINT - 1)
  /\ Used <= PIPESIZE

(* The size of the ring and the range of a uint. *)
LEMMA Sizes ==
  /\ PIPESIZE \in Nat /\ PIPESIZE > 0
  /\ UINT \in Nat /\ UINT > PIPESIZE /\ UINT % PIPESIZE = 0
BY PipeAssumption

(* Quotient and remainder. *)
LEMMA DivMod ==
  ASSUME NEW m \in Nat, m > 0, NEW a \in Int
  PROVE  a \div m \in Int /\ a % m \in 0..(m - 1) /\ a = m * (a \div m) + (a % m)
OBVIOUS

(* The remainder is determined by its equation. *)
LEMMA Remainder ==
  ASSUME NEW m \in Nat, m > 0, NEW a \in Int, NEW k \in Int, NEW x \in 0..(m - 1), a = m * k + x
  PROVE  a % m = x
OBVIOUS

(* The wrap of a uint does not move its place in the ring. *)
LEMMA Wrap ==
  ASSUME NEW a \in Int
  PROVE  (UINT + a) % PIPESIZE = a % PIPESIZE
<1> DEFINE m == UINT \div PIPESIZE
           k == a \div PIPESIZE
           x == a % PIPESIZE
<1>1. UINT = PIPESIZE * m /\ m \in Int
  BY Sizes, DivMod
<1>2. a = PIPESIZE * k + x /\ k \in Int /\ x \in 0..(PIPESIZE - 1)
  BY Sizes, DivMod
<1> HIDE DEF m, k, x
<1>3. UINT + a = PIPESIZE * (m + k) + x
  BY <1>1, <1>2, Sizes
<1>4. (UINT + a) % PIPESIZE = x
  BY <1>1, <1>2, <1>3, Remainder, Sizes
<1> QED
  BY <1>4 DEF x

(* Counts less than the ring's size apart have different places. *)
LEMMA Apart ==
  ASSUME NEW a \in Int, NEW d \in 1..(PIPESIZE - 1)
  PROVE  (a + d) % PIPESIZE # a % PIPESIZE
<1> SUFFICES ASSUME (a + d) % PIPESIZE = a % PIPESIZE PROVE FALSE
  OBVIOUS
<1> DEFINE m == (a + d) \div PIPESIZE
           k == a \div PIPESIZE
           x == a % PIPESIZE
<1>1. a + d = PIPESIZE * m + x /\ m \in Int
  BY Sizes, DivMod
<1>2. a = PIPESIZE * k + x /\ k \in Int /\ x \in Int
  BY Sizes, DivMod
<1> HIDE DEF m, k, x
<1>3. d = PIPESIZE * (m - k)
  BY <1>1, <1>2, Sizes
<1>4. CASE m - k >= 1
  <2>1. PIPESIZE * (m - k) >= PIPESIZE
    BY <1>1, <1>2, <1>4, Sizes
  <2> QED
    BY <1>3, <2>1, Sizes
<1>5. CASE m - k <= 0
  <2>1. PIPESIZE * (m - k) <= 0
    BY <1>1, <1>2, <1>5, Sizes
  <2> QED
    BY <1>3, <2>1, Sizes
<1> QED
  BY <1>1, <1>2, <1>4, <1>5

(* The number of bytes in the pipe, and where the next one goes. *)
LEMMA UsedIs ==
  ASSUME Counters
  PROVE  /\ Used \in 0..PIPESIZE
         /\ Used = IF nread <= nwrite THEN nwrite - nread ELSE nwrite - nread + UINT
         /\ Empty <=> Used = 0
         /\ Full <=> Used = PIPESIZE
         /\ nwrite % PIPESIZE = (nread + Used) % PIPESIZE
<1>1. Used = IF nread <= nwrite THEN nwrite - nread ELSE nwrite - nread + UINT
  BY Sizes DEF Counters, Used
<1>2. Used \in 0..PIPESIZE
  BY <1>1, Sizes DEF Counters
<1>3. (nread + PIPESIZE) % UINT =
        IF nread + PIPESIZE < UINT THEN nread + PIPESIZE ELSE nread + PIPESIZE - UINT
  BY Sizes DEF Counters
<1>4. Full <=> Used = PIPESIZE
  BY <1>1, <1>3, Sizes DEF Counters, Full
<1>5. Empty <=> Used = 0
  BY <1>1, Sizes DEF Counters, Empty
<1>6. nread + Used = nwrite \/ nread + Used = UINT + nwrite
  BY <1>1, Sizes DEF Counters
<1>7. nwrite % PIPESIZE = (nread + Used) % PIPESIZE
  <2>1. nwrite \in Int
    BY DEF Counters
  <2> QED
    BY <1>6, <2>1, Wrap
<1> QED
  BY <1>1, <1>2, <1>4, <1>5, <1>7

(* The bytes in the pipe are a sequence. *)
LEMMA ContentsIs == Counters => Contents \in Seq(Cell) /\ Len(Contents) = Used
<1> SUFFICES ASSUME Counters PROVE Contents \in Seq(Cell) /\ Len(Contents) = Used
  OBVIOUS
<1>1. Used \in Nat
  BY UsedIs
<1>2. ASSUME NEW k \in 1..Used PROVE data[(nread + k - 1) % PIPESIZE] \in Cell
  <2>1. nread + k - 1 \in Int
    BY <1>1 DEF Counters
  <2>2. (nread + k - 1) % PIPESIZE \in 0..(PIPESIZE - 1)
    BY <2>1, DivMod, Sizes
  <2> QED
    BY <2>2 DEF Counters
<1>3. Contents \in [1..Used -> Cell]
  BY <1>2 DEF Contents
<1> QED
  BY <1>1, <1>3 DEF Contents

(* A byte read was the oldest of the pipe. *)
LEMMA GetMaps ==
  ASSUME Counters, ~Empty, nread' = Inc(nread), UNCHANGED <<data, nwrite>>
  PROVE  Counters' /\ Contents # <<>> /\ Contents' = Tail(Contents)
<1>1. /\ Used \in 1..PIPESIZE /\ nread \in 0..(UINT - 1) /\ nwrite \in 0..(UINT - 1)
      /\ Used = IF nread <= nwrite THEN nwrite - nread ELSE nwrite - nread + UINT
  BY UsedIs, Sizes DEF Counters
<1>2. nread' = IF nread + 1 < UINT THEN nread + 1 ELSE 0
  BY <1>1, Sizes DEF Inc
<1>3. Used' = Used - 1
  <2>1. Used' = (nwrite - nread') % UINT
    BY DEF Used
  <2>2. (nwrite - nread') % UINT =
          IF nread' <= nwrite THEN nwrite - nread' ELSE nwrite - nread' + UINT
    BY <1>1, <1>2, Sizes
  <2> QED
    BY <1>1, <1>2, <2>1, <2>2, Sizes
<1>4. Counters'
  BY <1>1, <1>2, <1>3, Sizes DEF Counters
<1>5. Contents' \in Seq(Cell) /\ Len(Contents') = Used - 1
  <2>1. (Contents \in Seq(Cell) /\ Len(Contents) = Used)'
    BY <1>4, ContentsIs, PTL
  <2> QED
    BY <1>3, <2>1
<1>6. Contents \in Seq(Cell) /\ Len(Contents) = Used
  BY ContentsIs
<1>7. ASSUME NEW k \in 1..(Used - 1) PROVE Contents'[k] = Contents[k + 1]
  <2>1. Contents'[k] = data[(nread' + k - 1) % PIPESIZE]
    BY <1>3, <1>7 DEF Contents
  <2>2. Contents[k + 1] = data[(nread + k) % PIPESIZE]
    BY <1>1, <1>7 DEF Contents
  <2>3. nread' + k - 1 = nread + k \/ UINT + (nread' + k - 1) = nread + k
    BY <1>1, <1>2, Sizes
  <2>4. nread' + k - 1 \in Int
    BY <1>1, <1>2
  <2>5. (nread' + k - 1) % PIPESIZE = (nread + k) % PIPESIZE
    BY <2>3, <2>4, Wrap
  <2> QED
    BY <2>1, <2>2, <2>5
<1>8. Contents' = Tail(Contents)
  BY <1>1, <1>5, <1>6, <1>7
<1> QED
  BY <1>1, <1>4, <1>6, <1>8

(* A byte written becomes the newest of the pipe, and overwrites none. *)
LEMMA PutMaps ==
  ASSUME Counters, ~Full, NEW v \in Byte, data' = [data EXCEPT ![nwrite % PIPESIZE] = v],
         nwrite' = Inc(nwrite), nread' = nread
  PROVE  Counters' /\ Len(Contents) < PIPESIZE /\ Contents' = Append(Contents, v)
<1>1. /\ Used \in 0..(PIPESIZE - 1) /\ nread \in 0..(UINT - 1) /\ nwrite \in 0..(UINT - 1)
      /\ Used = IF nread <= nwrite THEN nwrite - nread ELSE nwrite - nread + UINT
      /\ nwrite % PIPESIZE = (nread + Used) % PIPESIZE
  BY UsedIs, Sizes DEF Counters
<1>2. nwrite' = IF nwrite + 1 < UINT THEN nwrite + 1 ELSE 0
  BY <1>1, Sizes DEF Inc
<1>3. Used' = Used + 1
  <2>1. Used' = (nwrite' - nread) % UINT
    BY DEF Used
  <2>2. (nwrite' - nread) % UINT =
          IF nread <= nwrite' THEN nwrite' - nread ELSE nwrite' - nread + UINT
    BY <1>1, <1>2, Sizes
  <2> QED
    BY <1>1, <1>2, <2>1, <2>2, Sizes
<1>4. nwrite % PIPESIZE \in 0..(PIPESIZE - 1) /\ v \in Cell
  BY <1>1, DivMod, Sizes DEF Cell
<1>5. Counters'
  BY <1>1, <1>2, <1>3, <1>4, Sizes DEF Counters
<1>6. Contents' \in Seq(Cell) /\ Len(Contents') = Used + 1
  <2>1. (Contents \in Seq(Cell) /\ Len(Contents) = Used)'
    BY <1>5, ContentsIs, PTL
  <2> QED
    BY <1>3, <2>1
<1>7. Contents \in Seq(Cell) /\ Len(Contents) = Used
  BY ContentsIs
<1>8. ASSUME NEW k \in 1..Used PROVE Contents'[k] = Contents[k]
  <2> DEFINE a == nread + k - 1
  <2>1. a \in Int /\ Used + 1 - k \in 1..(PIPESIZE - 1) /\ nread + Used = a + (Used + 1 - k)
    BY <1>1, <1>8, Sizes
  <2>2. Contents'[k] = data'[a % PIPESIZE]
    BY <1>1, <1>3 DEF Contents
  <2>3. Contents[k] = data[a % PIPESIZE]
    BY DEF Contents
  <2> HIDE DEF a
  <2>4. a % PIPESIZE # nwrite % PIPESIZE
    BY <1>1, <2>1, Apart
  <2>5. a % PIPESIZE \in 0..(PIPESIZE - 1)
    BY <2>1, DivMod, Sizes
  <2> QED
    BY <2>2, <2>3, <2>4, <2>5 DEF Counters
<1>9. Contents'[Used + 1] = v
  <2>1. Contents'[Used + 1] = data'[(nread + Used) % PIPESIZE]
    BY <1>1, <1>3 DEF Contents
  <2> QED
    BY <1>1, <1>4, <2>1 DEF Counters
<1>10. Contents' = Append(Contents, v)
  BY <1>1, <1>4, <1>6, <1>7, <1>8, <1>9
<1> QED
  BY <1>1, <1>5, <1>7, <1>10, Sizes

(* An empty pipe. *)
LEMMA InitCounters == Init => Counters /\ Contents = <<>>
<1> SUFFICES ASSUME Init PROVE Counters /\ Contents = <<>>
  OBVIOUS
<1>1. Used = 0
  BY Sizes DEF Init, Used
<1>2. Counters
  BY <1>1, Sizes DEF Init, Counters, Cell
<1> QED
  BY <1>1, <1>2, ContentsIs

(* The steps that leave the ring alone. *)
LEMMA SameContents ==
  ASSUME Counters, UNCHANGED ring
  PROVE  Counters' /\ Contents' = Contents
BY DEF Counters, Contents, Used

(* Every step of the pipe is one of the queue, or leaves it as it is. *)
LEMMA NextMaps ==
  ASSUME KInv, Counters, [Next]_vars
  PROVE  Counters' /\ [Abs!Next]_(Abs!fifo)
<1>1. ASSUME NEW p \in Procs, NEW v \in Byte, WriteByte(p, v)
      PROVE  Counters' /\ [Abs!Next]_(Abs!fifo)
  <2>1. Counters' /\ Len(Contents) < PIPESIZE /\ Contents' = Append(Contents, v)
    BY <1>1, PutMaps, ZenonT(60) DEF WriteByte
  <2>2. writeopen
    BY <1>1 DEF WriteByte, KInv, Types, Closing, Gone
  <2> QED
    BY <1>1, <2>1, <2>2 DEF WriteByte, Abs!Next, Abs!Put
<1>2. ASSUME NEW p \in Procs, ReadByte(p)
      PROVE  Counters' /\ [Abs!Next]_(Abs!fifo)
  <2>1. Counters' /\ Contents # <<>> /\ Contents' = Tail(Contents)
    BY <1>2, GetMaps DEF ReadByte
  <2>2. readopen
    BY <1>2 DEF ReadByte, KInv, Types, Closing, Gone
  <2> QED
    BY <1>2, <2>1, <2>2 DEF ReadByte, Abs!Next, Abs!Get
<1>3. ASSUME NEW p \in Procs, pipeclose(p)
      PROVE  Counters' /\ [Abs!Next]_(Abs!fifo)
  <2>1. Counters' /\ Contents' = Contents
    BY <1>3, SameContents DEF pipeclose
  <2>2. CASE p \in Readers
    <3>1. readopen = TRUE /\ readopen' = FALSE /\ writeopen' = writeopen
      BY <1>3, <2>2, Consts, ZenonT(60) DEF pipeclose, KInv, Types, Closing, Gone
    <3> QED
      BY <2>1, <3>1 DEF Abs!Next, Abs!CloseRead
  <2>3. CASE p \in Writers
    <3>1. writeopen = TRUE /\ writeopen' = FALSE /\ readopen' = readopen
      BY <1>3, <2>3, Consts, ZenonT(60) DEF pipeclose, KInv, Types, Closing, Gone
    <3> QED
      BY <2>1, <3>1 DEF Abs!Next, Abs!CloseWrite
  <2> QED
    BY <2>2, <2>3
<1>4. CASE UNCHANGED <<ring, ends>>
  BY <1>4, SameContents DEF Abs!fifo
<1>5. \/ \E p \in Procs, v \in Byte : WriteByte(p, v)
      \/ \E p \in Procs : ReadByte(p) \/ pipeclose(p)
      \/ UNCHANGED <<ring, ends>>
  BY ZenonT(60) DEF Next, Inside, Call, acquire, WriteFull, WriteDone, ReadWait, ReadDone, sleep, kfree,
    fileclose, kill
<1> QED
  BY <1>1, <1>2, <1>3, <1>4, <1>5

(* Whatever the size of the ring, however often the counters wrap and the   *)
(* readers and writers interleave: bytes come out once, in the order they   *)
(* went in, and an end that is closed stays closed.                         *)
THEOREM PipeIsFifo == BothSides /\ Spec => RefinesFifo
<1> SUFFICES ASSUME BothSides PROVE Spec => RefinesFifo
  OBVIOUS
<1>1. Init => Abs!Init /\ Counters
  BY InitCounters DEF Init, Abs!Init
<1>2. KInv /\ Counters /\ [Next]_vars => Counters' /\ [Abs!Next]_(Abs!fifo)
  BY NextMaps
<1> QED
  BY <1>1, <1>2, Invariance, PTL DEF Spec, RefinesFifo, Abs!Spec

=============================================================================
