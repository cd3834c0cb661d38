------------------------------ MODULE Console ------------------------------
(***************************************************************************)
(* Console input (console.c): the keyboard and serial interrupts edit a    *)
(* line in a ring, processes read complete lines from it.  cons.lock is    *)
(* explicit, so that kill, which does not take it, can come between the    *)
(* test of killed and sleep.  An interrupt delivers one character; one     *)
(* that finds more in the device is several in a row.  Echo, the process   *)
(* listing of ^P and the console's inode lock are left out.                *)
(***************************************************************************)
EXTENDS Integers, Sequences

CONSTANTS
  Readers,
  INPUT_BUF,
  UINT,          \* r, w and e count modulo this, a multiple of INPUT_BUF
  Letters,       \* characters without a meaning to the console
  Lens,          \* bound: the numbers of bytes asked for
  NL, CR, EOF,   \* '\n', '\r' and ^D
  None           \* nobody holds the lock

Chars == Letters \cup {NL, EOF}

ASSUME ConsoleAssumption ==
  /\ {INPUT_BUF, UINT} \cup Lens \subseteq Nat
  /\ INPUT_BUF > 0 /\ UINT > INPUT_BUF /\ UINT % INPUT_BUF = 0
  /\ CR \notin Chars
  /\ None \notin Readers

VARIABLES
  buf, r, w, e,    \* the fields of input
  lock,            \* the holder of cons.lock
  killed,
  pc,
  n, target        \* consoleread's locals

input == <<buf, r, w, e>>
local == <<n, target>>
vars == <<buf, r, w, e, lock, killed, pc, n, target>>

Init ==
  /\ buf = [k \in 0..(INPUT_BUF - 1) |-> CHOOSE c \in Letters : TRUE]
  /\ r = 0 /\ w = 0 /\ e = 0
  /\ lock = None
  /\ killed = {}
  /\ pc = [p \in Readers |-> "out"]
  /\ n = [p \in Readers |-> 0] /\ target = [p \in Readers |-> 0]

(* Differences and steps of uints. *)
Minus(x, y) == (x - y) % UINT
Inc(x) == (x + 1) % UINT
At(x) == buf[x % INPUT_BUF]

Goto(p, l) == pc' = [pc EXCEPT ![p] = l]

-----------------------------------------------------------------------------
(* consoleintr *)

(* Mutant: those asleep are not woken. *)
Wakeup_no(f) == f

(* wakeup(&input.r); sleep then takes cons.lock again. *)
Wakeup(f) == [p \in Readers |-> IF f[p] = "asleep" THEN "acquire" ELSE f[p]]

(* Mutant: a full ring is not handed over without a newline. *)
Complete_line(c, x) == c \in {NL, EOF}

(* The character c, with x the new edit index, completes the input. *)
Complete(c, x) == c \in {NL, EOF} \/ x = (r + INPUT_BUF) % UINT

(* Mutant: one character too many fits. *)
Room_late == Minus(e, r) <= INPUT_BUF

Room == Minus(e, r) < INPUT_BUF

Type(k) ==
  LET c == IF k = CR THEN NL ELSE k IN
    /\ lock = None
    /\ Room
    /\ buf' = [buf EXCEPT ![e % INPUT_BUF] = c]
    /\ e' = Inc(e)
    /\ IF Complete(c, e')
       THEN w' = e' /\ pc' = Wakeup(pc)
       ELSE UNCHANGED <<w, pc>>
    /\ UNCHANGED <<r, lock, killed, local>>

(* ^H *)
Backspace ==
  /\ lock = None
  /\ e # w
  /\ e' = Minus(e, 1)
  /\ UNCHANGED <<buf, r, w, lock, killed, pc, local>>

(* The characters ^U takes back: back to w or to a newline. *)
Erased ==
  CHOOSE k \in 0..Minus(e, w) :
    /\ \A j \in 1..k : At(Minus(e, j)) # NL
    /\ k = Minus(e, w) \/ At(Minus(e, k + 1)) = NL

(* ^U *)
KillLine ==
  /\ lock = None
  /\ e' = Minus(e, Erased)
  /\ UNCHANGED <<buf, r, w, lock, killed, pc, local>>

-----------------------------------------------------------------------------
(* consoleread *)

Call(p, k) ==
  /\ pc[p] = "out" /\ p \notin killed
  /\ n' = [n EXCEPT ![p] = k] /\ target' = [target EXCEPT ![p] = k]
  /\ Goto(p, "acquire")
  /\ UNCHANGED <<input, lock, killed>>

acquire(p) ==
  /\ pc[p] = "acquire" /\ lock = None
  /\ lock' = p
  /\ Goto(p, "loop")
  /\ UNCHANGED <<input, killed, local>>

Return(p) == Goto(p, "out") /\ lock' = None

Wait(p) ==
  /\ pc[p] = "loop" /\ n[p] > 0 /\ r = w
  /\ IF p \in killed THEN Return(p) ELSE Goto(p, "sleep") /\ UNCHANGED lock
  /\ UNCHANGED <<input, killed, local>>

(* sleep gives up cons.lock and the CPU in one step (see Proc). *)
sleep(p) ==
  /\ pc[p] = "sleep"
  /\ lock' = None
  /\ Goto(p, "asleep")
  /\ UNCHANGED <<input, killed, local>>

(* A ^D behind other characters is left for the next read. *)
SaveEOF(p) == n[p] < target[p]

Take(p) ==
  LET c == At(r) IN
    /\ pc[p] = "loop" /\ n[p] > 0 /\ r # w
    /\ \/ /\ c = EOF
          /\ r' = IF SaveEOF(p) THEN r ELSE Inc(r)
          /\ Return(p)
          /\ UNCHANGED n
       \/ /\ c # EOF
          /\ r' = Inc(r)
          /\ n' = [n EXCEPT ![p] = @ - 1]
          /\ IF c = NL THEN Return(p) ELSE UNCHANGED <<lock, pc>>
    /\ UNCHANGED <<buf, w, e, killed, target>>

Done(p) ==
  /\ pc[p] = "loop" /\ n[p] = 0
  /\ Return(p)
  /\ UNCHANGED <<input, killed, local>>

(* kill (proc.c) takes ptable.lock only. *)
kill(p) ==
  /\ p \notin killed
  /\ killed' = killed \cup {p}
  /\ pc' = IF pc[p] = "asleep" THEN [pc EXCEPT ![p] = "acquire"] ELSE pc
  /\ UNCHANGED <<input, lock, local>>

-----------------------------------------------------------------------------
Inside(p) == Wait(p) \/ sleep(p) \/ Take(p) \/ Done(p)

Next ==
  \/ \E c \in Chars \cup {CR} : Type(c)
  \/ Backspace \/ KillLine
  \/ \E p \in Readers : \/ \E k \in Lens : Call(p, k)
                        \/ acquire(p) \/ Inside(p) \/ kill(p)

Spec == Init /\ [][Next]_vars
-----------------------------------------------------------------------------

(* The indices keep their order around the ring, and a full ring can always *)
(* be read: otherwise every key, newline included, would be dropped while   *)
(* the readers sleep.                                                       *)
NeverStuck ==
  /\ Minus(w, r) <= Minus(e, r) /\ Minus(e, r) <= INPUT_BUF
  /\ Minus(e, r) = INPUT_BUF => w = e

(* A reader is asleep only while there is nothing to read, also when others *)
(* read part of a line or put a ^D back.                                    *)
NoLostWakeup == \A p \in Readers : pc[p] = "asleep" => r = w

(* "Save ^D for next time, to make sure caller gets a 0-byte result.": a ^D *)
(* is used up only by a read that returns nothing.                          *)
EofIsZero ==
  [][\A p \in Readers :
       (pc[p] = "loop" /\ r # w /\ At(r) = EOF /\ r' # r)
         => pc'[p] = "out" /\ target[p] - n'[p] = 0]_vars

(* The ring between two indices. *)
Text(from, to) == [k \in 1..Minus(to, from) |-> At((from + k - 1) % UINT)]

(* Readers get what was typed, as edited, each character once and in order, *)
(* whatever the interrupts and the readers do in between and when the       *)
(* indices wrap; a ^D ends a line for exactly one empty read.               *)
Abs == INSTANCE LineInput WITH q <- Text(r, w), line <- Text(w, e), Size <- INPUT_BUF
RefinesLineInput == Abs!Spec /\ EofIsZero
=============================================================================
