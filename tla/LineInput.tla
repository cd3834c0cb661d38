----------------------------- MODULE LineInput -----------------------------
(***************************************************************************)
(* What the console promises to those who read it: characters can be taken *)
(* back until their line is complete, and then come out once, in order.    *)
(***************************************************************************)
EXTENDS Naturals, Sequences

CONSTANTS Chars, NL, EOF, Size

VARIABLES q,      \* complete input that nobody has read
          line    \* the line being edited

Type(c) ==
  /\ Len(q) + Len(line) < Size
  /\ IF c \in {NL, EOF} \/ Len(q) + Len(line) + 1 = Size
     THEN q' = q \o Append(line, c) /\ line' = <<>>
     ELSE line' = Append(line, c) /\ UNCHANGED q

Erase == line # <<>> /\ line' = SubSeq(line, 1, Len(line) - 1) /\ UNCHANGED q

KillLine == line' = <<>> /\ UNCHANGED q

Get == q # <<>> /\ q' = Tail(q) /\ UNCHANGED line

Init == q = <<>> /\ line = <<>>

Next == (\E c \in Chars : Type(c)) \/ Erase \/ KillLine \/ Get

Spec == Init /\ [][Next]_<<q, line>>
=============================================================================
